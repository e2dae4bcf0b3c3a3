---------------------------- MODULE ScrapeReadings ----------------------------
(***************************************************************************)
(* What the workers of ScrapePool read, between taking an item and         *)
(* reporting it: the pages of any shop and the answers of Wildberries, as  *)
(* PageReading says.                                                       *)
(***************************************************************************)
EXTENDS ScrapeClient, PageReading

CONSTANT Amounts  \* prices, in minor units

ASSUME AmountsAssumption == Amounts \subseteq Nat \ {0}

-----------------------------------------------------------------------------
\* Pages that say one thing

\* A price as a JSON number, or as text in any style, bare or next to its currency.
Number(a, c) == LET places == IF a % 10^Decimals[c] = 0 THEN 0 ELSE Decimals[c]
                IN  [digits |-> Printed(a, Decimals[c], [group |-> "none", decimal |-> ".",
                                                         places |-> places]),
                     bare |-> TRUE, numeric |-> TRUE, symbol |-> {}]
Text(a, c, style, named) == [digits |-> Printed(a, Decimals[c], style), bare |-> named = {},
                             numeric |-> FALSE, symbol |-> named]

\* "1.299" alone is a decimal to the code, as schema.org has it: shops that mean a
\* thousand by it are left out.  So are whole amounts in a currency with three decimals
\* that are grouped (Thresholds).
Misleading(raw, c, style) ==
    /\ style.places = 0
    /\ \/ raw.bare /\ raw.digits.seps = <<".">>
       \/ Decimals[c] = 3 /\ raw.digits.seps # <<>>
Texts(a, c) ==
    UNION {{raw \in {Text(a, c, style, named) : named \in {{}, {c}}} : ~Misleading(raw, c, style)} :
              style \in {s \in Styles(Decimals[c]) : Fits(a, Decimals[c], s)}}
Writings(a, c) == {Number(a, c)} \cup Texts(a, c)

\* Text that is no price.
NoPrice == [digits |-> [groups |-> <<>>, seps |-> <<>>], bare |-> FALSE, numeric |-> FALSE,
            symbol |-> {}]
Labels(c) == {{}, {Unknown}, {c}}
\* The currency is named with the price, or is the one assumed.
Certain(raw, label, hint, c) ==
    LET named == DetectCurrency(label) \cup raw.symbol
    IN  c \in named \/ (named = {} /\ hint = {c})

Offer(raw, label, inStock) ==
    [price |-> {raw}, lowPrice |-> {}, priceCurrency |-> label, offers |-> <<>>,
     availability |-> {IF inStock THEN "instock" ELSE "outofstock"}]
Offers(a, c, inStock, hint) ==
    UNION {{Offer(raw, label, inStock) : label \in {x \in Labels(c) : Certain(raw, x, hint, c)}} :
              raw \in Writings(a, c)}
Unpriced(inStock) == Offer(NoPrice, {}, ~inStock)

\* The shapes an offer has in JSON-LD, and its two forms as elements.
Object(offers, parts) == [name |-> {"name"}, offers |-> offers, parts |-> parts]
Around(offers) == [Offer(NoPrice, {}, TRUE) EXCEPT !.offers = offers]
Shapes(o) ==
    LET range == [o EXCEPT !.price = {}, !.lowPrice = o.price]
        deep == Object(<<>>, <<Object(<<>>, <<>>), Object(<<>>, <<Object(<<o>>, <<>>)>>)>>)
    IN  {<<Object(<<>>, <<deep>>)>>,
         <<Object(<<Around(<<Around(<<o, range>>)>>)>>, <<>>)>>,
         <<Object(<<>>, <<>>), deep, Object(<<Unpriced(TRUE)>>, <<>>)>>,
         <<Object(<<range, o>>, <<>>)>>}
Plain(o) == <<Object(<<o>>, <<>>)>>
Elements(key, values) == SetToSeq({[key |-> key, value |-> v] : v \in values})
Microdata(o) == Elements("price", o.price) \o Elements("pricecurrency", o.priceCurrency)
                    \o Elements("availability", o.availability) \o Elements("name", {"name"})
OpenGraph(o) == Elements("og:price:amount", o.price)
                    \o Elements("product:price:currency", o.priceCurrency)
                    \o Elements("og:availability", o.availability)

Page(jsonLD, elements) == [challenge |-> FALSE, title |-> {"title"}, jsonLD |-> jsonLD,
                           elements |-> elements]
\* In each format the offer, one without a price, or nothing; in one of them at least
\* the offer is there.
Pages(a, c, inStock, hint) ==
    LET offers == Offers(a, c, inStock, hint)
        texts == {o \in offers : \A raw \in o.price : ~raw.numeric}
        some == {CHOOSE o \in texts : TRUE}
        bad == Unpriced(inStock)
        noBlob == {<<>>, Plain(bad)}
        noData == {<<>>, Microdata(bad)}
        graphs == {<<>>, OpenGraph(bad)} \cup {OpenGraph(o) : o \in some}
    IN  IF texts = {} THEN {}
        ELSE {Page(j, d \o g) : j \in {Plain(o) : o \in offers} \cup UNION {Shapes(o) : o \in some},
                                d \in noData, g \in graphs}
             \cup {Page(j, d \o g) : j \in noBlob, d \in {Microdata(o) : o \in texts}, g \in graphs}
             \cup {Page(j, d \o g) : j \in noBlob, d \in noData, g \in {OpenGraph(o) : o \in texts}}
PricelessPages(inStock) ==
    {Page(j, d \o g) : j \in {<<>>, Plain(Unpriced(inStock))},
                       d \in {<<>>, Microdata(Unpriced(inStock))},
                       g \in {<<>>, OpenGraph(Unpriced(inStock))}}

\* Core always sends one: users.default_currency is not nullable.
Hints == {{c} : c \in ShopCurrencies}
ReadsAs(page, hint, m, inStock) ==
    LET x == Extract(page, hint)
    IN  /\ x.err = "none"
        /\ \A obs \in x.read : obs.price = {m} /\ obs.inStock = inStock /\ obs.title # {}

PagesSayWhatTheyMean ==
    \A hint \in Hints, inStock \in BOOLEAN :
        /\ \A a \in Amounts, c \in ShopCurrencies :
              \A page \in Pages(a, c, inStock, hint) :
                  /\ ReadsAs(page, hint, [amount |-> a, currency |-> c], inStock)
                  /\ Extract([page EXCEPT !.challenge = TRUE], hint) = Failed("blocked")
        /\ \A page \in PricelessPages(inStock) : Extract(page, hint) = Failed("no price")

-----------------------------------------------------------------------------
\* Shops

Paid == {[product |-> 2, total |-> 3, basic |-> 4], [product |-> 1, total |-> 3, basic |-> 4],
         [product |-> 0, total |-> 3, basic |-> 4], [product |-> 0, total |-> 0, basic |-> 4],
         [product |-> 0, total |-> 0, basic |-> 0]}
Sizes == [stocks : {{}, {0}, {0, 1}}, price : {{}} \cup {{b} : b \in Paid}]
Variants == UNION {kSubset(n, Sizes) : n \in 0 .. 2}
Products(sizes) == <<[sizes |-> sizes, title |-> {"title"}]>>

\* In stock at a price means that some size can be bought for it, and none for less.
Buyable(sizes) ==
    LET offered == {size \in sizes : Available(size)}
        asked == UNION {UNION {WbPrice(b) : b \in size.price} : size \in offered}
    IN  \A obs \in WbObservation(Products(sizes)).read :
            /\ obs.inStock <=> asked # {}
            /\ obs.inStock => \A m \in obs.price : /\ m.amount \in asked
                                                   /\ \A n \in asked : m.amount <= n
            /\ obs.price = {} => ~obs.inStock

Outcomes == {FetchOnce(a) : a \in Answers}
SoldOut == {[stocks |-> {}, price |-> {}]}
OnSale == {[stocks |-> {1}, price |-> {b}] : b \in Paid}
SomePages == UNION {{p, [p EXCEPT !.challenge = TRUE]} :
                       p \in PricelessPages(TRUE) \cup
                             {Page(Plain(Offer(Number(1, WbCurrency), {WbCurrency}, inStock)), <<>>) :
                                 inStock \in BOOLEAN}}
Shops == [adapted : BOOLEAN, id : BOOLEAN, api : Outcomes, html : Outcomes,
          products : {<<>>, Products(SoldOut), Products(OnSale)}, page : SomePages]

\* The request passes the checks that core makes before its transaction: a product on
\* sale has a price, and a price is converted into another currency.  One that is sold
\* out and has no price passes them, too, and is refused inside when the item has no
\* history (Pricing's RecordSnapshot).
Submittable(obs, hint) ==
    LET r == RecordRequest(obs, hint, [x \in ShopCurrencies \X ShopCurrencies |->
                                          {[amount |-> 1, currency |-> x[2]]}])
    IN  /\ r.in_stock => r.price # {}
        /\ \A p \in r.price : p.amount > 0 /\ \A q \in r.converted_price : q.currency # p.currency
        /\ r.price = {} => obs.source = "wildberries-api"

\* A block ends the scrape, a challenge page too; anything else of the adapter's leaves
\* the page to be read; what is reported of a failure is one of four reasons, unless
\* the client's own timeout or a shutdown ended it.
SaysWhatFailed(shop, hint) ==
    LET x == Observe(shop, hint)
        adapted == WbObserve(shop)
    IN  /\ \A obs \in x.read : Submittable(obs, hint)
        /\ x.err = "none" <=> \/ shop.adapted /\ adapted.err = "none"
                              \/ ~(shop.adapted /\ adapted.err = "blocked")
                                 /\ Generic(shop, hint).err = "none"
        /\ shop.adapted /\ shop.id /\ shop.api = "blocked" => x = Failed("blocked")
        /\ x.err \notin {"none", "timeout", "cancelled"} =>
              FailureReason(x.err) # "the error's own text"

ShopsRead == /\ \A sizes \in Variants : Buyable(sizes)
             /\ \A shop \in Shops, hint \in Hints : SaysWhatFailed(shop, hint)

-----------------------------------------------------------------------------
\* Properties

\* A page that states an offer in any of the formats, at any depth, is read as that
\* offer, in whichever way the amount is written and whatever the other formats lack,
\* and a challenge is never read as a price; a size said to be in stock can be bought at
\* the price; what is submitted to core passes the checks of its handler, and a failure
\* has a name.
PagesRead == Observing => PagesSayWhatTheyMean /\ ShopsRead
=============================================================================
