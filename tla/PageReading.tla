------------------------------ MODULE PageReading ------------------------------
(***************************************************************************)
(* What a scrape reads: price extraction from structured data              *)
(* (internal/scraper/extract.go, money.go), the adapter of Wildberries     *)
(* (wildberries.go), the choice between them (adapter.go), and what the    *)
(* pool makes of the reading (process and convert in pool.go).             *)
(*                                                                         *)
(* A page is its JSON-LD blobs and its elements that have an itemprop or a *)
(* meta key, in the order of the document.  A price on it is a literal of  *)
(* MoneyParse with what stands around it.  What may be missing is a set of *)
(* at most one element; so is the hint, the currency an item is read in.   *)
(***************************************************************************)
EXTENDS MoneyParse, Integers, FiniteSetsExt

CONSTANTS
    Decimals,    \* of each currency: domain.MinorUnits
    WbCurrency   \* the one the adapter asks for

ShopCurrencies == DOMAIN Decimals
ASSUME PageCurrenciesAssumption == WbCurrency \in ShopCurrencies

\* A label nobody recognises.
Unknown == "?"

-----------------------------------------------------------------------------
\* money.go and structuredMoney

\* A price is [digits, bare, numeric, symbol]: its literal, whether there is nothing
\* else in the string, whether it is a JSON number, and a currency named next to it.
DetectCurrency(label) == label \ {Unknown}
\* Mutation: the assumed currency comes first.
StatedHintFirst(label, hint) == IF hint # {} THEN hint ELSE DetectCurrency(label)
Stated(label, hint) == IF DetectCurrency(label) # {} THEN DetectCurrency(label) ELSE hint

ParseMoney(raw, hint) ==
    UNION {{[amount |-> a, currency |-> c] : a \in ParseAmount(raw.digits, Decimals[c])} :
              c \in Stated(raw.symbol, hint)}
ParsePlain(raw, currency) ==
    UNION {{[amount |-> a, currency |-> c] :
               a \in IF raw.bare THEN ParseDecimalAmount(raw.digits, Decimals[c]) ELSE {}} :
              c \in currency}

\* Without a comma it is a plain decimal, if it can be one.
StructuredMoney(raw, currency) ==
    LET plain == IF raw.numeric \/ "," \notin ToSet(raw.digits.seps)
                 THEN ParsePlain(raw, currency) ELSE {}
    IN  IF currency = {} THEN {}
        ELSE IF raw.numeric \/ plain # {} THEN plain
        ELSE ParseMoney(raw, currency)

-----------------------------------------------------------------------------
\* extract.go

\* availabilityInStock: only explicit negatives turn it off.
Negatives == {"outofstock", "soldout", "discontinued", "outofservice"}
AvailabilityInStock(label) == label \cap Negatives = {}

\* What a strategy found, if it found a price.
Found(source, prices, label, hint, availability, title) ==
    {[price |-> {m}, inStock |-> AvailabilityInStock(availability), title |-> title,
      source |-> source] : m \in UNION {StructuredMoney(raw, Stated(label, hint)) : raw \in prices}}

\* The first of some options that is there; the first of some readings.
First(options) ==
    LET there == {n \in DOMAIN options : options[n] # {}}
    IN  IF there = {} THEN {} ELSE options[Min(there)]

\* An object of JSON-LD is [name, offers, parts]: the objects under its offers key, and
\* those of its containers; an offer may wrap more of them.
RECURSIVE FlattenJSONLD(_), FirstOffer(_)
FlattenJSONLD(blob) ==
    <<blob>> \o FlattenSeq([n \in DOMAIN blob.parts |-> FlattenJSONLD(blob.parts[n])])
FirstOffer(offers) ==
    IF offers = <<>> THEN {} ELSE First(<<FirstOffer(offers[1].offers), {offers[1]}>>)
ProductFromNode(node, hint) ==
    UNION {Found("json-ld", First(<<o.price, o.lowPrice>>), o.priceCurrency, hint,
                 o.availability, node.name) : o \in FirstOffer(node.offers)}
FromJSONLD(page, hint) ==
    LET nodes == FlattenSeq([n \in DOMAIN page.jsonLD |-> FlattenJSONLD(page.jsonLD[n])])
    IN  First([n \in DOMAIN nodes |-> ProductFromNode(nodes[n], hint)])

\* scanPage keeps the first value of a key, whichever product it belongs to.
Seen(page, key) ==
    LET all == SelectSeq(page.elements, LAMBDA e : e.key = key)
    IN  IF all = <<>> THEN {} ELSE {all[1].value}

FromMicrodata(page, hint) ==
    Found("microdata", First(<<Seen(page, "price"), Seen(page, "lowprice")>>),
          Seen(page, "pricecurrency"), hint, Seen(page, "availability"), Seen(page, "name"))

FirstNonEmpty(page, keys) == First([n \in DOMAIN keys |-> Seen(page, keys[n])])
FromOpenGraph(page, hint) ==
    Found("opengraph",
          FirstNonEmpty(page, <<"product:price:amount", "og:price:amount", "twitter:data1">>),
          FirstNonEmpty(page, <<"product:price:currency", "og:price:currency", "twitter:label1">>),
          hint,
          FirstNonEmpty(page, <<"product:availability", "og:availability">>),
          FirstNonEmpty(page, <<"og:title", "twitter:title">>))

Failed(err) == [err |-> err, read |-> {}]
Read(obs) == [err |-> "none", read |-> {obs}]

\* A challenge is no page without a price.
Extract(page, hint) ==
    LET found == First(<<FromJSONLD(page, hint), FromMicrodata(page, hint),
                         FromOpenGraph(page, hint)>>)
        titled(obs) == IF obs.title = {} THEN [obs EXCEPT !.title = page.title] ELSE obs
    IN  IF page.challenge THEN Failed("blocked")
        ELSE IF found = {} THEN Failed("no price")
        ELSE Read(titled(CHOOSE obs \in found : TRUE))

-----------------------------------------------------------------------------
\* wildberries.go

\* What a customer pays comes first; 0 is no price.
WbPrice(price) ==
    First(<<{price.product} \ {0}, {price.total} \ {0}, {price.basic} \ {0}>>)
\* A size is [stocks, price]: quantities, and a block that may be missing.
Available(size) == \E qty \in size.stocks : qty > 0
Prices(sizes) == UNION {UNION {WbPrice(b) : b \in size.price} : size \in sizes}

\* The cheapest size that can be bought, or else the cheapest there is.  A size that is
\* available without a price counts for nothing.
WbBestPrice(sizes) ==
    LET buyable == Prices({size \in sizes : Available(size)})
        best == IF buyable # {} THEN buyable ELSE Prices(sizes)
    IN  [best |-> IF best = {} THEN {} ELSE {Min(best)}, inStock |-> buyable # {}]

\* products is the API's answer; only the first counts.
WbObservation(products) ==
    IF products = <<>> THEN Failed("not found")
    ELSE LET found == WbBestPrice(products[1].sizes)
         IN  Read([price |-> {[amount |-> a, currency |-> WbCurrency] : a \in found.best},
                   inStock |-> found.inStock, title |-> products[1].title,
                   source |-> "wildberries-api"])

-----------------------------------------------------------------------------
\* adapter.go

\* A shop is [adapted, id, api, products, html, page]: whether the adapter handles the
\* host and the URL has an id, the outcomes of the two fetches (for the API's, decoding
\* included), and what they bring.
WbObserve(shop) ==
    IF ~shop.id THEN Failed("no price")
    ELSE IF shop.api # "none" THEN Failed(shop.api)
    ELSE WbObservation(shop.products)
Generic(shop, hint) ==
    IF shop.html # "none" THEN Failed(shop.html) ELSE Extract(shop.page, hint)

FallsThrough(adapted) == adapted.err \notin {"none", "blocked"}

\* The adapter first, then what any shop is read by.
Observe(shop, hint) ==
    IF ~shop.adapted \/ FallsThrough(WbObserve(shop)) THEN Generic(shop, hint)
    ELSE WbObserve(shop)

-----------------------------------------------------------------------------
\* pool.go

\* readingCurrency: the threshold's, else the owner's.
ReadingCurrency(target, preferred) == IF target # {} THEN {t.currency : t \in target} ELSE preferred

\* The request of a reading; rates converts, when it can.
RecordRequest(obs, hint, rates) ==
    [price |-> obs.price, in_stock |-> obs.inStock,
     converted_price |-> UNION {UNION {rates[m.currency, c] : c \in hint \ {m.currency}} : m \in obs.price}]

\* failureReason: short and stable, but for what it does not know.
FailureReason(err) ==
    CASE err = "blocked"   -> "blocked by the shop"
      [] err = "not found" -> "page not found"
      [] err = "temporary" -> "shop unavailable"
      [] err = "no price"  -> "no price found on the page"
      [] OTHER             -> "the error's own text"
=============================================================================
