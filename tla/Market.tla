-------------------------------- MODULE Market --------------------------------
(***************************************************************************)
(* The market of one profile code: listings, bids, sales, settlement and   *)
(* claims (projects/cyberia/player/market.js), and the edits of its        *)
(* profile (api/cyberia-market/cyberia-market.service.js).                 *)
(*                                                                         *)
(* An operation of a player rides on its joint commit, which JointCommit   *)
(* shows to be applied once or never: here a player sends one request at a *)
(* time, from what its terminal showed then, and what it pays or lists     *)
(* waits in escrow until the engine answers or the session ends.  What the *)
(* engine reads outside the transaction of the commit is a step of its     *)
(* own: the profile a listing is checked against, the listings a           *)
(* settlement found due, the goods an edit counted.                        *)
(***************************************************************************)
EXTENDS Integers, FiniteSets, FiniteSetsExt

CONSTANTS Players, WorldOf,   \* players and the world each plays in
          Worlds, UniverseOf, \* worlds and the universe of each
          Stacks,
          Listings,           \* listing ids: those of the list operations
          Editors,            \* calls of the profile service
          NoPlayer, NoListing, NoRequest, NoProfile,
          InitialCoins, InitialStacks,
          Prices,             \* the prices and bids players name
          Modes,              \* the modes of the profile
          SaleFees,           \* the sale fees an edit may set
          ListingFee, PriceMin, PriceMax, MinRaise, RaisePercent,
          ListingsPerPlayer,
          MaxRevision         \* bound: revisions of the profile

ASSUME PlaceAssumption == WorldOf \in [Players -> Worlds]
ASSUME GoodsAssumption ==
    /\ InitialCoins \in [Players -> Nat]
    /\ InitialStacks \in [Players -> SUBSET Stacks]
    /\ \A s \in Stacks : \E p \in Players :
          s \in InitialStacks[p] /\ \A q \in Players : s \in InitialStacks[q] => q = p
ASSUME TermsAssumption ==
    /\ Prices \subseteq Nat /\ SaleFees \subseteq Nat /\ Modes \subseteq {"fixed", "auction"}
    /\ {ListingFee, PriceMin, PriceMax, MinRaise, RaisePercent, ListingsPerPlayer, MaxRevision} \subseteq Nat
    /\ \A fee \in SaleFees : fee <= PriceMin      \* assertMarketProfile
    /\ \E fee \in SaleFees : \A other \in SaleFees : other <= fee

Scopes == {"instance", "universe"}

(* The market a world opens under a scope (scopeKeyOf).                    *)
ScopeKey(scope, w) == IF scope = "universe" THEN UniverseOf[w] ELSE w

Profile == [scope: Scopes, active: BOOLEAN, saleFee: SaleFees, revision: Nat]
Listing == [status: {"open", "sold", "cancelled", "expired"}, time: {"open", "ending", "ended"},
            scope: Scopes, seller: Players, stack: Stacks, mode: {"fixed", "auction"},
            price: Nat, bid: Nat, bidder: Players \cup {NoPlayer},
            saleFee: SaleFees, revision: Nat, buyer: Players \cup {NoPlayer}]

(* A claim is named by its listing, its reason and, for an outbid, the     *)
(* revision of the listing.                                                *)
Claim == [listing: Listings, reason: {"sale", "won", "outbid", "unsold"}, at: Nat,
          player: Players, coins: Nat, stacks: SUBSET Stacks]

(* An operation, as sent and, for a listing, as checked against the terms. *)
Operation ==
    [kind: {"list"}, stack: Stacks, mode: {"fixed", "auction"}, price: Nat, saleFee: SaleFees]
      \cup [kind: {"checked"}, stack: Stacks, mode: {"fixed", "auction"}, price: Nat,
            saleFee: SaleFees, scope: Scopes]
      \cup [kind: {"cancel"}, listing: Listings, revision: Nat]
      \cup [kind: {"buy", "bid"}, listing: Listings, revision: Nat, price: Nat]
      \cup [kind: {"collect"}, claims: SUBSET Claim]

Request == [op: Operation, escrow: [coins: Nat, stacks: SUBSET Stacks]]

Edit == [kind: {"put"}, revision: Nat, scope: Scopes, active: BOOLEAN, saleFee: SaleFees]
          \cup [kind: {"delete"}]

ASSUME NoneAssumption ==
    /\ NoPlayer \notin Players /\ NoListing \notin Listing
    /\ NoProfile \notin Profile /\ NoRequest \notin Request \cup Edit

VARIABLES
    market,       \* CyberiaMarket, or NoProfile
    listing,      \* CyberiaMarketListing by id, or NoListing
    claims,       \* the pending CyberiaMarketClaim records
    coins, goods, \* what each player has outside the market
    request,      \* the operation each player waits for, with its escrow
    due,          \* ended listings as settlements read them
    edit          \* edits of the profile past their reads

vars == <<market, listing, claims, coins, goods, request, due, edit>>

Init ==
    /\ market = [scope |-> "universe", active |-> TRUE, saleFee |-> Max(SaleFees), revision |-> 0]
    /\ listing = [l \in Listings |-> NoListing]
    /\ claims = {}
    /\ coins = InitialCoins
    /\ goods = InitialStacks
    /\ request = [p \in Players |-> NoRequest]
    /\ due = {}
    /\ edit = [e \in Editors |-> NoRequest]

Exists(l) == listing[l] # NoListing
Open(l) == Exists(l) /\ listing[l].status = "open"

(***************************************************************************)
(* What a server sends.  A terminal shows the market of its world, its     *)
(* revision and fees, and the claims of its player.                        *)
(***************************************************************************)
Shown(p, l) == /\ Open(l) /\ listing[l].time # "ended" /\ market # NoProfile
               /\ listing[l].scope = market.scope
               /\ ScopeKey(market.scope, WorldOf[listing[l].seller]) = ScopeKey(market.scope, WorldOf[p])

NoEscrow == [coins |-> 0, stacks |-> {}]

(* Coins and a stack leave the player for escrow until the answer.         *)
Send(p, r, escrow) ==
    /\ request[p] = NoRequest
    /\ escrow.coins <= coins[p] /\ escrow.stacks \subseteq goods[p]
    /\ request' = [request EXCEPT ![p] = [op |-> r, escrow |-> escrow]]
    /\ coins' = [coins EXCEPT ![p] = @ - escrow.coins]
    /\ goods' = [goods EXCEPT ![p] = @ \ escrow.stacks]
    /\ UNCHANGED <<market, listing, claims, due, edit>>

SendList(p, stack, mode, price) ==
    /\ market # NoProfile /\ market.active
    /\ Send(p, [kind |-> "list", stack |-> stack, mode |-> mode, price |-> price,
                saleFee |-> market.saleFee],
            [coins |-> ListingFee, stacks |-> {stack}])

SendCancel(p, l) ==
    /\ Shown(p, l) /\ listing[l].seller = p
    /\ Send(p, [kind |-> "cancel", listing |-> l, revision |-> listing[l].revision], NoEscrow)

SendBuy(p, l) ==
    /\ Shown(p, l) /\ listing[l].mode = "fixed" /\ listing[l].seller # p
    /\ Send(p, [kind |-> "buy", listing |-> l, revision |-> listing[l].revision,
                price |-> listing[l].price],
            [coins |-> listing[l].price, stacks |-> {}])

SendBid(p, l, price) ==
    /\ Shown(p, l) /\ listing[l].mode = "auction" /\ listing[l].seller # p
    /\ Send(p, [kind |-> "bid", listing |-> l, revision |-> listing[l].revision, price |-> price],
            [coins |-> price, stacks |-> {}])

SendCollect(p, some) ==
    /\ market # NoProfile
    /\ some # {} /\ \A c \in some : c.player = p
    /\ Send(p, [kind |-> "collect", claims |-> some], NoEscrow)

Doing(p, kind) == request[p] # NoRequest /\ request[p].op.kind = kind

(* The operation applied: escrow is spent, what it gives goes to p.        *)
Applied(p, gets) ==
    /\ request' = [request EXCEPT ![p] = NoRequest]
    /\ coins' = [coins EXCEPT ![p] = @ + gets.coins]
    /\ goods' = [goods EXCEPT ![p] = @ \cup gets.stacks]

(* A refusal, or the end of the session: escrow goes back.                 *)
GiveBack(p) ==
    /\ request[p] # NoRequest
    /\ Applied(p, request[p].escrow)
    /\ UNCHANGED <<market, listing, claims, due, edit>>

(***************************************************************************)
(* applyMarketOp: market_list in two steps, since findProfile reads        *)
(* outside the transaction; the others in one.                             *)
(***************************************************************************)
TermsAccepted(r) ==
    /\ market # NoProfile /\ market.active
    /\ market.saleFee = r.saleFee
    /\ r.mode \in Modes
    /\ PriceMin <= r.price /\ r.price <= PriceMax

ReadTerms(p) ==
    /\ Doing(p, "list") /\ TermsAccepted(request[p].op)
    /\ request' = [request EXCEPT ![p].op =
          [kind |-> "checked", stack |-> @.stack, mode |-> @.mode, price |-> @.price,
           saleFee |-> market.saleFee, scope |-> market.scope]]
    /\ UNCHANGED <<market, listing, claims, coins, goods, due, edit>>

OpenOf(p, scope) ==
    {l \in Listings : /\ Open(l) /\ listing[l].seller = p /\ listing[l].scope = scope}

List(p, l) ==
    LET r == request[p].op IN
    /\ Doing(p, "checked") /\ ~Exists(l)
    /\ Cardinality(OpenOf(p, r.scope)) < ListingsPerPlayer
    /\ listing' = [listing EXCEPT ![l] =
          [status |-> "open", time |-> "open", scope |-> r.scope, seller |-> p,
           stack |-> r.stack, mode |-> r.mode, price |-> r.price, bid |-> 0, bidder |-> NoPlayer,
           saleFee |-> r.saleFee, revision |-> 0, buyer |-> NoPlayer]]
    /\ Applied(p, NoEscrow)
    /\ UNCHANGED <<market, claims, due, edit>>

(* The listing is open, not ended, and as the player saw it.               *)
Matches(r) ==
    /\ Open(r.listing) /\ listing[r.listing].time # "ended"
    /\ listing[r.listing].revision = r.revision

Shut(a, status, buyer) == [a EXCEPT !.status = status, !.buyer = buyer, !.revision = @ + 1]

Closed(l, status, buyer) == [listing EXCEPT ![l] = Shut(listing[l], status, buyer)]

Cancellable(p, r) == Matches(r) /\ listing[r.listing].seller = p /\ listing[r.listing].bidder = NoPlayer

Cancel(p) ==
    LET r == request[p].op IN
    /\ Doing(p, "cancel") /\ Cancellable(p, r)
    /\ listing' = Closed(r.listing, "cancelled", NoPlayer)
    /\ Applied(p, [coins |-> 0, stacks |-> {listing[r.listing].stack}])
    /\ UNCHANGED <<market, claims, due, edit>>

Owed(l, reason, at, p, amount, stacks) ==
    [listing |-> l, reason |-> reason, at |-> at, player |-> p, coins |-> amount, stacks |-> stacks]

(* Mutant: the listing fee is taken off once more.                         *)
ProceedsLessListing(price, saleFee) == price - saleFee - ListingFee

(* proceeds: refused if negative, which the terms of a listing rule out.   *)
Proceeds(price, saleFee) == price - saleFee

Buy(p) ==
    LET r == request[p].op
        l == listing[r.listing]
    IN  /\ Doing(p, "buy") /\ Matches(r)
        /\ l.mode = "fixed" /\ l.price = r.price /\ l.seller # p
        /\ listing' = Closed(r.listing, "sold", p)
        /\ claims' = claims \cup {Owed(r.listing, "sale", 0, l.seller, Proceeds(l.price, l.saleFee), {})}
        /\ Applied(p, [coins |-> 0, stacks |-> {l.stack}])
        /\ UNCHANGED <<market, due, edit>>

(* minBid: the opening price, or the highest bid and a raise.              *)
MinBid(l) ==
    IF l.bid > 0 THEN l.bid + Max({MinRaise, (l.bid * RaisePercent + 99) \div 100}) ELSE l.price

(* Mutant: the bidder who is outbid gets no claim.                         *)
OutbidForgotten(l, id) == {}

(* The bidder a higher bid replaces gets its bid back.                     *)
OutbidClaim(l, id) ==
    IF l.bidder = NoPlayer THEN {} ELSE {Owed(id, "outbid", l.revision, l.bidder, l.bid, {})}

Bid(p) ==
    LET r == request[p].op
        l == listing[r.listing]
    IN  /\ Doing(p, "bid") /\ Matches(r)
        /\ l.mode = "auction" /\ l.seller # p
        /\ MinBid(l) <= r.price /\ r.price <= PriceMax
        /\ listing' = [listing EXCEPT ![r.listing] =
                          [l EXCEPT !.bid = r.price, !.bidder = p, !.revision = @ + 1]]
        /\ claims' = claims \cup OutbidClaim(l, r.listing)
        /\ Applied(p, NoEscrow)
        /\ UNCHANGED <<market, due, edit>>

(* What some claims pay.                                                   *)
CoinsOf(some) == SumFunction([c \in some |-> c.coins])

(* Mutant: a collected claim stays pending.                                *)
LeftPending(some) == claims

Collected(some) == claims \ some

Collect(p) ==
    LET some == request[p].op.claims IN
    /\ Doing(p, "collect") /\ some \subseteq claims
    /\ claims' = Collected(some)
    /\ Applied(p, [coins |-> CoinsOf(some), stacks |-> UNION {c.stacks : c \in some}])
    /\ UNCHANGED <<market, listing, due, edit>>

(***************************************************************************)
(* Settlement.  settleDue reads listings whose end passed; settleListing   *)
(* settles each as it was read, unless it changed since.  Several          *)
(* processes and every view of a terminal do both, each by its own clock:  *)
(* a listing that is ending has ended for some of them, not yet for all.   *)
(***************************************************************************)
Ends(l) ==
    /\ Open(l)
    /\ \/ /\ listing[l].time = "open"
          /\ listing' = [listing EXCEPT ![l].time = "ending"]
       \/ /\ listing[l].time = "ending"
          /\ listing' = [listing EXCEPT ![l].time = "ended"]
    /\ UNCHANGED <<market, claims, coins, goods, request, due, edit>>

ReadDue(l) ==
    /\ Open(l) /\ listing[l].time # "open"
    /\ due' = due \cup {[listing |-> l, read |-> listing[l]]}
    /\ UNCHANGED <<market, listing, claims, coins, goods, request, edit>>

(* Mutant: a listing another process settled is settled again.             *)
StillReadOnly(d) == listing[d.listing].time # "open"

(* Mutant: only a listing without bids is still due.                       *)
UnbidDue(d) == Open(d.listing) /\ listing[d.listing].bidder = NoPlayer

StillDue(d) ==
    /\ Open(d.listing) /\ listing[d.listing].time # "open"
    /\ listing[d.listing].revision = d.read.revision

Won(l) == l.mode = "auction" /\ l.bidder # NoPlayer

SettleClaims(l, id) ==
    IF Won(l) THEN {Owed(id, "won", 0, l.bidder, 0, {l.stack}),
                    Owed(id, "sale", 0, l.seller, Proceeds(l.bid, l.saleFee), {})}
    ELSE {Owed(id, "unsold", 0, l.seller, 0, {l.stack})}

Settle(d) ==
    /\ d \in due /\ StillDue(d)
    /\ listing' = Closed(d.listing, IF Won(d.read) THEN "sold" ELSE "expired",
                         IF Won(d.read) THEN d.read.bidder ELSE NoPlayer)
    /\ claims' = claims \cup SettleClaims(d.read, d.listing)
    /\ UNCHANGED <<market, coins, goods, request, due, edit>>

(***************************************************************************)
(* The profile service: put reads the profile and, for another scope, the  *)
(* goods it holds, then writes if the revision is still the one it read;   *)
(* delete counts the goods, then removes the profile.                      *)
(***************************************************************************)
HeldGoods == {l \in Listings : Open(l)} # {} \/ claims # {}

BeginPut(e, scope, active, fee) ==
    /\ edit[e] = NoRequest /\ market # NoProfile
    /\ scope # market.scope => ~HeldGoods
    /\ edit' = [edit EXCEPT ![e] = [kind |-> "put", revision |-> market.revision,
                                    scope |-> scope, active |-> active, saleFee |-> fee]]
    /\ UNCHANGED <<market, listing, claims, coins, goods, request, due>>

Writable(e) == market # NoProfile /\ market.revision = edit[e].revision

WritePut(e) ==
    /\ edit[e] # NoRequest /\ edit[e].kind = "put" /\ Writable(e)
    /\ market.revision < MaxRevision
    /\ market' = [scope |-> edit[e].scope, active |-> edit[e].active,
                  saleFee |-> edit[e].saleFee, revision |-> market.revision + 1]
    /\ edit' = [edit EXCEPT ![e] = NoRequest]
    /\ UNCHANGED <<listing, claims, coins, goods, request, due>>

BeginDelete(e) ==
    /\ edit[e] = NoRequest /\ market # NoProfile /\ ~HeldGoods
    /\ edit' = [edit EXCEPT ![e] = [kind |-> "delete"]]
    /\ UNCHANGED <<market, listing, claims, coins, goods, request, due>>

WriteDelete(e) ==
    /\ edit[e] # NoRequest /\ edit[e].kind = "delete"
    /\ market' = NoProfile
    /\ edit' = [edit EXCEPT ![e] = NoRequest]
    /\ UNCHANGED <<listing, claims, coins, goods, request, due>>

(* An edit refused or given up.                                            *)
DropEdit(e) ==
    /\ edit[e] # NoRequest
    /\ edit' = [edit EXCEPT ![e] = NoRequest]
    /\ UNCHANGED <<market, listing, claims, coins, goods, request, due>>

Sends(p) ==
    \/ \E s \in Stacks, mode \in {"fixed", "auction"}, price \in Prices : SendList(p, s, mode, price)
    \/ \E l \in Listings :
          \/ SendCancel(p, l)
          \/ SendBuy(p, l)
          \/ \E price \in Prices : SendBid(p, l, price)
    \/ \E some \in SUBSET claims : SendCollect(p, some)

ApplyMarketOp(p) ==
    \/ ReadTerms(p)
    \/ \E l \in Listings : List(p, l)
    \/ Cancel(p)
    \/ Buy(p)
    \/ Bid(p)
    \/ Collect(p)

Edits(e) ==
    \/ \E scope \in Scopes, active \in BOOLEAN, fee \in SaleFees : BeginPut(e, scope, active, fee)
    \/ WritePut(e)
    \/ BeginDelete(e)
    \/ WriteDelete(e)
    \/ DropEdit(e)

Next ==
    \/ \E p \in Players : Sends(p) \/ ApplyMarketOp(p) \/ GiveBack(p)
    \/ \E l \in Listings : Ends(l) \/ ReadDue(l)
    \/ \E d \in due : Settle(d)
    \/ \E e \in Editors : Edits(e)

Spec == Init /\ [][Next]_vars

(* startMarketSettlement settles round after round while a process runs:   *)
(* what has ended by every clock is read by one of them, and then settled. *)
Fairness == \A l \in Listings :
    /\ WF_vars(Exists(l) /\ listing[l].time = "ended" /\ ReadDue(l))
    /\ WF_vars(\E d \in due : d.listing = l /\ Settle(d))

FairSpec == Spec /\ Fairness

(***************************************************************************)
(* Properties.                                                             *)
(***************************************************************************)
(* Every variable has its type; no claim pays less than nothing.           *)
TypeOK ==
    /\ market \in Profile \cup {NoProfile}
    /\ listing \in [Listings -> Listing \cup {NoListing}]
    /\ claims \subseteq Claim
    /\ coins \in [Players -> Nat]
    /\ goods \in [Players -> SUBSET Stacks]
    /\ request \in [Players -> Request \cup {NoRequest}]
    /\ due \subseteq [listing: Listings, read: Listing]
    /\ edit \in [Editors -> Edit \cup {NoRequest}]

Listed == {l \in Listings : Exists(l)}

ListedBy(p) == {l \in Listed : listing[l].seller = p}
LedBy(p) == {l \in Listed : Open(l) /\ listing[l].bidder = p}
SoldBy(p) == {l \in ListedBy(p) : listing[l].status = "sold"}
BoughtBy(p) == {l \in Listed : listing[l].status = "sold" /\ listing[l].buyer = p}
ClaimsOf(p) == {c \in claims : c.player = p}

(* By listing: its highest bid, what its buyer paid, what its seller got.  *)
Highest == [l \in Listed |-> listing[l].bid]
Paid == [l \in Listed |-> IF listing[l].mode = "auction" THEN listing[l].bid ELSE listing[l].price]
Earned == [l \in Listed |-> Paid[l] - listing[l].saleFee]

(* The coins of p: its wallet, its escrow, its leading bids, its claims.   *)
Wealth(p) ==
    coins[p] + (IF request[p] = NoRequest THEN 0 ELSE request[p].escrow.coins)
      + SumFunctionOnSet(Highest, LedBy(p)) + CoinsOf(ClaimsOf(p))

(* What p should have, from the listings alone.                            *)
Balance(p) ==
    InitialCoins[p] - ListingFee * Cardinality(ListedBy(p))
      - SumFunctionOnSet(Paid, BoughtBy(p)) + SumFunctionOnSet(Earned, SoldBy(p))

(* Nobody gains or loses a coin but by a listing fee, a price it paid or a *)
(* sale it made, at the fee the listing recorded: whoever was outbid,      *)
(* refused, cut off or settled twice over has exactly what is its own.     *)
AccountsBalance == \A p \in Players : Wealth(p) = Balance(p)

(* Where a stack is, and whose it is there.                                *)
Places(s) ==
    {<<"goods", p, p>> : p \in {q \in Players : s \in goods[q]}}
      \cup {<<"escrow", p, p>> : p \in {q \in Players : request[q] # NoRequest /\ s \in request[q].escrow.stacks}}
      \cup {<<"listing", l, listing[l].seller>> : l \in {x \in Listed : Open(x) /\ listing[x].stack = s}}
      \cup {<<"claim", c, c.player>> : c \in {x \in claims : s \in x.stacks}}

Owns(p, s) == \E place \in Places(s) : place[3] = p

(* A stack is with one player, in one escrow, in one open listing or in    *)
(* one pending claim, never in two of them and never in none.              *)
StackHasOnePlace == \A s \in Stacks : Cardinality(Places(s)) = 1

(* A stack changes its owner only when an open listing of it is sold, from *)
(* its seller to its buyer.                                                *)
TitlePassesBySale ==
    [][\A s \in Stacks, p, q \in Players :
          p # q /\ Owns(p, s) /\ Owns(q, s)' =>
             \E l \in Listings : /\ Open(l) /\ listing[l].stack = s /\ listing[l].seller = p
                                 /\ listing'[l].status = "sold" /\ listing'[l].buyer = q]_vars

(* A listing that ended is settled, whatever bids reached it while some    *)
(* clocks said it had ended: its goods do not stay in the market.          *)
EndedListingSettles ==
    \A l \in Listings : (Open(l) /\ listing[l].time = "ended") ~> ~Open(l)

(* off-chain-economy.md: "A write keeps the scope and the currency while a *)
(* listing is open or a claim is pending under the code".                  *)
ScopeKeptWhileHolding ==
    [][market # NoProfile /\ market' # NoProfile /\ market'.scope # market.scope => ~HeldGoods]_vars
===============================================================================
