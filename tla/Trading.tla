------------------------------ MODULE Trading ------------------------------
(***************************************************************************)
(* Trading offers and the inventory they move (trading-service.ts,         *)
(* inventory-service.ts).  A player reviews items or terms, sends a        *)
(* request, repeats it when the reply is lost, and the terms may be        *)
(* another's or the items may have changed by the time it is worked on.    *)
(* Every operation locks its players and is one transaction; a refused one *)
(* rolls back and leaves no trace.                                         *)
(***************************************************************************)
EXTENDS Integers, FiniteSets

CONSTANTS
  Trader, Offer, Request,
  Assets,         \* bound: items in the world
  Definition,     \* of cases, each with its own kind of key
  TermsSize,      \* bound: items on an offer, 50 a side in the code
  MaxRevision,    \* 100 in the code
  MaxTurn,        \* bound: how often an item changes hands
  TradeUpSize     \* 10 in the code

ASSUME TradingAssumption ==
  /\ {Assets, TermsSize, MaxRevision, MaxTurn, TradeUpSize} \subseteq Nat \ {0}
  /\ "none" \notin Trader \cup Offer

Asset == 1..Assets

VARIABLES
  item,      \* per asset its row in player_b2g_inventory_items
  nextId,    \* b2g_inventory_asset_id_seq
  grant,     \* per asset the grant that lets its owner open or unseal it
  offer,     \* per offer its row, with the terms of its current revision
  request,   \* per request what its player asks, and what he saw when he asked
  answered   \* the requests in b2g_trade_requests

tradingVars == <<item, nextId, grant, offer, request, answered>>

NoItem == [kind |-> "none", definition |-> "none", owner |-> "none", active |-> FALSE,
           turn |-> 0, name |-> 0]
NoGrant == [owner |-> "none", used |-> FALSE]
NoTerms == [i \in {} |-> <<>>]
NoOffer == [status |-> "none", from |-> "none", to |-> "none", revision |-> 0, terms |-> NoTerms]
Unsent == [action |-> "none", actor |-> "none", other |-> "none", offer |-> "none",
           revision |-> 0, terms |-> NoTerms]

TradingInit ==
  /\ item = [i \in Asset |-> NoItem] /\ nextId = 1
  /\ grant = [i \in Asset |-> NoGrant]
  /\ offer = [o \in Offer |-> NoOffer]
  /\ request = [r \in Request |-> Unsent] /\ answered = {}

Owned(p) == {i \in Asset : item[i].owner = p /\ item[i].active}
Is(i, kind) == item[i].kind = kind
Opens(i) == item[i].kind \in {"case", "package"}
Keys(p, d) == {k \in Owned(p) : Is(k, "key") /\ item[k].definition = d}

NewItem(p, kind, d) ==
  [kind |-> kind, definition |-> d, owner |-> p, active |-> TRUE, turn |-> 0, name |-> 0]
\* Nobody reads again what a consumed item was called.
Consumed(is) ==
  [i \in Asset |-> IF i \in is THEN [item[i] EXCEPT !.active = FALSE, !.turn = 0, !.name = 0] ELSE item[i]]

\* What a player reviews: the parts of a fingerprint that can change.
Look(i) == <<item[i].owner, item[i].turn, item[i].name>>

\* openingEntitlement and the restrictions of itemView.
Entitled(i) ==
  /\ Opens(i) => grant[i] = [owner |-> item[i].owner, used |-> FALSE]
  /\ Is(i, "case") => Keys(item[i].owner, item[i].definition) # {}
Tradable(i) ==
  /\ item[i].active /\ ~Is(i, "key")
  /\ Entitled(i)

-----------------------------------------------------------------------------
(* Inventory.                                                              *)

\* A service level-up: a case with its key, or a package.
\* A sealed graffiti is like a package here: its grant goes with it.  Bound: one
\* package.
DropReward(p) ==
  /\ \/ /\ nextId < Assets /\ nextId' = nextId + 2
        /\ \E d \in Definition :
             item' = [item EXCEPT ![nextId] = NewItem(p, "case", d), ![nextId + 1] = NewItem(p, "key", d)]
     \/ /\ nextId <= Assets /\ nextId' = nextId + 1
        /\ \A i \in Asset : ~Is(i, "package")
        /\ item' = [item EXCEPT ![nextId] = NewItem(p, "package", "none")]
  /\ grant' = [grant EXCEPT ![nextId] = [owner |-> p, used |-> FALSE]]
  /\ UNCHANGED <<offer, request, answered>>

Exchange(p, spent, kind) ==
  /\ nextId <= Assets /\ nextId' = nextId + 1
  /\ item' = [Consumed(spent) EXCEPT ![nextId] = NewItem(p, kind, "none")]

\* openB2GCase: the grant of the present owner, the case and one key for it.
OpenCase(p, c) ==
  /\ c \in Owned(p) /\ Opens(c)
  /\ grant[c] = [owner |-> p, used |-> FALSE]
  /\ \/ Is(c, "package") /\ Exchange(p, {c}, "souvenir")
     \/ \E k \in Keys(p, item[c].definition) : Is(c, "case") /\ Exchange(p, {c, k}, "skin")
  /\ grant' = [grant EXCEPT ![c].used = TRUE]
  /\ UNCHANGED <<offer, request, answered>>

\* tradeUpB2G.
TradeUp(p) ==
  /\ \E inputs \in SUBSET {i \in Owned(p) : Is(i, "skin")} :
       /\ Cardinality(inputs) = TradeUpSize
       /\ Exchange(p, inputs, "skin")
  /\ UNCHANGED <<grant, offer, request, answered>>

\* renameB2GItem; bound: one new name.
Rename(p, i) ==
  /\ i \in Owned(p) /\ item[i].kind \in {"skin", "souvenir"}
  /\ item' = [item EXCEPT ![i].name = 1]
  /\ UNCHANGED <<nextId, grant, offer, request, answered>>

-----------------------------------------------------------------------------
(* Requests: what a player asks, from what he has seen.  A request whose   *)
(* reply was lost is sent again, so one that is not forgotten may be       *)
(* worked on at any time.                                                  *)

\* New terms: tradable items of the two players, not all of which need be
\* given by one of them.
Reviewed(p, q) ==
  {is \in SUBSET {i \in Owned(p) \cup Owned(q) : Tradable(i)} :
     is # {} /\ Cardinality(is) <= TermsSize}
TermsOf(is) == [i \in is |-> Look(i)]

AskCreate(r, p, q) ==
  /\ request[r] = Unsent /\ p # q
  /\ \E is \in Reviewed(p, q) :
       request' = [request EXCEPT ![r] = [action |-> "create", actor |-> p, other |-> q, offer |-> "none",
                                          revision |-> 0, terms |-> TermsOf(is)]]
  /\ UNCHANGED <<item, nextId, grant, offer, answered>>

\* About the revision of the offer that the player sees.
Ask(r, p, o, action, terms) ==
  /\ request[r] = Unsent /\ offer[o].status = "pending"
  /\ request' = [request EXCEPT ![r] =
       [action |-> action, actor |-> p, other |-> IF p = offer[o].from THEN offer[o].to ELSE offer[o].from,
        offer |-> o, revision |-> offer[o].revision, terms |-> terms]]
  /\ UNCHANGED <<item, nextId, grant, offer, answered>>

AskCounter(r, o) ==
  \E is \in Reviewed(offer[o].to, offer[o].from) : Ask(r, offer[o].to, o, "counter", TermsOf(is))

AskAnswer(r, o, action) ==
  \/ action = "accept" /\ Ask(r, offer[o].to, o, action, offer[o].terms)
  \/ action = "decline" /\ Ask(r, offer[o].to, o, action, NoTerms)
  \/ action = "cancel" /\ Ask(r, offer[o].from, o, action, NoTerms)

\* The player has a reply, or the error of a request that was refused.
Forget(r) ==
  /\ request[r] # Unsent
  /\ request' = [request EXCEPT ![r] = Unsent] /\ answered' = answered \ {r}
  /\ UNCHANGED <<item, nextId, grant, offer>>

-----------------------------------------------------------------------------
(* mutate: an answered request is only answered again; the response is     *)
(* recorded with the work, also that of an error that changed something.   *)

Mutate(r, action) ==
  /\ request[r].action = action /\ r \notin answered
  /\ answered' = answered \cup {r}
  /\ UNCHANGED <<request, nextId>>

\* Accepted, declined, cancelled, expired or invalidated: nothing of a closed
\* offer is read again.
Close(o) == offer' = [offer EXCEPT ![o] = [NoOffer EXCEPT !.status = "closed"]]

\* terms: every item as it was reviewed, tradable, and entitled.
Companions(is) ==
  {ks \in SUBSET UNION {Keys(item[i].owner, item[i].definition) : i \in {j \in is : Is(j, "case")}} :
     \A p \in Trader, d \in Definition :
       Cardinality(ks \cap Keys(p, d)) = Cardinality({i \in is : Is(i, "case") /\ item[i].owner = p
                                                                /\ item[i].definition = d})}
Acceptable(terms) ==
  /\ \A i \in DOMAIN terms : Tradable(i) /\ Look(i) = terms[i]
  /\ Companions(DOMAIN terms) # {}

\* The id of a closed offer that nobody asks about stands for a new one.
Create(r, o) ==
  LET q == request[r] IN
  /\ Mutate(r, "create")
  /\ offer[o].status # "pending" /\ (\A s \in Request : request[s].offer # o)
  /\ Acceptable(q.terms)
  /\ offer' = [offer EXCEPT ![o] = [status |-> "pending", from |-> q.actor, to |-> q.other,
                                    revision |-> 1, terms |-> q.terms]]
  /\ UNCHANGED <<item, grant>>

\* Mutant: validatePending does not compare the revision.
PendingMutant(r) ==
  /\ request[r].offer # "none"
  /\ offer[request[r].offer].status = "pending"

\* validatePending.
Pending(r) ==
  /\ request[r].offer # "none"
  /\ offer[request[r].offer].status = "pending"
  /\ offer[request[r].offer].revision = request[r].revision

\* Its other outcomes that are recorded: the offer is closed, or expires now.
Unavailable(r) ==
  LET o == request[r].offer IN
  /\ o # "none"
  /\ \E action \in {"counter", "accept", "decline", "cancel"} : Mutate(r, action)
  /\ IF offer[o].status = "pending" THEN Close(o) ELSE UNCHANGED offer
  /\ UNCHANGED <<item, grant>>

Counter(r) ==
  LET q == request[r]  o == q.offer IN
  /\ Mutate(r, "counter") /\ Pending(r)
  /\ offer[o].from # q.actor /\ offer[o].revision < MaxRevision
  /\ Acceptable(q.terms)
  /\ offer' = [offer EXCEPT ![o] = [status |-> "pending", from |-> q.actor, to |-> q.other,
                                    revision |-> q.revision + 1, terms |-> q.terms]]
  /\ UNCHANGED <<item, grant>>

Refuse(r, action) ==
  LET o == request[r].offer IN
  /\ Mutate(r, action) /\ Pending(r)
  /\ (action = "cancel") <=> (offer[o].from = request[r].actor)
  /\ Close(o)
  /\ UNCHANGED <<item, grant>>

\* settle: the items, their companion keys and their grants change hands, and
\* leave the loadout; or the offer is invalid by now.
Recipient(o, i) == IF item[i].owner = offer[o].from THEN offer[o].to ELSE offer[o].from

\* Mutant: the companion keys stay with their owner.
TransferMutant(o, is, keys) ==
  /\ item' = [i \in Asset |->
       IF i \in is THEN [item[i] EXCEPT !.owner = Recipient(o, i), !.turn = item[i].turn + 1] ELSE item[i]]
  /\ grant' = [i \in Asset |-> IF i \in is /\ Opens(i) THEN [grant[i] EXCEPT !.owner = Recipient(o, i)]
                                ELSE grant[i]]

Transfer(o, is, keys) ==
  /\ item' = [i \in Asset |->
       IF i \in is \cup keys THEN [item[i] EXCEPT !.owner = Recipient(o, i), !.turn = item[i].turn + 1] ELSE item[i]]
  /\ grant' = [i \in Asset |-> IF i \in is /\ Opens(i) THEN [grant[i] EXCEPT !.owner = Recipient(o, i)]
                                ELSE grant[i]]

Accept(r) ==
  LET o == request[r].offer  terms == offer[o].terms IN
  /\ Mutate(r, "accept") /\ Pending(r)
  /\ offer[o].from # request[r].actor
  /\ \/ /\ ~Acceptable(terms)
        /\ Close(o)
        /\ UNCHANGED <<item, grant>>
     \/ /\ Acceptable(terms) /\ (\A i \in Asset : item[i].turn < MaxTurn)
        /\ \E keys \in Companions(DOMAIN terms) : Transfer(o, DOMAIN terms, keys)
        /\ Close(o)

\* expireOffers.
Expire(o) ==
  /\ offer[o].status = "pending" /\ Close(o)
  /\ UNCHANGED <<item, nextId, grant, request, answered>>

TradingNext ==
  \/ \E p \in Trader :
       \/ DropReward(p) \/ TradeUp(p)
       \/ \E i \in Asset : OpenCase(p, i) \/ Rename(p, i)
       \/ \E r \in Request, q \in Trader : AskCreate(r, p, q)
  \/ \E r \in Request :
       \/ \E o \in Offer : Create(r, o) \/ AskCounter(r, o)
       \/ \E o \in Offer, action \in {"accept", "decline", "cancel"} : AskAnswer(r, o, action)
       \/ Forget(r) \/ Unavailable(r) \/ Counter(r) \/ Accept(r)
       \/ Refuse(r, "decline") \/ Refuse(r, "cancel")
  \/ \E o \in Offer : Expire(o)

TradingSpec == TradingInit /\ [][TradingNext]_tradingVars

-----------------------------------------------------------------------------
TradingTypeOK ==
  /\ item \in [Asset -> [kind : {"none", "case", "key", "package", "skin", "souvenir"},
                         definition : Definition \cup {"none"}, owner : Trader \cup {"none"},
                         active : BOOLEAN, turn : Nat, name : Nat]]
  /\ nextId \in 1..(Assets + 1)
  /\ grant \in [Asset -> [owner : Trader \cup {"none"}, used : BOOLEAN]]
  /\ answered \subseteq Request
  /\ \A o \in Offer :
       /\ offer[o].status \in {"none", "pending", "closed"}
       /\ offer[o].revision \in 0..MaxRevision /\ DOMAIN offer[o].terms \subseteq Asset
  /\ \A r \in Request : request[r].offer \in Offer \cup {"none"} /\ DOMAIN request[r].terms \subseteq Asset

\* An unopened case, package or graffiti can be opened by the one who has it.
GrantsFollow == \A i \in Asset : Opens(i) /\ item[i].active => grant[i] = [owner |-> item[i].owner, used |-> FALSE]

\* A player has as many keys of a kind as unopened cases for them.
KeysMatchCases ==
  \A p \in Trader, d \in Definition :
    Cardinality(Keys(p, d)) = Cardinality({i \in Owned(p) : Is(i, "case") /\ item[i].definition = d})

\* What the operator's health check counts (trading-operations.ts:30-37), and
\* the keys: trades, openings and contracts keep an inventory consistent.
InventoryIsConsistent == GrantsFollow /\ KeysMatchCases

\* Items change hands only for a request to accept, between its two players, and
\* as the one who accepts has seen them: not after a counter-offer, a change of
\* name, an opening, or a trade there and back.  Keys go along with their cases.
AcceptedAsReviewed ==
  [][\A i \in Asset : item[i].owner \in Trader /\ item'[i].owner # item[i].owner =>
       \E r \in answered' \ answered :
         LET q == request[r] IN
         /\ q.action = "accept" /\ {item[i].owner, item'[i].owner} = {q.actor, q.other}
         /\ \/ i \in DOMAIN q.terms /\ q.terms[i] = Look(i)
            \/ /\ Is(i, "key")
               /\ \E c \in DOMAIN q.terms : Is(c, "case") /\ item[c].definition = item[i].definition
                                          /\ item'[c].owner = item'[i].owner]_tradingVars
=============================================================================
