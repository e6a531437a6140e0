---------------------------- MODULE TradingProofs ----------------------------
(***************************************************************************)
(* Trades, openings and contracts keep every inventory consistent, and an  *)
(* item changes hands only as the player who accepts has reviewed it, for  *)
(* every number of players, offers, requests and items.                    *)
(***************************************************************************)
EXTENDS Trading, FiniteSetTheorems, TLAPS

Someone == Trader \cup {"none"}
ItemRow == [kind : {"none", "case", "key", "package", "skin", "souvenir"},
            definition : Definition \cup {"none"}, owner : Someone,
            active : BOOLEAN, turn : Nat, name : Nat]
GrantRow == [owner : Someone, used : BOOLEAN]
Looks == Someone \X Nat \X Nat
Terms == UNION {[is -> Looks] : is \in SUBSET Asset}
OfferRow == [status : {"none", "pending", "closed"}, from : Someone, to : Someone,
             revision : 0..MaxRevision, terms : Terms]
RequestRow == [action : {"none", "create", "counter", "accept", "decline", "cancel"},
               actor : Someone, other : Someone, offer : Offer \cup {"none"},
               revision : 0..MaxRevision, terms : Terms]

InventoryTypes ==
  /\ item \in [Asset -> ItemRow] /\ nextId \in 1..(Assets + 1)
  /\ grant \in [Asset -> GrantRow]
TradeTypes ==
  /\ offer \in [Offer -> OfferRow] /\ request \in [Request -> RequestRow]
  /\ answered \subseteq Request

\* Asset ids the sequence has not given out.
Unborn == \A i \in Asset : i >= nextId => item[i] = NoItem /\ grant[i] = NoGrant

\* Terms are about items of the two players.
Between(terms, p, q) == \A i \in DOMAIN terms : terms[i][1] \in {p, q}

OfferShape ==
  \A o \in Offer : offer[o].status = "pending" =>
    /\ offer[o].from \in Trader /\ offer[o].to \in Trader /\ offer[o].from # offer[o].to
    /\ Between(offer[o].terms, offer[o].from, offer[o].to)

\* A request about a pending offer knows no later revision of it; one to accept
\* that knows the present revision knows its terms and its players.
RequestShape ==
  \A r \in Request :
    /\ request[r].action \in {"create", "counter"} =>
         /\ request[r].actor \in Trader /\ request[r].other \in Trader
         /\ request[r].actor # request[r].other
         /\ Between(request[r].terms, request[r].actor, request[r].other)
    /\ \A o \in Offer : request[r].offer = o /\ offer[o].status = "pending" =>
         /\ request[r].revision <= offer[o].revision
         /\ request[r].action = "accept" /\ request[r].revision = offer[o].revision =>
              /\ request[r].terms = offer[o].terms
              /\ request[r].actor = offer[o].to /\ request[r].other = offer[o].from

Inventory == InventoryTypes /\ Unborn /\ GrantsFollow /\ KeysMatchCases
Trades == TradeTypes /\ OfferShape /\ RequestShape
TradingIInv == Inventory /\ Trades

Cases(p, d) == {i \in Owned(p) : Is(i, "case") /\ item[i].definition = d}

LEMMA Constants ==
  /\ Assets \in Nat /\ MaxRevision \in Nat /\ 1 \in 0..MaxRevision
  /\ "none" \notin Trader /\ "none" \notin Offer
BY TradingAssumption

LEMMA EmptyTerms == NoTerms \in Terms /\ DOMAIN NoTerms = {} /\ \A p, q : Between(NoTerms, p, q)
<1>1. DOMAIN NoTerms = {} /\ NoTerms = [i \in {} |-> <<>>]
  BY DEF NoTerms
<1>2. NoTerms \in [{} -> Looks]
  BY <1>1
<1>3. {} \in SUBSET Asset
  OBVIOUS
<1>. QED
  BY <1>1, <1>2, <1>3 DEF Terms, Between

LEMMA InitTrading == TradingInit => TradingIInv
<1> SUFFICES ASSUME TradingInit PROVE TradingIInv
  OBVIOUS
<1>1. InventoryTypes /\ Unborn
  BY Constants DEF TradingInit, InventoryTypes, Unborn, ItemRow, GrantRow, Someone, NoItem, NoGrant
<1>2. GrantsFollow
  BY DEF TradingInit, GrantsFollow, NoItem
<1>3. \A p, d : Keys(p, d) = {} /\ {i \in Owned(p) : Is(i, "case") /\ item[i].definition = d} = {}
  BY DEF TradingInit, Keys, Owned, NoItem
<1>4. KeysMatchCases
  BY <1>3 DEF KeysMatchCases
<1>5. TradeTypes
  BY Constants, EmptyTerms
     DEF TradingInit, TradeTypes, OfferRow, RequestRow, Someone, NoOffer, Unsent
<1>6. OfferShape /\ RequestShape
  BY DEF TradingInit, OfferShape, RequestShape, NoOffer, Unsent
<1>. QED
  BY <1>1, <1>2, <1>4, <1>5, <1>6 DEF TradingIInv, Inventory, Trades

-----------------------------------------------------------------------------
(* Counting keys and cases.                                                *)

LEMMA CaseSet ==
  /\ KeysMatchCases <=> \A p \in Trader, d \in Definition : Cardinality(Keys(p, d)) = Cardinality(Cases(p, d))
  /\ KeysMatchCases' <=> \A p \in Trader, d \in Definition : Cardinality(Keys(p, d)') = Cardinality(Cases(p, d)')
BY DEF KeysMatchCases, Cases

LEMMA KeysAreFinite ==
  ASSUME NEW p, NEW d
  PROVE  IsFiniteSet(Keys(p, d)) /\ IsFiniteSet(Cases(p, d))
<1>1. IsFiniteSet(Asset)
  BY Constants, FS_Interval DEF Asset
<1>2. Keys(p, d) \subseteq Asset /\ Cases(p, d) \subseteq Asset
  BY DEF Keys, Cases, Owned
<1>. QED
  BY <1>1, <1>2, FS_Subset

-----------------------------------------------------------------------------
(* Drops, openings, contracts and names.                                   *)

LEMMA NewItemIs ==
  ASSUME NEW p \in Trader, NEW kind \in {"case", "key", "package", "skin", "souvenir"},
         NEW d \in Definition \cup {"none"}
  PROVE  /\ NewItem(p, kind, d) \in ItemRow
         /\ NewItem(p, kind, d) = [kind |-> kind, definition |-> d, owner |-> p, active |-> TRUE,
                                   turn |-> 0, name |-> 0]
BY DEF NewItem, ItemRow, Someone

LEMMA DropRewardKeeps ==
  ASSUME TradingIInv, NEW p \in Trader, DropReward(p)
  PROVE  Inventory'
<1>. USE Constants DEF Asset
<1>0. InventoryTypes /\ Unborn /\ GrantsFollow /\ KeysMatchCases /\ nextId \in Nat /\ nextId \in Asset
  BY DEF TradingIInv, Inventory, DropReward, InventoryTypes
<1>1. /\ grant' = [grant EXCEPT ![nextId] = [owner |-> p, used |-> FALSE]]
      /\ item[nextId] = NoItem /\ grant[nextId] = NoGrant
  BY <1>0 DEF DropReward, Unborn
<1>2. /\ grant' \in [Asset -> GrantRow] /\ grant'[nextId] = [owner |-> p, used |-> FALSE]
      /\ \A i \in Asset \ {nextId} : grant'[i] = grant[i]
  <2>1. [owner |-> p, used |-> FALSE] \in GrantRow
    BY DEF GrantRow, Someone
  <2>. QED
    BY <1>0, <1>1, <2>1 DEF InventoryTypes
<1>3. ASSUME NEW d \in Definition, nextId < Assets, nextId' = nextId + 2,
             item' = [item EXCEPT ![nextId] = NewItem(p, "case", d), ![nextId + 1] = NewItem(p, "key", d)]
      PROVE  Inventory'
  <2>. DEFINE n == nextId  k == nextId + 1
  <2>1. k \in Asset /\ k # n /\ item[k] = NoItem
    BY <1>0, <1>3 DEF Unborn
  <2>2. /\ item' \in [Asset -> ItemRow]
        /\ item'[n] = [kind |-> "case", definition |-> d, owner |-> p, active |-> TRUE,
                       turn |-> 0, name |-> 0]
        /\ item'[k] = [kind |-> "key", definition |-> d, owner |-> p, active |-> TRUE,
                       turn |-> 0, name |-> 0]
        /\ \A i \in Asset \ {n, k} : item'[i] = item[i]
    BY <1>0, <1>3, <2>1, NewItemIs DEF InventoryTypes
  <2>3. InventoryTypes'
    <3>1. nextId' \in 1..(Assets + 1)
      BY <1>0, <1>3
    <3>. QED
      BY <1>2, <2>2, <3>1 DEF InventoryTypes
  <2>4. Unborn'
    BY <1>0, <1>2, <1>3, <2>2 DEF Unborn
  <2>5. GrantsFollow'
    <3>. SUFFICES ASSUME NEW i \in Asset, Opens(i)', item'[i].active
                  PROVE  grant'[i] = [owner |-> item'[i].owner, used |-> FALSE]
      BY DEF GrantsFollow
    <3>1. CASE i = n
      BY <1>2, <2>2, <3>1
    <3>2. CASE i = k
      BY <2>2, <3>2 DEF Opens
    <3>3. CASE i \in Asset \ {n, k}
      BY <1>0, <1>2, <2>2, <3>3 DEF GrantsFollow, Opens
    <3>. QED
      BY <3>1, <3>2, <3>3
  <2>6. ASSUME NEW q \in Trader, NEW e \in Definition
        PROVE  Cardinality(Keys(q, e)') = Cardinality(Cases(q, e)')
    <3>0. n \notin Keys(q, e) /\ n \notin Cases(q, e) /\ k \notin Keys(q, e) /\ k \notin Cases(q, e)
      BY <1>1, <2>1 DEF Keys, Cases, Owned, NoItem
    <3>1. Cardinality(Keys(q, e)) = Cardinality(Cases(q, e))
      BY <1>0, CaseSet
    <3>2. CASE q = p /\ e = d
      <4>1. Keys(q, e)' = Keys(q, e) \cup {k} /\ Cases(q, e)' = Cases(q, e) \cup {n}
        BY <1>0, <2>1, <2>2, <3>0, <3>2 DEF Keys, Cases, Owned, Is
      <4>2. /\ Cardinality(Keys(q, e) \cup {k}) = Cardinality(Keys(q, e)) + 1
            /\ Cardinality(Cases(q, e) \cup {n}) = Cardinality(Cases(q, e)) + 1
        BY <3>0, KeysAreFinite, FS_AddElement
      <4>. QED
        BY <3>1, <4>1, <4>2
    <3>3. CASE ~(q = p /\ e = d)
      <4>1. Keys(q, e)' = Keys(q, e) /\ Cases(q, e)' = Cases(q, e)
        BY <1>0, <2>1, <2>2, <3>0, <3>3 DEF Keys, Cases, Owned, Is
      <4>. QED
        BY <3>1, <4>1
    <3>. QED
      BY <3>2, <3>3
  <2>. QED
    BY <2>3, <2>4, <2>5, <2>6, CaseSet DEF Inventory
<1>4. ASSUME nextId <= Assets, nextId' = nextId + 1,
             item' = [item EXCEPT ![nextId] = NewItem(p, "package", "none")]
      PROVE  Inventory'
  <2>. DEFINE n == nextId
  <2>2. /\ item' \in [Asset -> ItemRow]
        /\ item'[n] = [kind |-> "package", definition |-> "none", owner |-> p, active |-> TRUE,
                       turn |-> 0, name |-> 0]
        /\ \A i \in Asset \ {n} : item'[i] = item[i]
    BY <1>0, <1>4, NewItemIs DEF InventoryTypes
  <2>3. InventoryTypes'
    BY <1>0, <1>2, <1>4, <2>2 DEF InventoryTypes
  <2>4. Unborn'
    BY <1>0, <1>2, <1>4, <2>2 DEF Unborn
  <2>5. GrantsFollow'
    <3>. SUFFICES ASSUME NEW i \in Asset, Opens(i)', item'[i].active
                  PROVE  grant'[i] = [owner |-> item'[i].owner, used |-> FALSE]
      BY DEF GrantsFollow
    <3>1. CASE i = n
      BY <1>2, <2>2, <3>1
    <3>2. CASE i \in Asset \ {n}
      BY <1>0, <1>2, <2>2, <3>2 DEF GrantsFollow, Opens
    <3>. QED
      BY <3>1, <3>2
  <2>6. \A q \in Trader, e \in Definition : Keys(q, e)' = Keys(q, e) /\ Cases(q, e)' = Cases(q, e)
    BY <1>0, <1>1, <2>2 DEF Keys, Cases, Owned, Is, NoItem
  <2>. QED
    BY <1>0, <2>3, <2>4, <2>5, <2>6, CaseSet DEF Inventory
<1>. QED
  BY <1>3, <1>4 DEF DropReward

\* What is spent is inactive, and what is made of it is neither a key nor a case.
LEMMA ExchangeMakes ==
  ASSUME TradingIInv, NEW p \in Trader, NEW spent \in SUBSET Owned(p), NEW kind \in {"skin", "souvenir"},
         Exchange(p, spent, kind)
  PROVE  /\ nextId \in Asset /\ nextId' = nextId + 1 /\ item' \in [Asset -> ItemRow]
         /\ nextId' \in 1..(Assets + 1)
         /\ item[nextId] = NoItem /\ item'[nextId].kind = kind
         /\ \A i \in Asset : i > nextId => item'[i] = NoItem
         /\ \A i \in Asset \ {nextId} :
              /\ item'[i].kind = item[i].kind /\ item'[i].definition = item[i].definition
              /\ item'[i].owner = item[i].owner
              /\ item'[i].active <=> (item[i].active /\ i \notin spent)
         /\ \A q \in Trader, d \in Definition : /\ Keys(q, d)' = Keys(q, d) \ spent
                                                /\ Cases(q, d)' = Cases(q, d) \ spent
<1>. USE Constants DEF Asset
<1>0. InventoryTypes /\ Unborn
  BY DEF TradingIInv, Inventory
<1>. DEFINE n == nextId  new == NewItem(p, kind, "none")
            used(i) == [item[i] EXCEPT !.active = FALSE, !.turn = 0, !.name = 0]
<1>1. /\ n \in Asset /\ nextId' = n + 1 /\ item' = [Consumed(spent) EXCEPT ![n] = new]
      /\ item[n] = NoItem
  BY <1>0 DEF Exchange, InventoryTypes, Unborn
<1>2. /\ new \in ItemRow /\ new.kind = kind
  BY NewItemIs
<1>3. \A i \in Asset : /\ used(i) \in ItemRow /\ ~used(i).active
                       /\ used(i).kind = item[i].kind /\ used(i).definition = item[i].definition
                       /\ used(i).owner = item[i].owner
  BY <1>0 DEF InventoryTypes, ItemRow
<1>. HIDE DEF new
<1>4. /\ item'[n] = new
      /\ \A i \in Asset \ {n} : item'[i] = IF i \in spent THEN used(i) ELSE item[i]
  BY <1>0, <1>1 DEF Consumed
<1>5. item' \in [Asset -> ItemRow]
  <2>1. Consumed(spent) \in [Asset -> ItemRow]
    BY <1>0, <1>3 DEF Consumed, InventoryTypes
  <2>. QED
    BY <1>1, <1>2, <2>1
<1>. HIDE DEF used
<1>6. \A i \in Asset \ {n} :
        /\ item'[i].kind = item[i].kind /\ item'[i].definition = item[i].definition
        /\ item'[i].owner = item[i].owner
        /\ item'[i].active <=> (item[i].active /\ i \notin spent)
  BY <1>3, <1>4
<1>7. \A i \in Asset : i > n => item[i] = NoItem /\ i \notin spent
  BY <1>0, <1>1 DEF Unborn, NoItem, Owned
<1>8. ASSUME NEW q \in Trader, NEW d \in Definition
      PROVE  Keys(q, d)' = Keys(q, d) \ spent /\ Cases(q, d)' = Cases(q, d) \ spent
  <2>1. n \notin Keys(q, d) /\ n \notin Cases(q, d)
    BY <1>1 DEF Keys, Cases, Owned, NoItem
  <2>2. n \notin Keys(q, d)' /\ n \notin Cases(q, d)'
    BY <1>2, <1>4 DEF Keys, Cases, Is
  <2>. QED
    BY <1>6, <2>1, <2>2 DEF Keys, Cases, Owned, Is
<1>9. n' \in 1..(Assets + 1)
  BY <1>1
<1>. QED
  BY <1>1, <1>2, <1>4, <1>5, <1>6, <1>7, <1>8, <1>9

LEMMA OpenCaseKeeps ==
  ASSUME TradingIInv, NEW p \in Trader, NEW c \in Asset, OpenCase(p, c)
  PROVE  Inventory'
<1>0. /\ InventoryTypes /\ Unborn /\ GrantsFollow /\ KeysMatchCases
      /\ c \in Owned(p) /\ grant' = [grant EXCEPT ![c].used = TRUE]
  BY DEF TradingIInv, Inventory, OpenCase
<1>1. PICK spent \in SUBSET Owned(p), kind \in {"skin", "souvenir"} :
        /\ Exchange(p, spent, kind) /\ c \in spent
        /\ \/ Is(c, "package") /\ spent = {c}
           \/ Is(c, "case") /\ \E k \in Keys(p, item[c].definition) : spent = {c, k}
  <2>1. \A d : Keys(p, d) \subseteq Owned(p)
    BY DEF Keys
  <2>2. CASE Is(c, "package") /\ Exchange(p, {c}, "souvenir")
    BY <1>0, <2>2
  <2>3. ASSUME NEW k \in Keys(p, item[c].definition), Is(c, "case"), Exchange(p, {c, k}, "skin")
        PROVE  \E spent \in SUBSET Owned(p), kind \in {"skin", "souvenir"} :
                 /\ Exchange(p, spent, kind) /\ c \in spent
                 /\ Is(c, "case") /\ spent = {c, k}
    <3>1. {c, k} \in SUBSET Owned(p)
      BY <1>0, <2>1
    <3>. QED
      BY <2>3, <3>1
  <2>. QED
    BY <2>2, <2>3 DEF OpenCase
<1>2. /\ nextId \in Asset /\ nextId' = nextId + 1 /\ item' \in [Asset -> ItemRow]
      /\ nextId' \in 1..(Assets + 1)
      /\ item[nextId] = NoItem /\ item'[nextId].kind = kind
      /\ \A i \in Asset : i > nextId => item'[i] = NoItem
      /\ \A i \in Asset \ {nextId} :
           /\ item'[i].kind = item[i].kind /\ item'[i].definition = item[i].definition
           /\ item'[i].owner = item[i].owner
           /\ item'[i].active <=> (item[i].active /\ i \notin spent)
      /\ \A q \in Trader, d \in Definition : /\ Keys(q, d)' = Keys(q, d) \ spent
                                             /\ Cases(q, d)' = Cases(q, d) \ spent
  BY <1>1, ExchangeMakes
<1>3. /\ grant' \in [Asset -> GrantRow] /\ \A i \in Asset \ {c} : grant'[i] = grant[i]
      /\ c < nextId
  <2>1. [grant[c] EXCEPT !.used = TRUE] \in GrantRow
    BY <1>0 DEF InventoryTypes, GrantRow
  <2>2. c < nextId
    BY <1>0, Constants DEF Unborn, Owned, NoItem, InventoryTypes, Asset
  <2>. QED
    BY <1>0, <2>1, <2>2 DEF InventoryTypes
<1>4. InventoryTypes'
  BY <1>2, <1>3 DEF InventoryTypes
<1>5. Unborn'
  BY <1>0, <1>2, <1>3, Constants DEF Unborn, Asset
<1>6. GrantsFollow'
  <2>1. \A i \in Asset : Opens(i)' /\ item'[i].active =>
          i # c /\ Opens(i) /\ item[i].active /\ item'[i].owner = item[i].owner
    BY <1>1, <1>2 DEF Opens
  <2>. QED
    BY <1>0, <1>3, <2>1 DEF GrantsFollow
<1>7. ASSUME NEW q \in Trader, NEW d \in Definition
      PROVE  Cardinality(Keys(q, d)') = Cardinality(Cases(q, d)')
  <2>1. Cardinality(Keys(q, d)) = Cardinality(Cases(q, d))
    BY <1>0, CaseSet
  <2>2. CASE q = p /\ Is(c, "case") /\ item[c].definition = d
    <3>1. PICK k \in Keys(q, d) : spent = {c, k}
      BY <1>1, <2>2 DEF Is
    <3>2. /\ k \notin Cases(q, d) /\ c \notin Keys(q, d) /\ c \in Cases(q, d)
      BY <1>0, <2>2 DEF Keys, Cases, Is
    <3>3. Keys(q, d)' = Keys(q, d) \ {k} /\ Cases(q, d)' = Cases(q, d) \ {c}
      BY <1>2, <3>1, <3>2
    <3>4. /\ Cardinality(Keys(q, d) \ {k}) = Cardinality(Keys(q, d)) - 1
          /\ Cardinality(Cases(q, d) \ {c}) = Cardinality(Cases(q, d)) - 1
      BY <3>2, KeysAreFinite, FS_RemoveElement
    <3>. QED
      BY <2>1, <3>3, <3>4
  <2>3. CASE ~(q = p /\ Is(c, "case") /\ item[c].definition = d)
    <3>1. spent \cap Keys(q, d) = {} /\ spent \cap Cases(q, d) = {}
      <4>1. CASE Is(c, "package") /\ spent = {c}
        BY <4>1 DEF Keys, Cases, Is
      <4>2. ASSUME NEW k \in Keys(p, item[c].definition), Is(c, "case"), spent = {c, k}
            PROVE  spent \cap Keys(q, d) = {} /\ spent \cap Cases(q, d) = {}
        <5>1. k \notin Cases(q, d) /\ c \notin Keys(q, d)
          BY <4>2 DEF Keys, Cases, Is
        <5>2. k \notin Keys(q, d) /\ c \notin Cases(q, d)
          BY <1>0, <2>3, <4>2 DEF Keys, Cases, Owned
        <5>. QED
          BY <4>2, <5>1, <5>2
      <4>. QED
        BY <1>1, <4>1, <4>2
    <3>2. Keys(q, d)' = Keys(q, d) \ spent /\ Cases(q, d)' = Cases(q, d) \ spent
      BY <1>2
    <3>3. Keys(q, d)' = Keys(q, d) /\ Cases(q, d)' = Cases(q, d)
      BY <3>1, <3>2
    <3>. QED
      BY <2>1, <3>3
  <2>. QED
    BY <2>2, <2>3
<1>. QED
  BY <1>4, <1>5, <1>6, <1>7, CaseSet DEF Inventory

LEMMA TradeUpKeeps ==
  ASSUME TradingIInv, NEW p \in Trader, TradeUp(p)
  PROVE  Inventory'
<1>0. /\ InventoryTypes /\ Unborn /\ GrantsFollow /\ KeysMatchCases /\ UNCHANGED grant
  BY DEF TradingIInv, Inventory, TradeUp
<1>1. PICK spent \in SUBSET {i \in Owned(p) : Is(i, "skin")} : Exchange(p, spent, "skin")
  BY DEF TradeUp
<1>2. spent \in SUBSET Owned(p)
  BY <1>1
<1>3. /\ nextId \in Asset /\ nextId' = nextId + 1 /\ item' \in [Asset -> ItemRow]
      /\ nextId' \in 1..(Assets + 1)
      /\ item[nextId] = NoItem /\ item'[nextId].kind = "skin"
      /\ \A i \in Asset : i > nextId => item'[i] = NoItem
      /\ \A i \in Asset \ {nextId} :
           /\ item'[i].kind = item[i].kind /\ item'[i].definition = item[i].definition
           /\ item'[i].owner = item[i].owner
           /\ item'[i].active <=> (item[i].active /\ i \notin spent)
      /\ \A q \in Trader, d \in Definition : /\ Keys(q, d)' = Keys(q, d) \ spent
                                             /\ Cases(q, d)' = Cases(q, d) \ spent
  BY <1>1, <1>2, ExchangeMakes
<1>4. InventoryTypes'
  BY <1>0, <1>3 DEF InventoryTypes
<1>5. Unborn'
  BY <1>0, <1>3, Constants DEF Unborn, Asset
<1>6. GrantsFollow'
  BY <1>0, <1>3 DEF GrantsFollow, Opens
<1>7. \A q \in Trader, d \in Definition : Keys(q, d)' = Keys(q, d) /\ Cases(q, d)' = Cases(q, d)
  BY <1>1, <1>3 DEF Keys, Cases, Is
<1>. QED
  BY <1>0, <1>4, <1>5, <1>6, <1>7, CaseSet DEF Inventory

LEMMA RenameKeeps ==
  ASSUME TradingIInv, NEW p \in Trader, NEW i \in Asset, Rename(p, i)
  PROVE  Inventory'
<1>0. /\ InventoryTypes /\ Unborn /\ GrantsFollow /\ KeysMatchCases /\ UNCHANGED <<nextId, grant>>
      /\ item[i].active
  BY DEF TradingIInv, Inventory, Rename, Owned
<1>. DEFINE new == [item[i] EXCEPT !.name = 1]
<1>1. /\ new \in ItemRow /\ item' = [item EXCEPT ![i] = new]
      /\ new.kind = item[i].kind /\ new.definition = item[i].definition
      /\ new.owner = item[i].owner /\ new.active = item[i].active
  BY <1>0 DEF Rename, InventoryTypes, ItemRow
<1>. HIDE DEF new
<1>2. /\ item' \in [Asset -> ItemRow] /\ \A j \in Asset \ {i} : item'[j] = item[j]
      /\ \A j \in Asset : /\ item'[j].kind = item[j].kind /\ item'[j].definition = item[j].definition
                          /\ item'[j].owner = item[j].owner /\ item'[j].active = item[j].active
  BY <1>0, <1>1 DEF InventoryTypes
<1>3. Unborn'
  BY <1>0, <1>2 DEF Unborn, NoItem
<1>4. GrantsFollow'
  BY <1>0, <1>2 DEF GrantsFollow, Opens
<1>5. \A q \in Trader, d \in Definition : Keys(q, d)' = Keys(q, d) /\ Cases(q, d)' = Cases(q, d)
  BY <1>2 DEF Keys, Cases, Owned, Is
<1>. QED
  BY <1>0, <1>2, <1>3, <1>4, <1>5, CaseSet DEF Inventory, InventoryTypes

LEMMA SameInventory ==
  ASSUME TradingIInv, UNCHANGED <<item, nextId, grant>>
  PROVE  Inventory'
<1>1. \A q \in Trader, d \in Definition : Keys(q, d)' = Keys(q, d) /\ Cases(q, d)' = Cases(q, d)
  BY DEF Keys, Cases, Owned, Is
<1>. QED
  BY <1>1, CaseSet DEF TradingIInv, Inventory, InventoryTypes, Unborn, GrantsFollow, Opens

-----------------------------------------------------------------------------
(* Requests and offers.                                                    *)

LEMMA ReviewedTerms ==
  ASSUME TradingIInv, NEW p \in Trader, NEW q \in Trader, NEW is \in Reviewed(p, q)
  PROVE  TermsOf(is) \in Terms /\ Between(TermsOf(is), p, q) /\ Between(TermsOf(is), q, p)
<1>0. item \in [Asset -> ItemRow]
  BY DEF TradingIInv, Inventory, InventoryTypes
<1>1. is \subseteq Asset /\ \A i \in is : item[i].owner \in {p, q}
  BY DEF Reviewed, Owned
<1>2. \A i \in is : Look(i) \in Looks /\ Look(i)[1] = item[i].owner
  BY <1>0, <1>1 DEF Look, Looks, ItemRow
<1>3. TermsOf(is) = [i \in is |-> Look(i)]
  BY DEF TermsOf
<1>. HIDE DEF Look, TermsOf, Looks
<1>4. TermsOf(is) \in [is -> Looks]
  BY <1>2, <1>3
<1>. QED
  BY <1>1, <1>2, <1>3, <1>4 DEF Terms, Between

\* A request is written or forgotten.
LEMMA RequestKeeps ==
  ASSUME TradingIInv, NEW r \in Request, NEW row \in RequestRow,
         request' = [request EXCEPT ![r] = row], UNCHANGED <<item, nextId, grant, offer>>,
         answered' \subseteq Request,
         row.action \in {"create", "counter"} =>
           /\ row.actor \in Trader /\ row.other \in Trader /\ row.actor # row.other
           /\ Between(row.terms, row.actor, row.other),
         \A o \in Offer : row.offer = o /\ offer[o].status = "pending" =>
           /\ row.revision = offer[o].revision
           /\ row.action = "accept" =>
                row.terms = offer[o].terms /\ row.actor = offer[o].to /\ row.other = offer[o].from
  PROVE  TradingIInv'
<1>0. TradeTypes /\ OfferShape /\ RequestShape
  BY DEF TradingIInv, Trades
<1>1. /\ request' \in [Request -> RequestRow] /\ request'[r] = row
      /\ \A s \in Request \ {r} : request'[s] = request[s]
  BY <1>0 DEF TradeTypes
<1>2. TradeTypes' /\ OfferShape'
  BY <1>0, <1>1 DEF TradeTypes, OfferShape
<1>3. \A o \in Offer : offer[o].revision \in Nat
  BY <1>0, Constants DEF TradeTypes, OfferRow
<1>4. RequestShape'
  BY <1>0, <1>1, <1>3 DEF RequestShape
<1>. QED
  BY <1>2, <1>4, SameInventory DEF TradingIInv, Trades

\* An offer is made, countered or closed: of a new revision nobody knows.
LEMMA OfferKeeps ==
  ASSUME TradingIInv, NEW o \in Offer, NEW row \in OfferRow,
         offer' = [offer EXCEPT ![o] = row], UNCHANGED request, answered' \subseteq Request,
         row.status = "pending" =>
           /\ row.from \in Trader /\ row.to \in Trader /\ row.from # row.to
           /\ Between(row.terms, row.from, row.to)
           /\ \A s \in Request : request[s].offer = o => request[s].revision < row.revision
  PROVE  Trades'
<1>0. TradeTypes /\ OfferShape /\ RequestShape
  BY DEF TradingIInv, Trades
<1>1. /\ offer' \in [Offer -> OfferRow] /\ offer'[o] = row
      /\ \A x \in Offer \ {o} : offer'[x] = offer[x]
  BY <1>0 DEF TradeTypes
<1>2. TradeTypes'
  BY <1>0, <1>1 DEF TradeTypes
<1>3. OfferShape'
  BY <1>0, <1>1 DEF OfferShape
<1>4. /\ \A s \in Request : request[s].revision \in Nat
      /\ row.revision \in Nat
  BY <1>0, Constants DEF TradeTypes, RequestRow, OfferRow
<1>5. RequestShape'
  BY <1>0, <1>1, <1>4 DEF RequestShape
<1>. QED
  BY <1>2, <1>3, <1>5 DEF Trades

LEMMA CloseKeeps ==
  ASSUME TradingIInv, NEW o \in Offer, Close(o), UNCHANGED request, answered' \subseteq Request
  PROVE  Trades'
<1>. DEFINE row == [NoOffer EXCEPT !.status = "closed"]
<1>1. row \in OfferRow /\ row.status # "pending"
  BY EmptyTerms, Constants DEF NoOffer, OfferRow, Someone
<1>2. offer' = [offer EXCEPT ![o] = row]
  BY DEF Close
<1>. HIDE DEF row
<1>. QED
  BY <1>1, <1>2, OfferKeeps

LEMMA AskCreateKeeps ==
  ASSUME TradingIInv, NEW r \in Request, NEW p \in Trader, NEW q \in Trader, AskCreate(r, p, q)
  PROVE  TradingIInv'
<1>1. PICK is \in Reviewed(p, q) :
        request' = [request EXCEPT ![r] = [action |-> "create", actor |-> p, other |-> q, offer |-> "none",
                                           revision |-> 0, terms |-> TermsOf(is)]]
  BY DEF AskCreate
<1>. DEFINE row == [action |-> "create", actor |-> p, other |-> q, offer |-> "none",
                    revision |-> 0, terms |-> TermsOf(is)]
<1>2. TermsOf(is) \in Terms /\ Between(TermsOf(is), p, q)
  BY ReviewedTerms
<1>3. request' = [request EXCEPT ![r] = row]
  BY <1>1
<1>4. /\ row \in RequestRow /\ row.action = "create" /\ row.actor = p /\ row.other = q
      /\ row.terms = TermsOf(is) /\ row.offer \notin Offer
  BY <1>2, Constants DEF RequestRow, Someone
<1>5. /\ UNCHANGED <<item, nextId, grant, offer>> /\ answered' \subseteq Request /\ p # q
  BY DEF AskCreate, TradingIInv, Trades, TradeTypes
<1>. HIDE DEF row
<1>. QED
  BY <1>2, <1>3, <1>4, <1>5, RequestKeeps

LEMMA AskKeeps ==
  ASSUME TradingIInv, NEW r \in Request, NEW o \in Offer, NEW p, NEW terms \in Terms,
         NEW action \in {"counter", "accept", "decline", "cancel"}, Ask(r, p, o, action, terms),
         p = IF action = "cancel" THEN offer[o].from ELSE offer[o].to,
         action = "counter" => Between(terms, offer[o].to, offer[o].from),
         action = "accept" => terms = offer[o].terms
  PROVE  TradingIInv'
<1>. DEFINE other == IF p = offer[o].from THEN offer[o].to ELSE offer[o].from
            row == [action |-> action, actor |-> p, other |-> other, offer |-> o,
                    revision |-> offer[o].revision, terms |-> terms]
<1>0. /\ offer[o].status = "pending" /\ UNCHANGED <<item, nextId, grant, offer>> /\ answered' \subseteq Request
      /\ request' = [request EXCEPT ![r] = row]
  BY DEF Ask, TradingIInv, Trades, TradeTypes
<1>1. /\ offer[o].from \in Trader /\ offer[o].to \in Trader /\ offer[o].from # offer[o].to
      /\ offer[o].revision \in 0..MaxRevision
  BY <1>0 DEF TradingIInv, Trades, TradeTypes, OfferRow, OfferShape
<1>2. p \in Trader /\ other \in Trader /\ p # other /\ (action # "cancel" => p = offer[o].to /\ other = offer[o].from)
  BY <1>1
<1>. HIDE DEF other
<1>3. /\ row \in RequestRow /\ row.action = action /\ row.actor = p /\ row.other = other
      /\ row.terms = terms /\ row.offer = o /\ row.revision = offer[o].revision
  BY <1>1, <1>2 DEF RequestRow, Someone
<1>. HIDE DEF row
<1>4. /\ row.action \in {"create", "counter"} =>
           /\ row.actor \in Trader /\ row.other \in Trader /\ row.actor # row.other
           /\ Between(row.terms, row.actor, row.other)
  BY <1>2, <1>3
<1>5. \A x \in Offer : row.offer = x /\ offer[x].status = "pending" =>
           /\ row.revision = offer[x].revision
           /\ row.action = "accept" =>
                row.terms = offer[x].terms /\ row.actor = offer[x].to /\ row.other = offer[x].from
  BY <1>2, <1>3
<1>. QED
  BY <1>0, <1>3, <1>4, <1>5, RequestKeeps

LEMMA AnswersKeep ==
  ASSUME TradingIInv, NEW r \in Request, NEW o \in Offer,
         NEW action \in {"accept", "decline", "cancel"}, AskAnswer(r, o, action)
  PROVE  TradingIInv'
<1>1. offer[o].terms \in Terms /\ NoTerms \in Terms
  BY EmptyTerms DEF TradingIInv, Trades, TradeTypes, OfferRow
<1>2. CASE action = "accept" /\ Ask(r, offer[o].to, o, action, offer[o].terms)
  BY <1>1, <1>2, AskKeeps
<1>3. CASE action = "decline" /\ Ask(r, offer[o].to, o, action, NoTerms)
  BY <1>1, <1>3, AskKeeps
<1>4. CASE action = "cancel" /\ Ask(r, offer[o].from, o, action, NoTerms)
  BY <1>1, <1>4, AskKeeps
<1>. QED
  BY <1>2, <1>3, <1>4 DEF AskAnswer

LEMMA AskCounterKeeps ==
  ASSUME TradingIInv, NEW r \in Request, NEW o \in Offer, AskCounter(r, o)
  PROVE  TradingIInv'
<1>1. PICK is \in Reviewed(offer[o].to, offer[o].from) : Ask(r, offer[o].to, o, "counter", TermsOf(is))
  BY DEF AskCounter
<1>2. offer[o].from \in Trader /\ offer[o].to \in Trader
  BY <1>1 DEF Ask, TradingIInv, Trades, OfferShape
<1>3. TermsOf(is) \in Terms /\ Between(TermsOf(is), offer[o].to, offer[o].from)
  BY <1>2, ReviewedTerms
<1>. QED
  BY <1>1, <1>3, AskKeeps

LEMMA ForgetKeeps ==
  ASSUME TradingIInv, NEW r \in Request, Forget(r)
  PROVE  TradingIInv'
<1>1. /\ Unsent \in RequestRow /\ Unsent.action = "none" /\ Unsent.offer \notin Offer
  BY EmptyTerms, Constants DEF Unsent, RequestRow, Someone
<1>2. answered' \subseteq Request
  BY DEF Forget, TradingIInv, Trades, TradeTypes
<1>. QED
  BY <1>1, <1>2, RequestKeeps DEF Forget

-----------------------------------------------------------------------------
(* The work on requests.                                                   *)

LEMMA CreateKeeps ==
  ASSUME TradingIInv, NEW r \in Request, NEW o \in Offer, Create(r, o)
  PROVE  TradingIInv'
<1>. DEFINE q == request[r]
            row == [status |-> "pending", from |-> q.actor, to |-> q.other, revision |-> 1, terms |-> q.terms]
<1>1. /\ q.action = "create" /\ \A s \in Request : request[s].offer # o
      /\ offer' = [offer EXCEPT ![o] = row] /\ UNCHANGED <<item, grant, nextId, request>>
      /\ answered' \subseteq Request
  BY DEF Create, Mutate, TradingIInv, Trades, TradeTypes
<1>2. /\ q \in RequestRow /\ q.actor \in Trader /\ q.other \in Trader /\ q.actor # q.other
      /\ Between(q.terms, q.actor, q.other)
  BY <1>1 DEF TradingIInv, Trades, TradeTypes, RequestShape
<1>3. /\ row \in OfferRow /\ row.from = q.actor /\ row.to = q.other /\ row.terms = q.terms
  BY <1>2, Constants DEF RequestRow, OfferRow
<1>. HIDE DEF row
<1>4. Trades'
  BY <1>1, <1>2, <1>3, OfferKeeps
<1>. QED
  BY <1>1, <1>4, SameInventory DEF TradingIInv

LEMMA CounterKeeps ==
  ASSUME TradingIInv, NEW r \in Request, Counter(r)
  PROVE  TradingIInv'
<1>. DEFINE q == request[r]  o == q.offer
            row == [status |-> "pending", from |-> q.actor, to |-> q.other,
                    revision |-> q.revision + 1, terms |-> q.terms]
<1>0. TradeTypes /\ RequestShape /\ q \in RequestRow
  BY DEF TradingIInv, Trades, TradeTypes
<1>1. /\ q.action = "counter" /\ o # "none" /\ offer[o].status = "pending"
      /\ offer[o].revision = q.revision /\ offer[o].revision < MaxRevision
      /\ offer' = [offer EXCEPT ![o] = row] /\ UNCHANGED <<item, grant, nextId, request>>
      /\ answered' \subseteq Request
  BY <1>0 DEF Counter, Pending, Mutate, TradeTypes
<1>2. /\ o \in Offer /\ q.revision \in 0..MaxRevision /\ q.terms \in Terms
  BY <1>0, <1>1 DEF RequestRow
<1>3. /\ q.actor \in Trader /\ q.other \in Trader /\ q.actor # q.other
      /\ Between(q.terms, q.actor, q.other)
  BY <1>0, <1>1 DEF RequestShape
<1>4. /\ row \in OfferRow /\ row.from = q.actor /\ row.to = q.other /\ row.terms = q.terms
      /\ row.revision = q.revision + 1
  BY <1>1, <1>2, <1>3, Constants DEF OfferRow, Someone
<1>5. \A s \in Request : request[s].offer = o => request[s].revision < q.revision + 1
  <2>. SUFFICES ASSUME NEW s \in Request, request[s].offer = o
                PROVE  request[s].revision < q.revision + 1
    OBVIOUS
  <2>1. request[s].revision <= offer[o].revision
    BY <1>0, <1>1, <1>2 DEF RequestShape
  <2>2. request[s].revision \in Nat
    BY <1>0, Constants DEF TradeTypes, RequestRow
  <2>. QED
    BY <1>1, <1>2, <2>1, <2>2, Constants
<1>. HIDE DEF row
<1>6. Trades'
  BY <1>1, <1>2, <1>3, <1>4, <1>5, OfferKeeps
<1>. QED
  BY <1>1, <1>6, SameInventory DEF TradingIInv

LEMMA UnavailableKeeps ==
  ASSUME TradingIInv, NEW r \in Request, Unavailable(r)
  PROVE  TradingIInv'
<1>1. /\ UNCHANGED <<item, grant, nextId, request>> /\ answered' \subseteq Request
      /\ request[r].offer \in Offer
  BY DEF Unavailable, Mutate, TradingIInv, Trades, TradeTypes, RequestRow
<1>2. ASSUME Close(request[r].offer) PROVE Trades'
  BY <1>1, <1>2, CloseKeeps
<1>3. ASSUME UNCHANGED offer PROVE Trades'
  BY <1>1, <1>3 DEF TradingIInv, Trades, TradeTypes, OfferShape, RequestShape
<1>4. Trades'
  BY <1>2, <1>3 DEF Unavailable
<1>. QED
  BY <1>1, <1>4, SameInventory DEF TradingIInv

LEMMA RefuseKeeps ==
  ASSUME TradingIInv, NEW r \in Request, NEW action, Refuse(r, action)
  PROVE  TradingIInv'
<1>1. /\ UNCHANGED <<item, grant, nextId, request>> /\ answered' \subseteq Request
      /\ request[r].offer \in Offer
  BY DEF Refuse, Mutate, Pending, TradingIInv, Trades, TradeTypes, RequestRow
<1>. QED
  BY <1>1, CloseKeeps, SameInventory DEF TradingIInv, Refuse

LEMMA ExpireKeeps ==
  ASSUME TradingIInv, NEW o \in Offer, Expire(o)
  PROVE  TradingIInv'
<1>1. answered' \subseteq Request
  BY DEF Expire, TradingIInv, Trades, TradeTypes
<1>. QED
  BY <1>1, CloseKeeps, SameInventory DEF TradingIInv, Expire

-----------------------------------------------------------------------------
(* A trade.                                                                *)

LEMMA TransferMoves ==
  ASSUME TradingIInv, NEW o \in Offer, offer[o].status = "pending", Acceptable(offer[o].terms),
         NEW keys \in Companions(DOMAIN offer[o].terms), Transfer(o, DOMAIN offer[o].terms, keys)
  PROVE  LET is == DOMAIN offer[o].terms  f == offer[o].from  t == offer[o].to IN
         /\ f \in Trader /\ t \in Trader /\ f # t
         /\ \A i \in is : /\ i \in Asset /\ item[i].active /\ item[i].kind # "key"
                          /\ item[i].owner \in {f, t} /\ offer[o].terms[i] = Look(i)
         /\ \A k \in keys : /\ k \in Asset /\ item[k].active /\ item[k].kind = "key"
                            /\ item[k].owner \in {f, t}
                            /\ \E c \in is : /\ Is(c, "case") /\ item[c].owner = item[k].owner
                                             /\ item[c].definition = item[k].definition
         /\ item' \in [Asset -> ItemRow]
         /\ \A i \in Asset :
              /\ item'[i].kind = item[i].kind /\ item'[i].definition = item[i].definition
              /\ item'[i].active = item[i].active
              /\ item'[i].owner = IF i \in is \cup keys THEN Recipient(o, i) ELSE item[i].owner
              /\ i \notin is \cup keys => item'[i] = item[i]
<1>. DEFINE is == DOMAIN offer[o].terms  f == offer[o].from  t == offer[o].to
            moved(i) == [item[i] EXCEPT !.owner = Recipient(o, i), !.turn = item[i].turn + 1]
<1>0. /\ item \in [Asset -> ItemRow] /\ offer[o].terms \in Terms
      /\ f \in Trader /\ t \in Trader /\ f # t /\ Between(offer[o].terms, f, t)
  BY DEF TradingIInv, Inventory, InventoryTypes, Trades, TradeTypes, OfferRow, OfferShape
<1>1. is \subseteq Asset
  BY <1>0 DEF Terms
<1>2. \A i \in is : /\ item[i].active /\ item[i].kind # "key" /\ item[i].owner \in {f, t}
                    /\ offer[o].terms[i] = Look(i)
  BY <1>0 DEF Acceptable, Tradable, Is, Between, Look
<1>3. \A k \in keys : \E c \in is : Is(c, "case") /\ k \in Keys(item[c].owner, item[c].definition)
  BY DEF Companions
<1>4. \A k \in keys : /\ k \in Asset /\ item[k].active /\ item[k].kind = "key" /\ item[k].owner \in {f, t}
                      /\ \E c \in is : /\ Is(c, "case") /\ item[c].owner = item[k].owner
                                       /\ item[c].definition = item[k].definition
  BY <1>2, <1>3 DEF Keys, Owned, Is
<1>5. \A i \in Asset : /\ moved(i) \in ItemRow
                       /\ moved(i).kind = item[i].kind /\ moved(i).definition = item[i].definition
                       /\ moved(i).active = item[i].active /\ moved(i).owner = Recipient(o, i)
  <2>. TAKE i \in Asset
  <2>1. Recipient(o, i) \in Someone
    BY <1>0 DEF Recipient, Someone
  <2>2. PICK w \in Someone : w = Recipient(o, i)
    BY <2>1
  <2>3. PICK x \in ItemRow : x = item[i]
    BY <1>0
  <2>4. x.turn + 1 \in Nat
    BY DEF ItemRow
  <2>5. PICK n \in Nat : n = x.turn + 1
    BY <2>4
  <2>6. moved(i) = [x EXCEPT !.owner = w, !.turn = n]
    BY <2>2, <2>3, <2>5
  <2>7. /\ moved(i) \in ItemRow /\ moved(i).kind = x.kind /\ moved(i).definition = x.definition
        /\ moved(i).active = x.active /\ moved(i).owner = w
    <3>. HIDE DEF moved
    <3>. QED
      BY <2>6 DEF ItemRow
  <2>. QED
    BY <2>2, <2>3, <2>7
<1>6. item' = [i \in Asset |-> IF i \in is \cup keys THEN moved(i) ELSE item[i]]
  BY DEF Transfer
<1>. HIDE DEF moved, is
<1>7. item' \in [Asset -> ItemRow]
  BY <1>0, <1>5, <1>6
<1>8. \A i \in Asset :
        /\ item'[i].kind = item[i].kind /\ item'[i].definition = item[i].definition
        /\ item'[i].active = item[i].active
        /\ item'[i].owner = IF i \in is \cup keys THEN Recipient(o, i) ELSE item[i].owner
        /\ i \notin is \cup keys => item'[i] = item[i]
  BY <1>5, <1>6
<1>. QED
  BY <1>0, <1>1, <1>2, <1>4, <1>7, <1>8 DEF is

LEMMA TransferKeeps ==
  ASSUME TradingIInv, NEW o \in Offer, offer[o].status = "pending", Acceptable(offer[o].terms),
         NEW keys \in Companions(DOMAIN offer[o].terms), Transfer(o, DOMAIN offer[o].terms, keys),
         UNCHANGED nextId
  PROVE  Inventory'
<1>. DEFINE is == DOMAIN offer[o].terms  f == offer[o].from  t == offer[o].to
<1>0. InventoryTypes /\ Unborn /\ GrantsFollow /\ KeysMatchCases
  BY DEF TradingIInv, Inventory
<1>1. /\ f \in Trader /\ t \in Trader /\ f # t
      /\ \A i \in is : /\ i \in Asset /\ item[i].active /\ item[i].kind # "key"
                       /\ item[i].owner \in {f, t}
      /\ \A k \in keys : /\ k \in Asset /\ item[k].active /\ item[k].kind = "key"
                         /\ item[k].owner \in {f, t}
      /\ item' \in [Asset -> ItemRow]
      /\ \A i \in Asset :
           /\ item'[i].kind = item[i].kind /\ item'[i].definition = item[i].definition
           /\ item'[i].active = item[i].active
           /\ item'[i].owner = IF i \in is \cup keys THEN Recipient(o, i) ELSE item[i].owner
           /\ i \notin is \cup keys => item'[i] = item[i]
  BY TransferMoves
<1>. DEFINE given(i) == [grant[i] EXCEPT !.owner = Recipient(o, i)]
<1>2. \A i \in Asset : given(i) \in GrantRow /\ given(i) = [owner |-> Recipient(o, i), used |-> grant[i].used]
  BY <1>0, <1>1 DEF InventoryTypes, GrantRow, Recipient, Someone
<1>3. grant' = [i \in Asset |-> IF i \in is /\ Opens(i) THEN given(i) ELSE grant[i]]
  BY DEF Transfer
<1>. HIDE DEF given, is
<1>4. grant' \in [Asset -> GrantRow]
  BY <1>0, <1>2, <1>3 DEF InventoryTypes
<1>5. InventoryTypes'
  BY <1>0, <1>1, <1>4 DEF InventoryTypes
<1>6. Unborn'
  <2>1. \A i \in Asset : i >= nextId => i \notin is \cup keys
    BY <1>0, <1>1 DEF Unborn, NoItem
  <2>. QED
    BY <1>0, <1>1, <1>3, <2>1 DEF Unborn
<1>7. GrantsFollow'
  <2>. SUFFICES ASSUME NEW i \in Asset, Opens(i)', item'[i].active
                PROVE  grant'[i] = [owner |-> item'[i].owner, used |-> FALSE]
    BY DEF GrantsFollow
  <2>1. Opens(i) /\ item[i].active /\ i \notin keys
    BY <1>1 DEF Opens
  <2>2. grant[i] = [owner |-> item[i].owner, used |-> FALSE]
    BY <1>0, <2>1 DEF GrantsFollow
  <2>3. CASE i \in is
    BY <1>1, <1>2, <1>3, <2>1, <2>2, <2>3
  <2>4. CASE i \notin is
    BY <1>1, <1>3, <2>1, <2>2, <2>4
  <2>. QED
    BY <2>3, <2>4
<1>8. ASSUME NEW p \in Trader, NEW d \in Definition
      PROVE  Cardinality(Keys(p, d)') = Cardinality(Cases(p, d)')
  <2>1. \A q \in Trader : /\ Cardinality(Keys(q, d)) = Cardinality(Cases(q, d))
                          /\ Cardinality(Keys(q, d) \cap keys) = Cardinality(Cases(q, d) \cap is)
    <3>. TAKE q \in Trader
    <3>1. Cardinality(Keys(q, d)) = Cardinality(Cases(q, d))
      BY <1>0, CaseSet
    <3>2. Cardinality(keys \cap Keys(q, d)) =
            Cardinality({i \in is : Is(i, "case") /\ item[i].owner = q /\ item[i].definition = d})
      BY DEF Companions, is
    <3>3. /\ {i \in is : Is(i, "case") /\ item[i].owner = q /\ item[i].definition = d} = Cases(q, d) \cap is
          /\ keys \cap Keys(q, d) = Keys(q, d) \cap keys
      BY <1>1 DEF Cases, Owned
    <3>. QED
      BY <3>1, <3>2, <3>3
  <2>2. CASE p \notin {f, t}
    <3>1. \A i \in Asset : item'[i].owner = p <=> item[i].owner = p
      BY <1>1, <2>2 DEF Recipient
    <3>2. Keys(p, d)' = Keys(p, d) /\ Cases(p, d)' = Cases(p, d)
      BY <1>1, <3>1 DEF Keys, Cases, Owned, Is
    <3>. QED
      BY <2>1, <3>2
  <2>3. ASSUME NEW q \in Trader, {p, q} = {f, t}, p # q
        PROVE  Cardinality(Keys(p, d)') = Cardinality(Cases(p, d)')
    <3>1. \A i \in Asset : item'[i].owner = p <=>
                             IF i \in is \cup keys THEN item[i].owner = q ELSE item[i].owner = p
      BY <1>1, <2>3 DEF Recipient
    <3>2. \A i : /\ i \in Keys(p, d) \cup Keys(q, d) => i \notin is
                 /\ i \in Cases(p, d) \cup Cases(q, d) => i \notin keys
      BY <1>1 DEF Keys, Cases, Is
    <3>3. Keys(p, d)' = (Keys(p, d) \ keys) \cup (Keys(q, d) \cap keys)
      BY <1>1, <3>1, <3>2 DEF Keys, Owned, Is
    <3>4. Cases(p, d)' = (Cases(p, d) \ is) \cup (Cases(q, d) \cap is)
      BY <1>1, <3>1, <3>2 DEF Cases, Owned, Is
    <3>5. Keys(p, d) \cap Keys(q, d) = {} /\ Cases(p, d) \cap Cases(q, d) = {}
      BY <2>3 DEF Keys, Cases, Owned
    <3>6. Cardinality(Keys(p, d)') =
            Cardinality(Keys(p, d)) - Cardinality(Keys(p, d) \cap keys) + Cardinality(Keys(q, d) \cap keys)
      <4>1. IsFiniteSet(Keys(p, d)) /\ IsFiniteSet(Keys(q, d))
        BY KeysAreFinite
      <4>2. /\ IsFiniteSet(Keys(p, d) \ keys)
            /\ Cardinality(Keys(p, d) \ keys) = Cardinality(Keys(p, d)) - Cardinality(Keys(p, d) \cap keys)
        BY <4>1, FS_Difference
      <4>3. IsFiniteSet(Keys(q, d) \cap keys) /\ IsFiniteSet(Keys(p, d) \cap keys)
        BY <4>1, FS_Intersection
      <4>4. (Keys(p, d) \ keys) \cap (Keys(q, d) \cap keys) = {} /\ Cardinality({}) = 0
        BY <3>5, FS_EmptySet
      <4>5. Cardinality((Keys(p, d) \ keys) \cup (Keys(q, d) \cap keys)) =
              Cardinality(Keys(p, d) \ keys) + Cardinality(Keys(q, d) \cap keys) - 0
        BY <4>2, <4>3, <4>4, FS_Union
      <4>6. /\ Cardinality(Keys(p, d)) \in Nat /\ Cardinality(Keys(p, d) \cap keys) \in Nat
            /\ Cardinality(Keys(q, d) \cap keys) \in Nat
        BY <4>1, <4>3, FS_CardinalityType
      <4>. QED
        BY <3>3, <4>2, <4>5, <4>6
    <3>7. Cardinality(Cases(p, d)') =
            Cardinality(Cases(p, d)) - Cardinality(Cases(p, d) \cap is) + Cardinality(Cases(q, d) \cap is)
      <4>1. IsFiniteSet(Cases(p, d)) /\ IsFiniteSet(Cases(q, d))
        BY KeysAreFinite
      <4>2. /\ IsFiniteSet(Cases(p, d) \ is)
            /\ Cardinality(Cases(p, d) \ is) = Cardinality(Cases(p, d)) - Cardinality(Cases(p, d) \cap is)
        BY <4>1, FS_Difference
      <4>3. IsFiniteSet(Cases(q, d) \cap is) /\ IsFiniteSet(Cases(p, d) \cap is)
        BY <4>1, FS_Intersection
      <4>4. (Cases(p, d) \ is) \cap (Cases(q, d) \cap is) = {} /\ Cardinality({}) = 0
        BY <3>5, FS_EmptySet
      <4>5. Cardinality((Cases(p, d) \ is) \cup (Cases(q, d) \cap is)) =
              Cardinality(Cases(p, d) \ is) + Cardinality(Cases(q, d) \cap is) - 0
        BY <4>2, <4>3, <4>4, FS_Union
      <4>6. /\ Cardinality(Cases(p, d)) \in Nat /\ Cardinality(Cases(p, d) \cap is) \in Nat
            /\ Cardinality(Cases(q, d) \cap is) \in Nat
        BY <4>1, <4>3, FS_CardinalityType
      <4>. QED
        BY <3>4, <4>2, <4>5, <4>6
    <3>. QED
      BY <2>1, <3>6, <3>7
  <2>. QED
    BY <1>1, <2>2, <2>3
<1>. QED
  BY <1>5, <1>6, <1>7, <1>8, CaseSet DEF Inventory

LEMMA AcceptKeeps ==
  ASSUME TradingIInv, NEW r \in Request, Accept(r)
  PROVE  TradingIInv'
<1>. DEFINE o == request[r].offer
<1>1. /\ o \in Offer /\ offer[o].status = "pending" /\ Close(o) /\ UNCHANGED <<nextId, request>>
      /\ answered' \subseteq Request
  BY DEF Accept, Pending, Mutate, TradingIInv, Trades, TradeTypes, RequestRow
<1>2. Trades'
  BY <1>1, CloseKeeps
<1>3. ASSUME UNCHANGED <<item, grant>> PROVE Inventory'
  BY <1>1, <1>3, SameInventory
<1>4. ASSUME Acceptable(offer[o].terms), NEW keys \in Companions(DOMAIN offer[o].terms),
             Transfer(o, DOMAIN offer[o].terms, keys)
      PROVE  Inventory'
  BY <1>1, <1>4, TransferKeeps
<1>. QED
  BY <1>2, <1>3, <1>4 DEF Accept, TradingIInv

-----------------------------------------------------------------------------
LEMMA InventoryActionKeepsTrades ==
  ASSUME TradingIInv, UNCHANGED <<offer, request, answered>>
  PROVE  Trades'
BY DEF TradingIInv, Trades, TradeTypes, OfferShape, RequestShape

\* Every step keeps the invariant.
LEMMA TradingStep == TradingIInv /\ [TradingNext]_tradingVars => TradingIInv'
<1> SUFFICES ASSUME TradingIInv, [TradingNext]_tradingVars PROVE TradingIInv'
  OBVIOUS
<1>1. ASSUME NEW p \in Trader, DropReward(p) PROVE TradingIInv'
  BY <1>1, DropRewardKeeps, InventoryActionKeepsTrades DEF DropReward, TradingIInv
<1>2. ASSUME NEW p \in Trader, TradeUp(p) PROVE TradingIInv'
  BY <1>2, TradeUpKeeps, InventoryActionKeepsTrades DEF TradeUp, TradingIInv
<1>3. ASSUME NEW p \in Trader, NEW i \in Asset, OpenCase(p, i) PROVE TradingIInv'
  BY <1>3, OpenCaseKeeps, InventoryActionKeepsTrades DEF OpenCase, TradingIInv
<1>4. ASSUME NEW p \in Trader, NEW i \in Asset, Rename(p, i) PROVE TradingIInv'
  BY <1>4, RenameKeeps, InventoryActionKeepsTrades DEF Rename, TradingIInv
<1>5. ASSUME NEW p \in Trader, NEW r \in Request, NEW q \in Trader, AskCreate(r, p, q) PROVE TradingIInv'
  BY <1>5, AskCreateKeeps
<1>6. ASSUME NEW r \in Request, NEW o \in Offer, Create(r, o) \/ AskCounter(r, o) PROVE TradingIInv'
  BY <1>6, CreateKeeps, AskCounterKeeps
<1>7. ASSUME NEW r \in Request, NEW o \in Offer, NEW action \in {"accept", "decline", "cancel"},
             AskAnswer(r, o, action)
      PROVE  TradingIInv'
  BY <1>7, AnswersKeep
<1>8. ASSUME NEW r \in Request,
             Forget(r) \/ Unavailable(r) \/ Counter(r) \/ Accept(r) \/ Refuse(r, "decline") \/ Refuse(r, "cancel")
      PROVE  TradingIInv'
  BY <1>8, ForgetKeeps, UnavailableKeeps, CounterKeeps, AcceptKeeps, RefuseKeeps
<1>9. ASSUME NEW o \in Offer, Expire(o) PROVE TradingIInv'
  BY <1>9, ExpireKeeps
<1>10. CASE UNCHANGED tradingVars
  BY <1>10, SameInventory, InventoryActionKeepsTrades DEF tradingVars, TradingIInv
<1>. QED
  BY <1>1, <1>2, <1>3, <1>4, <1>5, <1>6, <1>7, <1>8, <1>9, <1>10 DEF TradingNext

\* The inductive invariant: types, ids that were not given out, the inventory, and
\* what a request to accept knows of its offer.
THEOREM TradingInvariant == TradingSpec => []TradingIInv
BY InitTrading, TradingStep, PTL DEF TradingSpec

\* Every row keeps its type: TradingTypeOK, the part of ServicesTypeOK about trading.
THEOREM TradingTypes == TradingSpec => []TradingTypeOK
<1>1. TradingIInv => TradingTypeOK
  <2>1. \A x \in Terms : DOMAIN x \subseteq Asset
    BY DEF Terms
  <2>. QED
    BY <2>1 DEF TradingIInv, Inventory, Trades, InventoryTypes, TradeTypes, TradingTypeOK, ItemRow,
                GrantRow, OfferRow, RequestRow, Someone
<1>. QED
  BY <1>1, TradingInvariant, PTL

\* Trades, openings and contracts leave every unopened case with its player's grant
\* and every player with as many keys of a kind as cases (InventoryIsConsistent).
THEOREM InventoryConsistent == TradingSpec => []InventoryIsConsistent
<1>1. TradingIInv => InventoryIsConsistent
  BY DEF TradingIInv, Inventory, InventoryIsConsistent
<1>. QED
  BY <1>1, TradingInvariant, PTL

\* Why an item of a player goes to somebody else.
LEMMA AcceptReviewed ==
  ASSUME TradingIInv, NEW r \in Request, Accept(r), NEW i \in Asset, item'[i].owner # item[i].owner
  PROVE  LET q == request[r] IN
         /\ r \in answered' \ answered
         /\ q.action = "accept" /\ {item[i].owner, item'[i].owner} = {q.actor, q.other}
         /\ \/ i \in DOMAIN q.terms /\ q.terms[i] = Look(i)
            \/ /\ Is(i, "key")
               /\ \E c \in DOMAIN q.terms : Is(c, "case") /\ item[c].definition = item[i].definition
                                          /\ item'[c].owner = item'[i].owner
<1>0. PICK o \in Offer : request[r].offer = o
  BY DEF Accept, Pending, TradingIInv, Trades, TradeTypes, RequestRow
<1>. DEFINE q == request[r]  is == DOMAIN offer[o].terms  f == offer[o].from  t == offer[o].to
<1>1. /\ r \in answered' \ answered /\ q.action = "accept"
      /\ offer[o].status = "pending" /\ offer[o].revision = q.revision
  BY <1>0 DEF Accept, Pending, Mutate
<1>2. q.terms = offer[o].terms /\ q.actor = t /\ q.other = f
  BY <1>0, <1>1 DEF TradingIInv, Trades, RequestShape
<1>3. PICK keys \in Companions(is) : Acceptable(offer[o].terms) /\ Transfer(o, is, keys)
  BY <1>0 DEF Accept
<1>4. /\ \A j \in is : j \in Asset /\ item[j].owner \in {f, t} /\ offer[o].terms[j] = Look(j)
      /\ \A k \in keys : /\ item[k].kind = "key" /\ item[k].owner \in {f, t}
                         /\ \E c \in is : /\ Is(c, "case") /\ item[c].owner = item[k].owner
                                          /\ item[c].definition = item[k].definition
      /\ \A j \in Asset : item'[j].owner = IF j \in is \cup keys THEN Recipient(o, j) ELSE item[j].owner
  BY <1>1, <1>3, TransferMoves
<1>. HIDE DEF is
<1>5. i \in is \cup keys /\ item'[i].owner = Recipient(o, i) /\ item[i].owner \in {f, t}
  BY <1>4
<1>6. {item[i].owner, item'[i].owner} = {t, f}
  BY <1>5 DEF Recipient
<1>7. CASE i \in is
  BY <1>1, <1>2, <1>4, <1>6, <1>7 DEF is
<1>8. CASE i \in keys
  <2>1. PICK c \in is : Is(c, "case") /\ item[c].owner = item[i].owner /\ item[c].definition = item[i].definition
    BY <1>4, <1>8
  <2>2. item'[c].owner = item'[i].owner /\ Is(i, "key")
    BY <1>4, <1>5, <1>8, <2>1 DEF Recipient, Is
  <2>. QED
    BY <1>1, <1>2, <1>6, <2>1, <2>2 DEF is
<1>. QED
  BY <1>5, <1>7, <1>8

\* Items change hands only by a request to accept, as its player has seen them
\* (AcceptedAsReviewed).
THEOREM AcceptedReviewed == TradingSpec => AcceptedAsReviewed
<1>. DEFINE Why(i, r) ==
       LET q == request[r] IN
         /\ q.action = "accept" /\ {item[i].owner, item'[i].owner} = {q.actor, q.other}
         /\ \/ i \in DOMAIN q.terms /\ q.terms[i] = Look(i)
            \/ /\ Is(i, "key")
               /\ \E c \in DOMAIN q.terms : Is(c, "case") /\ item[c].definition = item[i].definition
                                          /\ item'[c].owner = item'[i].owner
     Step == \A i \in Asset : item[i].owner \in Trader /\ item'[i].owner # item[i].owner =>
               \E r \in answered' \ answered : Why(i, r)
<1>1. TradingIInv /\ [TradingNext]_tradingVars => [Step]_tradingVars
  <2>. SUFFICES ASSUME TradingIInv, TradingNext, NEW i \in Asset, item[i].owner \in Trader,
                       item'[i].owner # item[i].owner
                PROVE  \E r \in answered' \ answered : Why(i, r)
    OBVIOUS
  <2>0. item \in [Asset -> ItemRow] /\ nextId \in Nat /\ Unborn /\ NoItem.owner \notin Trader
    BY Constants DEF TradingIInv, Inventory, InventoryTypes, NoItem
  <2>1. ASSUME NEW p \in Trader, DropReward(p) PROVE FALSE
    <3>1. i < nextId
      BY <2>0 DEF Unborn, Asset
    <3>. QED
      BY <2>0, <2>1, <3>1, Constants DEF DropReward, Asset
  <2>2. ASSUME NEW p \in Trader, NEW spent \in SUBSET Owned(p), NEW kind \in {"skin", "souvenir"},
               Exchange(p, spent, kind)
        PROVE  FALSE
    BY <2>0, <2>2, ExchangeMakes
  <2>3. ASSUME NEW p \in Trader, TradeUp(p) PROVE FALSE
    BY <2>2, <2>3 DEF TradeUp
  <2>4. ASSUME NEW p \in Trader, NEW c \in Asset, OpenCase(p, c) PROVE FALSE
    <3>1. \A d : Keys(p, d) \subseteq Owned(p)
      BY DEF Keys
    <3>. QED
      BY <2>2, <2>4, <3>1 DEF OpenCase
  <2>5. ASSUME NEW p \in Trader, NEW j \in Asset, Rename(p, j) PROVE FALSE
    BY <2>0, <2>5 DEF Rename, ItemRow
  <2>6. ASSUME NEW r \in Request, Accept(r) PROVE \E s \in answered' \ answered : Why(i, s)
    BY <2>6, AcceptReviewed
  <2>7. ASSUME UNCHANGED item PROVE FALSE
    BY <2>7
  <2>8. ASSUME NEW r \in Request, NEW o \in Offer, Create(r, o) PROVE UNCHANGED item
    BY <2>8 DEF Create
  <2>9. ASSUME NEW r \in Request, Counter(r) PROVE UNCHANGED item
    BY <2>9 DEF Counter
  <2>10. ASSUME NEW r \in Request, Forget(r) \/ Unavailable(r) PROVE UNCHANGED item
    BY <2>10 DEF Forget, Unavailable
  <2>11. ASSUME NEW r \in Request, Refuse(r, "decline") \/ Refuse(r, "cancel") PROVE UNCHANGED item
    BY <2>11 DEF Refuse
  <2>12. ASSUME NEW o \in Offer, Expire(o) PROVE UNCHANGED item
    BY <2>12 DEF Expire
  <2>13. ASSUME NEW r \in Request, NEW p \in Trader, NEW q \in Trader, AskCreate(r, p, q) PROVE UNCHANGED item
    BY <2>13 DEF AskCreate, Ask
  <2>14. ASSUME NEW r \in Request, NEW o \in Offer, AskCounter(r, o) PROVE UNCHANGED item
    BY <2>14 DEF AskCounter, Ask
  <2>15. ASSUME NEW r \in Request, NEW o \in Offer, NEW action \in {"accept", "decline", "cancel"}, AskAnswer(r, o, action)
         PROVE  UNCHANGED item
    BY <2>15 DEF AskAnswer, Ask
  <2>. HIDE DEF Why
  <2>. QED
    BY <2>1, <2>3, <2>4, <2>5, <2>6, <2>7, <2>8, <2>9, <2>10, <2>11, <2>12, <2>13, <2>14, <2>15 DEF TradingNext
<1>2. (TradingSpec => [][Step]_tradingVars)
  BY <1>1, TradingInvariant, PTL DEF TradingSpec
<1>. QED
  BY <1>2 DEF AcceptedAsReviewed

=============================================================================
