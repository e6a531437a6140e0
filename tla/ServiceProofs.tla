---------------------------- MODULE ServiceProofs ----------------------------
(***************************************************************************)
(* The services that MCServices puts side by side.  Parties, pointers and  *)
(* queue entries agree in every reachable state, for every set of players, *)
(* parties, invites and readers and every party size.  The object store    *)
(* and the row of a recording agree, but for the gaps that marred names,   *)
(* for every number of uploads, retention jobs and contents.  The plugin   *)
(* ends a match only for an absence that was real and awaits nobody longer *)
(* than the grace, for every roster and every length of the graces.        *)
(* Levels are rewarded once, medals come in order and no XP is lost where  *)
(* a level is crossed, for every XP a level takes and every plan of medals.*)
(***************************************************************************)
EXTENDS MCServices, DeathmatchProofs, TradingProofs, FiniteSetTheorems, WellFoundedInduction, TLAPS

-----------------------------------------------------------------------------
(* Parties.                                                                *)

\* A party id nobody has used has no members.
UnmadeIsEmpty == \A g \in Party : ~party[g].made => party[g].members = {}

PartiesIInv ==
  /\ PartiesTypeOK /\ UnmadeIsEmpty
  /\ LedByAMember /\ PointersAgree /\ PointersLead /\ ListedOnce /\ QueuedTogether

\* What the type invariant says of one party and one pointer.
LEMMA PartyTypes ==
  ASSUME PartiesTypeOK
  PROVE  /\ "none" \notin Party
         /\ \A g \in Party : /\ party[g].made \in BOOLEAN
                             /\ party[g].leader \in Friend \cup {"none"}
                             /\ party[g].members \subseteq Friend
                             /\ party[g].ready \subseteq Friend
                             /\ party[g].more \in [Friend -> Nat]
                             /\ party[g] \in Entry
         /\ \A p \in Friend : partyOf[p] \in Party \cup {"none"}
         /\ \A p \in Friend : Exists(partyOf[p]) => partyOf[p] \in Party
         /\ \A r \in Reader : reader[r].pc # "idle" =>
              /\ reader[r].player \in Friend /\ reader[r].party \in Party
              /\ reader[r].guest \in Friend \cup {"none"}
              /\ reader[r].pc = "invite" => reader[r].guest \in Friend
         /\ \A i \in Invite : invite[i] # NoInvite =>
              invite[i].to \in Friend /\ invite[i].party \in Party
BY PartyAssumption DEF PartiesTypeOK, Entry, Exists, NotReading, Reading

LEMMA InitParties == PartiesInit => PartiesIInv
<1> SUFFICES ASSUME PartiesInit PROVE PartiesIInv
  OBVIOUS
<1>1. PartiesTypeOK
  BY DEF PartiesInit, PartiesTypeOK, NoParty, Entry, OneRow
<1>2. UnmadeIsEmpty /\ LedByAMember /\ PointersLead /\ ListedOnce /\ QueuedTogether
  BY DEF PartiesInit, UnmadeIsEmpty, LedByAMember, PointersLead, ListedOnce, QueuedTogether,
         Exists, NoParty, OneRow
<1>3. PointersAgree
  BY PartyAssumption DEF PartiesInit, PointersAgree, NoParty
<1>. QED
  BY <1>1, <1>2, <1>3 DEF PartiesIInv

LEMMA CreatePartyKeeps ==
  ASSUME PartiesIInv, NEW p \in Friend, NEW g \in Party, CreateParty(p, g)
  PROVE  PartiesIInv'
<1>. USE PartyTypes DEF PartiesIInv
<1>. DEFINE new == [made |-> TRUE, leader |-> p, members |-> {p}, ready |-> {p}, more |-> OneRow]
<1>1. /\ party' = [party EXCEPT ![g] = new] /\ partyOf' = [partyOf EXCEPT ![p] = g]
      /\ party[g].members = {} /\ ~Exists(partyOf[p])
      /\ UNCHANGED <<invite, queued, reader, strayed>>
  BY DEF CreateParty, UnmadeIsEmpty
<1>2. /\ party'[g] = new /\ partyOf'[p] = g
      /\ \A h \in Party \ {g} : party'[h] = party[h]
      /\ \A q \in Friend \ {p} : partyOf'[q] = partyOf[q]
  BY <1>1 DEF PartiesTypeOK
<1>3. PartiesTypeOK'
  BY <1>1 DEF PartiesTypeOK, Entry, OneRow
<1>4. LedByAMember' /\ UnmadeIsEmpty' /\ ListedOnce'
  BY <1>1, <1>2 DEF LedByAMember, UnmadeIsEmpty, ListedOnce, Exists, OneRow
<1>5. QueuedTogether'
  <2>1. queued[g] = {}
    BY <1>1 DEF QueuedTogether
  <2>. QED
    BY <2>1, <1>1, <1>2 DEF QueuedTogether
<1>6. PointersAgree'
  <2> SUFFICES ASSUME NEW q \in Friend \ strayed, NEW h \in Party
               PROVE  q \in party'[h].members <=> partyOf'[q] = h
    BY <1>1 DEF PointersAgree
  <2>1. q \in party[h].members <=> partyOf[q] = h
    BY DEF PointersAgree
  <2>2. q = p => q \notin party[h].members
    BY <1>1, <2>1 DEF Exists
  <2>. QED
    BY <1>1, <1>2, <2>1, <2>2
<1>7. PointersLead'
  BY <1>1, <1>2 DEF PointersLead
<1>. QED
  BY <1>3, <1>4, <1>5, <1>6, <1>7

\* What a row more changes of an entry.
LEMMA InsertRow ==
  ASSUME NEW old \in Entry, NEW p \in Friend
  PROVE  /\ Insert(old, p) \in Entry /\ Insert(old, p).members = old.members \cup {p}
         /\ Insert(old, p).leader = old.leader /\ Insert(old, p).made = old.made
         /\ \A q \in Friend : q # p \/ p \notin old.members => Insert(old, p).more[q] = old.more[q]
<1>. DEFINE more == IF p \in old.members THEN [old.more EXCEPT ![p] = @ + 1] ELSE old.more
<1>1. /\ more \in [Friend -> Nat]
      /\ \A q \in Friend : q # p \/ p \notin old.members => more[q] = old.more[q]
  BY DEF Entry
<1>2. Insert(old, p) = [old EXCEPT !.members = @ \cup {p}, !.ready = @ \ {p}, !.more = more]
  BY DEF Insert, Entry
<1>. HIDE DEF more
<1>3. Insert(old, p) = [made |-> old.made, leader |-> old.leader, members |-> old.members \cup {p},
                        ready |-> old.ready \ {p}, more |-> more]
  BY <1>2 DEF Entry
<1>4. /\ old.made \in BOOLEAN /\ old.leader \in Friend \cup {"none"}
      /\ old.members \subseteq Friend /\ old.ready \subseteq Friend
  BY DEF Entry
<1>5. /\ Insert(old, p).members = old.members \cup {p} /\ Insert(old, p).more = more
      /\ Insert(old, p).leader = old.leader /\ Insert(old, p).made = old.made
  BY <1>3
<1>6. Insert(old, p) \in Entry
  BY <1>1, <1>3, <1>4 DEF Entry
<1>. QED
  BY <1>1, <1>5, <1>6

LEMMA AcceptInviteKeeps ==
  ASSUME PartiesIInv, NEW i \in Invite, AcceptInvite(i)
  PROVE  PartiesIInv'
<1>. USE PartyTypes DEF PartiesIInv
<1>. DEFINE p == invite[i].to  g == invite[i].party
<1>1. p \in Friend /\ g \in Party
  BY DEF AcceptInvite
<1>. DEFINE new == Insert(party[g], p)
<1>2. /\ party' = [party EXCEPT ![g] = new] /\ partyOf' = [partyOf EXCEPT ![p] = g]
      /\ invite' = [invite EXCEPT ![i] = NoInvite]
      /\ partyOf[p] = "none" /\ queued[g] = {} /\ Exists(g)
      /\ UNCHANGED <<queued, reader, strayed>>
  BY DEF AcceptInvite
<1>3. /\ party'[g] = new /\ partyOf'[p] = g
      /\ \A h \in Party \ {g} : party'[h] = party[h]
      /\ \A q \in Friend \ {p} : partyOf'[q] = partyOf[q]
  BY <1>1, <1>2 DEF PartiesTypeOK
<1>4. /\ new \in Entry /\ new.members = party[g].members \cup {p}
      /\ new.leader = party[g].leader /\ new.made = party[g].made
      /\ \A q \in Friend : q # p \/ p \notin party[g].members => new.more[q] = party[g].more[q]
  BY <1>1, InsertRow
<1>. HIDE DEF new
<1>5. PartiesTypeOK'
  <2>3. party' \in [Party -> Entry]
    BY <1>1, <1>2, <1>4 DEF PartiesTypeOK
  <2>4. /\ partyOf' \in [Friend -> Party \cup {"none"}]
        /\ invite' \in [Invite -> {NoInvite} \cup [to : Friend, party : Party]]
    BY <1>1, <1>2 DEF PartiesTypeOK
  <2>. QED
    BY <1>2, <2>3, <2>4 DEF PartiesTypeOK
<1>6. LedByAMember' /\ UnmadeIsEmpty' /\ PointersLead'
  BY <1>1, <1>2, <1>3, <1>4 DEF LedByAMember, UnmadeIsEmpty, PointersLead, Exists
<1>7. QueuedTogether'
  BY <1>2, <1>3, <1>4 DEF QueuedTogether
<1>8. PointersAgree'
  <2> SUFFICES ASSUME NEW q \in Friend \ strayed, NEW h \in Party
               PROVE  q \in party'[h].members <=> partyOf'[q] = h
    BY <1>2 DEF PointersAgree
  <2>1. q \in party[h].members <=> partyOf[q] = h
    BY DEF PointersAgree
  <2>2. q = p => q \notin party[h].members
    BY <1>2, <2>1
  <2>. QED
    BY <1>1, <1>2, <1>3, <1>4, <2>1, <2>2
<1>9. ListedOnce'
  <2>1. p \notin strayed => p \notin party[g].members
    BY <1>1, <1>2 DEF PointersAgree
  <2>. QED
    BY <2>1, <1>2, <1>3, <1>4 DEF ListedOnce
<1>. QED
  BY <1>5, <1>6, <1>7, <1>8, <1>9

\* A change of leader or of readiness disturbs no roster.
LEMMA SameMembersKeeps ==
  ASSUME PartiesIInv, PartiesTypeOK', UNCHANGED <<partyOf, queued, strayed>>,
         \A g \in Party : /\ party'[g].members = party[g].members /\ party'[g].made = party[g].made
                          /\ party'[g].more = party[g].more,
         \A g \in Party : Exists(g) => party'[g].leader \in party[g].members
  PROVE  PartiesIInv'
<1>1. \A p \in Friend : partyOf[p] \in Party \cup {"none"}
  BY DEF PartiesIInv, PartiesTypeOK
<1>2. UnmadeIsEmpty' /\ LedByAMember' /\ QueuedTogether'
  BY DEF PartiesIInv, UnmadeIsEmpty, LedByAMember, QueuedTogether, Exists
<1>3. PointersAgree' /\ PointersLead' /\ ListedOnce'
  BY <1>1 DEF PartiesIInv, PointersAgree, PointersLead, ListedOnce
<1>. QED
  BY <1>2, <1>3 DEF PartiesIInv

LEMMA SetReadyKeeps ==
  ASSUME PartiesIInv, NEW p \in Friend, NEW ready \in BOOLEAN, SetReady(p, ready)
  PROVE  PartiesIInv'
<1>. USE PartyTypes DEF PartiesIInv
<1>. DEFINE g == partyOf[p]
<1>1. g \in Party /\ UNCHANGED <<partyOf, invite, queued, reader, strayed>>
  BY DEF SetReady, MayChange
<1>2. PICK s \in SUBSET Friend : party' = [party EXCEPT ![g].ready = s]
  <2>1. party[g].ready \subseteq Friend
    BY <1>1
  <2>2. CASE ready
    BY <2>1, <2>2 DEF SetReady, PartiesTypeOK
  <2>3. CASE ~ready
    BY <2>1, <2>3 DEF SetReady, PartiesTypeOK
  <2>. QED
    BY <2>2, <2>3
<1>3. PartiesTypeOK'
  BY <1>1, <1>2 DEF PartiesTypeOK, Entry
<1>4. \A h \in Party : /\ party'[h].members = party[h].members /\ party'[h].made = party[h].made
                       /\ party'[h].leader = party[h].leader /\ party'[h].more = party[h].more
  BY <1>1, <1>2 DEF PartiesTypeOK, Entry
<1>. QED
  BY <1>1, <1>3, <1>4, SameMembersKeeps DEF LedByAMember

LEMMA TransferLeaderKeeps ==
  ASSUME PartiesIInv, NEW p \in Friend, NEW q \in Friend, TransferLeader(p, q)
  PROVE  PartiesIInv'
<1>. USE PartyTypes DEF PartiesIInv
<1>. DEFINE g == partyOf[p]
<1>1. /\ g \in Party /\ q \in party[g].members /\ party' = [party EXCEPT ![g].leader = q]
      /\ UNCHANGED <<partyOf, invite, queued, reader, strayed>>
  BY DEF TransferLeader, MayChange
<1>2. PartiesTypeOK'
  BY <1>1 DEF PartiesTypeOK, Entry
<1>3. /\ \A h \in Party : /\ party'[h].members = party[h].members /\ party'[h].made = party[h].made
                          /\ party'[h].more = party[h].more
      /\ \A h \in Party \ {g} : party'[h].leader = party[h].leader
      /\ party'[g].leader = q
  BY <1>1 DEF PartiesTypeOK, Entry
<1>4. \A h \in Party : Exists(h) => party'[h].leader \in party[h].members
  BY <1>1, <1>3 DEF LedByAMember
<1>. QED
  BY <1>1, <1>2, <1>3, <1>4, SameMembersKeeps

LEMMA LeavePartyKeeps ==
  ASSUME PartiesIInv, NEW p \in Friend, LeaveParty(p)
  PROVE  PartiesIInv'
<1>. USE PartyTypes DEF PartiesIInv
<1>. DEFINE g == partyOf[p]  remaining == party[g].members \ {p}
<1>1. /\ g \in Party /\ queued[g] = {} /\ partyOf' = [partyOf EXCEPT ![p] = "none"]
      /\ UNCHANGED <<invite, queued, reader, strayed>>
  BY DEF LeaveParty
<1>. DEFINE Leaves(new) ==
       /\ new \in Entry /\ party' = [party EXCEPT ![g] = new]
       /\ new.members = remaining /\ (new.made \/ new.made = party[g].made)
       /\ new.leader \in remaining \/ remaining = {}
       /\ \A q \in Friend : new.more[q] = party[g].more[q] \/ new.more[q] = 0
<1>2. PICK new : Leaves(new)
  <2>1. CASE /\ remaining = {}
             /\ party' = [party EXCEPT ![g] = [NoParty EXCEPT !.made = party[g].made]]
    <3>. DEFINE new == [NoParty EXCEPT !.made = party[g].made]
    <3>1. party[g].made \in BOOLEAN
      BY <1>1
    <3>2. /\ new \in Entry /\ new.members = {} /\ new.made = party[g].made
          /\ \A q \in Friend : new.more[q] = 0
      BY <3>1 DEF NoParty, OneRow, Entry
    <3>3. party' = [party EXCEPT ![g] = new]
      BY <2>1
    <3>. HIDE DEF new, g
    <3>. QED
      BY <2>1, <3>2, <3>3
  <2>2. ASSUME NEW next \in remaining,
               party' = [party EXCEPT ![g] = [made |-> TRUE, leader |-> next, members |-> remaining,
                                              ready |-> party[g].ready \ {p},
                                              more |-> [party[g].more EXCEPT ![p] = 0]]]
        PROVE  \E new : Leaves(new)
    <3>. DEFINE new == [made |-> TRUE, leader |-> next, members |-> remaining,
                        ready |-> party[g].ready \ {p},
                        more |-> [party[g].more EXCEPT ![p] = 0]]
    <3>1. /\ party[g].members \subseteq Friend /\ party[g].ready \subseteq Friend
          /\ party[g].more \in [Friend -> Nat]
      BY <1>1
    <3>2. /\ new.members = remaining /\ new.leader = next /\ new.made
          /\ \A q \in Friend : new.more[q] = party[g].more[q] \/ new.more[q] = 0
      BY <3>1
    <3>3. new \in Entry
      BY <2>2, <3>1 DEF Entry
    <3>4. party' = [party EXCEPT ![g] = new]
      BY <2>2
    <3>. HIDE DEF new, remaining, g
    <3>5. Leaves(new)
      BY <2>2, <3>2, <3>3, <3>4
    <3>. QED
      BY <3>5
  <2>. QED
    BY <2>1, <2>2 DEF LeaveParty
<1>3. /\ party'[g] = new /\ partyOf'[p] = "none"
      /\ \A h \in Party \ {g} : party'[h] = party[h]
      /\ \A q \in Friend \ {p} : partyOf'[q] = partyOf[q]
  BY <1>1, <1>2 DEF PartiesTypeOK
<1>4. PartiesTypeOK'
  BY <1>1, <1>2 DEF PartiesTypeOK
<1>5. LedByAMember' /\ UnmadeIsEmpty' /\ PointersLead' /\ ListedOnce'
  <2>1. party[g].made
    BY <1>1 DEF PointersLead, UnmadeIsEmpty
  <2>2. new.made
    BY <2>1, <1>2
  <2>. QED
    BY <2>2, <1>1, <1>2, <1>3 DEF LedByAMember, UnmadeIsEmpty, PointersLead, ListedOnce, Exists
<1>6. QueuedTogether'
  BY <1>1, <1>3 DEF QueuedTogether
<1>7. PointersAgree'
  <2> SUFFICES ASSUME NEW q \in Friend \ strayed, NEW h \in Party
               PROVE  q \in party'[h].members <=> partyOf'[q] = h
    BY <1>1 DEF PointersAgree
  <2>1. q \in party[h].members <=> partyOf[q] = h
    BY DEF PointersAgree
  <2>2. CASE h = g
    BY <1>1, <1>2, <1>3, <2>1, <2>2
  <2>3. CASE h # g
    BY <1>1, <1>3, <2>1, <2>3
  <2>. QED
    BY <2>2, <2>3
<1>. QED
  BY <1>4, <1>5, <1>6, <1>7

LEMMA RepairPointerKeeps ==
  ASSUME PartiesIInv, NEW r \in Reader, RepairPointer(r)
  PROVE  PartiesIInv'
<1>. USE PartyTypes DEF PartiesIInv
<1>. DEFINE p == reader[r].player
<1>1. /\ p \in Friend /\ partyOf' = [partyOf EXCEPT ![p] = "none"]
      /\ strayed' = IF Exists(partyOf[p]) THEN strayed \cup {p} ELSE strayed
      /\ reader' = [reader EXCEPT ![r] = NotReading]
      /\ UNCHANGED <<party, invite, queued>>
  BY DEF RepairPointer
<1>2. PartiesTypeOK'
  BY <1>1 DEF PartiesTypeOK
<1>3. LedByAMember' /\ QueuedTogether' /\ UnmadeIsEmpty' /\ PointersLead' /\ ListedOnce'
  BY <1>1 DEF LedByAMember, QueuedTogether, UnmadeIsEmpty, PointersLead, ListedOnce, Exists,
              PartiesTypeOK
<1>4. PointersAgree'
  <2> SUFFICES ASSUME NEW q \in Friend \ strayed', NEW h \in Party
               PROVE  q \in party[h].members <=> partyOf'[q] = h
    BY <1>1 DEF PointersAgree
  <2>1. q \notin strayed /\ (q \in party[h].members <=> partyOf[q] = h)
    BY <1>1 DEF PointersAgree
  <2>2. CASE q = p
    BY <1>1, <2>1, <2>2 DEF PartiesTypeOK, Exists
  <2>3. CASE q # p
    BY <1>1, <2>1, <2>3 DEF PartiesTypeOK
  <2>. QED
    BY <2>2, <2>3
<1>. QED
  BY <1>2, <1>3, <1>4

\* Reading, inviting and the end of an invite touch no party, pointer or queue.
LEMMA QuietKeeps ==
  ASSUME PartiesIInv, PartiesTypeOK', UNCHANGED <<party, partyOf, queued, strayed>>
  PROVE  PartiesIInv'
BY DEF PartiesIInv, LedByAMember, PointersAgree, PointersLead, ListedOnce, QueuedTogether,
       UnmadeIsEmpty, Exists, PartiesTypeOK

LEMMA ReadKeeps ==
  ASSUME PartiesIInv, NEW r \in Reader,
         ReadParty(r) \/ (\E i \in Invite : SendInvite(r, i))
         \/ (\E p \in Friend, guest \in Friend \cup {"none"} : ReadPointer(r, p, guest))
  PROVE  PartiesIInv'
<1>. USE PartyTypes DEF PartiesIInv
<1>1. CASE ReadParty(r)
  <2>1. UNCHANGED <<party, partyOf, invite, queued, strayed>> /\ reader[r].pc = "fetch"
    BY <1>1 DEF ReadParty
  <2>2. reader[r] \in [pc : {"fetch", "repair"}, player : Friend, party : Party,
                       guest : Friend \cup {"none"}]
    BY <2>1 DEF PartiesTypeOK, NotReading, Reading
  <2>3. reader' = [reader EXCEPT ![r] = reader'[r]] /\ reader'[r] \in {NotReading} \cup Reading
    <3>. DEFINE repair == [reader[r] EXCEPT !.pc = "repair"]  send == [reader[r] EXCEPT !.pc = "invite"]
    <3>1. repair \in Reading /\ (reader[r].guest # "none" => send \in Reading)
      BY <2>2 DEF Reading
    <3>2. reader' = [reader EXCEPT ![r] = IF ~Exists(reader[r].party) THEN repair
                                          ELSE IF reader[r].guest = "none" THEN NotReading
                                          ELSE send]
      BY <1>1 DEF ReadParty
    <3>. QED
      BY <3>1, <3>2 DEF PartiesTypeOK
  <2>4. PartiesTypeOK'
    BY <1>1, <2>1, <2>3 DEF ReadParty, PartiesTypeOK
  <2>. QED
    BY <2>1, <2>4, QuietKeeps
<1>2. ASSUME NEW i \in Invite, SendInvite(r, i) PROVE PartiesIInv'
  <2>. DEFINE guest == reader[r].guest
  <2>1. /\ UNCHANGED <<party, partyOf, queued, strayed>> /\ reader[r].pc = "invite"
        /\ reader' = [reader EXCEPT ![r] = NotReading]
    <3>1. reader[r].player \in Friend
      BY <1>2 DEF SendInvite
    <3>2. [partyOf EXCEPT ![reader[r].player] = "none"] = partyOf
          \/ Exists(partyOf[reader[r].player])
      BY <3>1 DEF PartiesTypeOK, PointersLead, Exists
    <3>. QED
      BY <1>2, <3>2 DEF SendInvite
  <2>2. invite' \in [Invite -> {NoInvite} \cup [to : Friend, party : Party]]
    <3>1. CASE UNCHANGED invite
      BY <3>1 DEF PartiesTypeOK
    <3>2. CASE /\ guest # "none"
               /\ invite' = [invite EXCEPT ![i] = [to |-> guest, party |-> reader[r].party]]
      BY <3>2, <2>1 DEF PartiesTypeOK
    <3>3. guest # "none"
      BY <2>1, PartyAssumption
    <3>. QED
      BY <1>2, <3>1, <3>2, <3>3 DEF SendInvite
  <2>3. PartiesTypeOK'
    BY <2>1, <2>2 DEF PartiesTypeOK
  <2>. QED
    BY <2>1, <2>3, QuietKeeps
<1>3. ASSUME NEW p \in Friend, NEW guest \in Friend \cup {"none"}, ReadPointer(r, p, guest)
      PROVE  PartiesIInv'
  <2>1. /\ UNCHANGED <<party, partyOf, invite, queued, strayed>> /\ partyOf[p] \in Party
        /\ reader' = [reader EXCEPT ![r] = [pc |-> "fetch", player |-> p,
                                            party |-> partyOf[p], guest |-> guest]]
    BY <1>3 DEF ReadPointer
  <2>2. PartiesTypeOK'
    BY <2>1 DEF PartiesTypeOK, Reading
  <2>. QED
    BY <2>1, <2>2, QuietKeeps
<1>. QED
  BY <1>1, <1>2, <1>3

LEMMA NextParties == PartiesIInv /\ [PartiesNext]_partyVars => PartiesIInv'
<1> SUFFICES ASSUME PartiesIInv, [PartiesNext]_partyVars PROVE PartiesIInv'
  OBVIOUS
<1>1. ASSUME NEW p \in Friend, NEW g \in Party, CreateParty(p, g) PROVE PartiesIInv'
  BY <1>1, CreatePartyKeeps
<1>2. ASSUME NEW p \in Friend, NEW ready \in BOOLEAN, SetReady(p, ready) PROVE PartiesIInv'
  BY <1>2, SetReadyKeeps
<1>3. ASSUME NEW p \in Friend, NEW q \in Friend, TransferLeader(p, q) PROVE PartiesIInv'
  BY <1>3, TransferLeaderKeeps
<1>4. ASSUME NEW p \in Friend, LeaveParty(p) PROVE PartiesIInv'
  BY <1>4, LeavePartyKeeps
<1>5. ASSUME NEW p \in Friend, QueueParty(p) PROVE PartiesIInv'
  <2>. DEFINE g == partyOf[p]
  <2>1. /\ queued' = [queued EXCEPT ![g] = party[g].members]
        /\ UNCHANGED <<party, partyOf, invite, reader, strayed>>
    BY <1>5 DEF QueueParty
  <2>2. PartiesTypeOK /\ \A h \in Party : party[h].members \subseteq Friend
    BY PartyTypes DEF PartiesIInv
  <2>3. g \in Party
    BY <1>5, <2>2 DEF QueueParty, MayChange, PartiesTypeOK
  <2>4. PartiesTypeOK'
    BY <2>1, <2>2, <2>3 DEF PartiesTypeOK
  <2>. QED
    BY <2>1, <2>2, <2>4 DEF PartiesIInv, LedByAMember, PointersAgree, PointersLead, ListedOnce,
                            QueuedTogether, UnmadeIsEmpty, Exists, PartiesTypeOK
<1>6. ASSUME NEW g \in Party, UnqueueParty(g) PROVE PartiesIInv'
  <2>1. /\ queued' = [queued EXCEPT ![g] = {}] /\ PartiesTypeOK
        /\ UNCHANGED <<party, partyOf, invite, reader, strayed>>
    BY <1>6 DEF UnqueueParty, PartiesIInv
  <2>2. PartiesTypeOK'
    BY <2>1 DEF PartiesTypeOK
  <2>. QED
    BY <2>1, <2>2 DEF PartiesIInv, LedByAMember, PointersAgree, PointersLead, ListedOnce,
                      QueuedTogether, UnmadeIsEmpty, Exists, PartiesTypeOK
<1>7. ASSUME NEW r \in Reader,
             \/ ReadParty(r) \/ (\E i \in Invite : SendInvite(r, i))
             \/ \E p \in Friend, guest \in Friend \cup {"none"} : ReadPointer(r, p, guest)
      PROVE  PartiesIInv'
  BY <1>7, ReadKeeps
<1>8. ASSUME NEW r \in Reader, RepairPointer(r) PROVE PartiesIInv'
  BY <1>8, RepairPointerKeeps
<1>9. ASSUME NEW i \in Invite, AcceptInvite(i) PROVE PartiesIInv'
  BY <1>9, AcceptInviteKeeps
<1>10. ASSUME NEW i \in Invite, InviteLapses(i) PROVE PartiesIInv'
  <2>1. PartiesTypeOK' /\ UNCHANGED <<party, partyOf, queued, strayed>>
    BY <1>10 DEF InviteLapses, PartiesTypeOK, PartiesIInv
  <2>. QED
    BY <2>1, QuietKeeps
<1>11. CASE UNCHANGED partyVars
  <2>1. PartiesTypeOK' /\ UNCHANGED <<party, partyOf, queued, strayed>>
    BY <1>11 DEF partyVars, PartiesTypeOK, PartiesIInv
  <2>. QED
    BY <2>1, QuietKeeps
<1>. QED
  BY <1>1, <1>2, <1>3, <1>4, <1>5, <1>6, <1>7, <1>8, <1>9, <1>10, <1>11 DEF PartiesNext

\* PartiesIInv is an inductive invariant of the scripts and the reads.
THEOREM PartiesInvariant == PartiesSpec => []PartiesIInv
<1>. QED
  BY InitParties, NextParties, PTL DEF PartiesSpec

\* The types of Parties (PartiesTypeOK) hold in every reachable state.
THEOREM PartiesTypes == PartiesSpec => []PartiesTypeOK
<1>1. PartiesIInv => PartiesTypeOK
  BY DEF PartiesIInv
<1>. QED
  BY <1>1, PartiesInvariant, PTL

\* Rosters, pointers and queued rosters agree (redis-party-service.ts): a
\* player whose pointer was not deleted by the repair of getForPlayer is on
\* one roster at most, the one he points at, and once; no pointer leads to a
\* party that is missing; the leader is on the roster, and the queue holds that
\* roster and no other.
THEOREM PartiesAgreement == PartiesSpec => []PartiesAgree
<1>1. PartiesIInv => PartiesAgree
  BY DEF PartiesIInv, PartiesAgree
<1>. QED
  BY <1>1, PartiesInvariant, PTL

-----------------------------------------------------------------------------
(* Recordings.                                                             *)

Writing(u) == upload[u].pc \in {"put", "verify", "commit"}

\* An upload that ends in a conflict with contents x, unless its process stops.
Wrong(u, x) ==
  \/ upload[u].pc = "conflict"
  \/ /\ upload[u].pc \in {"verify", "commit"}
     /\ upload[u].has # upload[u].says \/ upload[u].says # x

\* The store holds x, or somebody is going to report a conflict.
ObjectIs(x) == object = x \/ \E u \in Upload : Wrong(u, x)

UploadShape ==
  \A u \in Upload :
    /\ upload[u].pc # "idle" => upload[u].has \in Bytes /\ upload[u].says \in Bytes
    /\ upload[u].pc = "commit" => upload[u].has = upload[u].says

RowShape ==
  /\ artifact.status # "none" => artifact.sha \in Bytes
  /\ artifact.status = "deleting" => artifact.previous # "none"
  /\ analysis # "none" => artifact.status # "none"
  /\ report = "held" => artifact.status \in Kept \cup {"invalid"}

\* Nobody writes the object any more once its removal has begun.
RemovalShape ==
  /\ artifact.status = "deleted" => object = "none"
  /\ \A j \in Job : job[j] = "complete" => object = "none"
  /\ artifact.status \in {"deleting", "deleted"} \/ (\E j \in Job : job[j] # "idle") =>
       artifact.status # "none" /\ \A u \in Upload : ~Writing(u)

\* Before there is a row, the object is that of an upload; afterwards that of
\* the row, until it is removed.
Contents ==
  ~marred /\ ~conflict => \A x \in Bytes :
    /\ artifact.status = "none" =>
         \A u \in Upload : upload[u].pc \in {"verify", "commit"} /\ upload[u].has = x => ObjectIs(x)
    /\ artifact.status # "none" /\ artifact.sha = x =>
         ObjectIs(x) \/ (artifact.status \in {"deleting", "deleted"} /\ object = "none")

DemosIInv == DemosTypeOK /\ UploadShape /\ RowShape /\ RemovalShape /\ Contents

UploadRow == [pc : {"idle", "put", "verify", "commit", "conflict"},
              says : Bytes \cup {"none"}, has : Bytes \cup {"none"}]

LEMMA InitDemos == DemosInit => DemosIInv
<1> SUFFICES ASSUME DemosInit PROVE DemosIInv
  OBVIOUS
<1>1. DemosTypeOK
  BY DEF DemosInit, DemosTypeOK, Waiting
<1>2. UploadShape /\ RowShape /\ RemovalShape
  BY DEF DemosInit, UploadShape, RowShape, RemovalShape, Waiting
<1>3. Contents
  BY DEF DemosInit, Contents, Waiting
<1>. QED
  BY <1>1, <1>2, <1>3 DEF DemosIInv

\* A change of upload[u] alone: what it does to the other uploads.
LEMMA UploadChange ==
  ASSUME DemosTypeOK, NEW u \in Upload, NEW w \in UploadRow, upload' = [upload EXCEPT ![u] = w]
  PROVE  /\ upload' \in [Upload -> UploadRow]
         /\ upload'[u] = w
         /\ \A v \in Upload \ {u} : upload'[v] = upload[v]
         /\ \A v \in Upload \ {u} : \A x : Wrong(v, x)' = Wrong(v, x)
BY DEF DemosTypeOK, UploadRow, Wrong

LEMMA StartUploadKeeps ==
  ASSUME DemosIInv, NEW u \in Upload, NEW says \in Bytes, NEW has \in Bytes, StartUpload(u, says, has)
  PROVE  DemosIInv'
<1>. USE DEF DemosIInv
<1>. DEFINE w == IF artifact.status = "none" THEN [pc |-> "put", says |-> says, has |-> has]
                 ELSE IF artifact.sha = says THEN Waiting
                 ELSE [pc |-> "conflict", says |-> says, has |-> has]
<1>1. /\ upload[u].pc = "idle" /\ upload' = [upload EXCEPT ![u] = w] /\ w \in UploadRow
      /\ UNCHANGED <<artifact, object, job, analysis, verdict, conflict, report, marred>>
  BY DEF StartUpload, UploadRow, Waiting
<1>2. /\ upload' \in [Upload -> UploadRow] /\ upload'[u] = w
      /\ \A v \in Upload \ {u} : upload'[v] = upload[v]
      /\ \A v \in Upload \ {u} : \A x : Wrong(v, x)' = Wrong(v, x)
  BY <1>1, UploadChange
<1>3. \A x : ~Wrong(u, x)
  BY <1>1 DEF Wrong
<1>4. DemosTypeOK'
  BY <1>1, <1>2 DEF DemosTypeOK, UploadRow
<1>5. UploadShape' /\ RowShape' /\ RemovalShape'
  BY <1>1, <1>2 DEF UploadShape, RowShape, RemovalShape, Writing, Waiting
<1>6. \A x : ObjectIs(x) => ObjectIs(x)'
  BY <1>1, <1>2, <1>3 DEF ObjectIs
<1>7. Contents'
  <2>1. upload'[u].pc \notin {"verify", "commit"}
    BY <1>2 DEF Waiting
  <2>. QED
    BY <1>1, <1>2, <1>6, <2>1 DEF Contents
<1>. QED
  BY <1>4, <1>5, <1>7

LEMMA PutObjectKeeps ==
  ASSUME DemosIInv, NEW u \in Upload, PutObject(u)
  PROVE  DemosIInv'
<1>. USE DEF DemosIInv
<1>0. /\ upload[u].pc = "put" /\ upload[u] \in UploadRow
      /\ upload[u].has \in Bytes /\ upload[u].says \in Bytes
      /\ UNCHANGED <<artifact, job, analysis, verdict, conflict, report, marred>>
  BY DEF PutObject, DemosTypeOK, UploadRow, UploadShape
<1>1. PICK w \in UploadRow : /\ upload' = [upload EXCEPT ![u] = w]
                             /\ \/ /\ object' = upload[u].has /\ w.pc = "verify"
                                   /\ w.has = upload[u].has /\ w.says = upload[u].says
                                \/ object' = object /\ w.pc = "idle"
  <2>1. CASE object' = upload[u].has /\ Step(u, "verify")
    <3>. DEFINE w == [upload[u] EXCEPT !.pc = "verify"]
    <3>1. w \in UploadRow /\ w.pc = "verify" /\ w.has = upload[u].has /\ w.says = upload[u].says
      BY <1>0 DEF UploadRow
    <3>2. upload' = [upload EXCEPT ![u] = w]
      BY <2>1, <1>0 DEF Step, DemosTypeOK
    <3>. QED
      BY <2>1, <3>1, <3>2
  <2>2. CASE object' = object /\ upload' = [upload EXCEPT ![u] = Waiting]
    <3>1. Waiting \in UploadRow /\ Waiting.pc = "idle"
      BY DEF Waiting, UploadRow
    <3>. QED
      BY <2>2, <3>1
  <2>. QED
    BY <2>1, <2>2 DEF PutObject
<1>2. /\ upload' \in [Upload -> UploadRow] /\ upload'[u] = w
      /\ \A v \in Upload \ {u} : upload'[v] = upload[v]
      /\ \A v \in Upload \ {u} : \A x : Wrong(v, x)' = Wrong(v, x)
  BY <1>1, UploadChange
<1>3. DemosTypeOK'
  BY <1>0, <1>1, <1>2 DEF DemosTypeOK, UploadRow
<1>4. UploadShape' /\ RowShape'
  BY <1>0, <1>1, <1>2 DEF UploadShape, RowShape
<1>5. RemovalShape'
  BY <1>0, <1>1, <1>2 DEF RemovalShape, Writing
<1>6. \A x : ObjectIs(x) => ObjectIs(x)'
  <2> SUFFICES ASSUME NEW x, ObjectIs(x) PROVE ObjectIs(x)'
    OBVIOUS
  <2>1. ~Wrong(u, x)
    BY <1>0 DEF Wrong
  <2>2. CASE \E v \in Upload : Wrong(v, x)
    BY <2>1, <2>2, <1>2 DEF ObjectIs
  <2>3. CASE object = x /\ object' = object
    BY <2>3 DEF ObjectIs
  <2>4. CASE object' = upload[u].has /\ w.pc = "verify" /\ w.has = upload[u].has
    <3>1. object' = x \/ Wrong(u, x)'
      BY <2>4, <1>2 DEF Wrong
    <3>. QED
      BY <3>1 DEF ObjectIs
  <2>. QED
    BY <2>2, <2>3, <2>4, <1>1 DEF ObjectIs
<1>7. Contents'
  <2>1. \A x : upload'[u].pc \in {"verify", "commit"} /\ upload'[u].has = x => ObjectIs(x)'
    BY <1>1, <1>2 DEF ObjectIs
  <2>2. artifact.status \notin {"deleting", "deleted"}
    BY <1>0 DEF RemovalShape, Writing
  <2>. QED
    BY <1>0, <1>2, <1>6, <2>1, <2>2 DEF Contents
<1>. QED
  BY <1>3, <1>4, <1>5, <1>7

LEMMA VerifyObjectKeeps ==
  ASSUME DemosIInv, NEW u \in Upload, VerifyObject(u)
  PROVE  DemosIInv'
<1>. USE DEF DemosIInv
<1>0. /\ upload[u].pc = "verify" /\ upload[u] \in UploadRow
      /\ upload[u].has \in Bytes /\ upload[u].says \in Bytes
      /\ UNCHANGED <<artifact, job, analysis, verdict, conflict, report, marred>>
  BY DEF VerifyObject, DemosTypeOK, UploadRow, UploadShape
<1>. DEFINE w(pc) == [upload[u] EXCEPT !.pc = pc]
<1>1. PICK pc \in {"commit", "conflict"} :
        /\ upload' = [upload EXCEPT ![u] = w(pc)]
        /\ pc = "commit" => upload[u].has = upload[u].says /\ object' = object
        /\ object' \in {"none", object}
  <2>1. \A pc : Step(u, pc) => upload' = [upload EXCEPT ![u] = w(pc)]
    BY <1>0 DEF Step, DemosTypeOK
  <2>. QED
    BY <2>1 DEF VerifyObject
<1>2. w(pc) \in UploadRow /\ w(pc).pc = pc /\ w(pc).has = upload[u].has /\ w(pc).says = upload[u].says
  BY <1>0 DEF UploadRow
<1>3. /\ upload' \in [Upload -> UploadRow] /\ upload'[u] = w(pc)
      /\ \A v \in Upload \ {u} : upload'[v] = upload[v]
      /\ \A v \in Upload \ {u} : \A x : Wrong(v, x)' = Wrong(v, x)
  BY <1>1, <1>2, UploadChange
<1>. HIDE DEF w
<1>4. DemosTypeOK'
  BY <1>0, <1>1, <1>3 DEF DemosTypeOK, UploadRow
<1>5. UploadShape' /\ RowShape'
  BY <1>0, <1>1, <1>2, <1>3 DEF UploadShape, RowShape
<1>6. RemovalShape'
  BY <1>0, <1>1, <1>2, <1>3 DEF RemovalShape, Writing
<1>7. \A x : ObjectIs(x) => ObjectIs(x)'
  <2> SUFFICES ASSUME NEW x, ObjectIs(x) PROVE ObjectIs(x)'
    OBVIOUS
  <2>1. CASE pc = "conflict"
    BY <2>1, <1>2, <1>3 DEF ObjectIs, Wrong
  <2>2. CASE pc = "commit"
    <3>1. Wrong(u, x) => Wrong(u, x)'
      BY <2>2, <1>0, <1>1, <1>2, <1>3 DEF Wrong
    <3>. QED
      BY <2>2, <3>1, <1>1, <1>3 DEF ObjectIs
  <2>. QED
    BY <2>1, <2>2
<1>8. Contents'
  <2>1. upload'[u].has = upload[u].has /\ artifact.status \notin {"deleting", "deleted"}
    BY <1>0, <1>2, <1>3 DEF RemovalShape, Writing
  <2>. QED
    BY <1>0, <1>3, <1>7, <2>1 DEF Contents
<1>. QED
  BY <1>4, <1>5, <1>6, <1>8

\* The end of an upload: by the transaction, by a conflict or by a crash.
LEMMA EndUploadKeeps ==
  ASSUME DemosIInv, NEW u \in Upload, CommitUpload(u) \/ RecordConflict(u) \/ UploadStops(u)
  PROVE  DemosIInv'
<1>. USE DEF DemosIInv
<1>1. /\ upload[u].pc # "idle" /\ upload[u] \in UploadRow
      /\ upload[u].has \in Bytes /\ upload[u].says \in Bytes
      /\ UNCHANGED <<object, job, analysis, report>>
  BY DEF CommitUpload, RecordConflict, UploadStops, DemosTypeOK, UploadRow, UploadShape
<1>. DEFINE w(pc) == IF pc = "idle" THEN Waiting ELSE [upload[u] EXCEPT !.pc = pc]
<1>2. /\ w("idle") \in UploadRow /\ w("conflict") \in UploadRow
      /\ w("idle").pc = "idle" /\ w("conflict").pc = "conflict"
      /\ w("conflict").has = upload[u].has /\ w("conflict").says = upload[u].says
  BY <1>1 DEF UploadRow, Waiting
<1>3. PICK pc \in {"idle", "conflict"} :
        /\ upload' = [upload EXCEPT ![u] = w(pc)]
        /\ pc = "conflict" => CommitUpload(u)
        /\ CommitUpload(u) /\ artifact.status # "none" =>
             (pc = "idle" <=> artifact.sha = upload[u].says)
        /\ CommitUpload(u) /\ artifact.status = "none" => pc = "idle"
  BY <1>1 DEF CommitUpload, RecordConflict, UploadStops, DemosTypeOK
<1>4. w(pc) \in UploadRow /\ w(pc).pc = pc
      /\ (pc = "conflict" => w(pc).has = upload[u].has /\ w(pc).says = upload[u].says)
  BY <1>2
<1>5. /\ upload' \in [Upload -> UploadRow] /\ upload'[u] = w(pc)
      /\ \A v \in Upload \ {u} : upload'[v] = upload[v]
      /\ \A v \in Upload \ {u} : \A x : Wrong(v, x)' = Wrong(v, x)
  BY <1>3, <1>4, UploadChange
<1>. HIDE DEF w
<1>6. UploadShape'
  BY <1>1, <1>4, <1>5 DEF UploadShape
<1>7. CASE CommitUpload(u)
  <2>1. /\ upload[u].pc = "commit" /\ upload[u].has = upload[u].says
        /\ UNCHANGED <<verdict, conflict, marred>>
        /\ artifact.status \notin {"deleting", "deleted"} /\ \A j \in Job : job[j] = "idle"
    BY <1>7 DEF CommitUpload, UploadShape, RemovalShape, Writing, DemosTypeOK
  <2>2. \/ artifact.status # "none" /\ artifact' = artifact
        \/ /\ artifact.status = "none" /\ pc = "idle"
           /\ artifact' = [status |-> "uploaded", sha |-> upload[u].says, previous |-> "none"]
    BY <1>3, <1>7 DEF CommitUpload
  <2>3. /\ artifact' = artifact \/ (artifact'.status = "uploaded" /\ artifact'.sha = upload[u].says)
        /\ artifact'.status # "none"
    <3>1. CASE artifact' = artifact /\ artifact.status # "none"
      BY <3>1 DEF DemosTypeOK
    <3>2. CASE artifact' = [status |-> "uploaded", sha |-> upload[u].says, previous |-> "none"]
      BY <3>2
    <3>. QED
      BY <2>2, <3>1, <3>2
  <2>4. DemosTypeOK'
    BY <1>1, <1>5, <2>1, <2>2 DEF DemosTypeOK, UploadRow
  <2>5. RowShape' /\ RemovalShape'
    BY <1>1, <1>4, <1>5, <2>1, <2>3 DEF RowShape, RemovalShape, Writing, Kept
  <2>6. Contents'
    <3> SUFFICES ASSUME ~marred, ~conflict, NEW x \in Bytes, artifact'.status # "none",
                        artifact'.sha = x
                 PROVE  ObjectIs(x)'
      BY <2>1, <2>3 DEF Contents
    <3>1. CASE artifact.status # "none"
      <4>1. artifact' = artifact /\ artifact.sha = x
        BY <3>1, <2>2
      <4>2. ObjectIs(x)
        BY <3>1, <4>1, <2>1 DEF Contents
      <4>3. Wrong(u, x) => Wrong(u, x)'
        BY <1>3, <1>4, <1>5, <1>7, <2>1, <3>1, <4>1 DEF Wrong
      <4>. QED
        BY <4>2, <4>3, <1>1, <1>5 DEF ObjectIs
    <3>2. CASE artifact.status = "none"
      <4>1. x = upload[u].has /\ ~Wrong(u, x)
        BY <3>2, <2>1, <2>2, <2>3 DEF Wrong
      <4>2. ObjectIs(x)
        BY <3>2, <4>1, <2>1 DEF Contents
      <4>. QED
        BY <4>1, <4>2, <1>1, <1>5 DEF ObjectIs
    <3>. QED
      BY <3>1, <3>2
  <2>. QED
    BY <2>4, <2>5, <2>6, <1>6
<1>8. CASE RecordConflict(u)
  <2>1. conflict' /\ artifact' = artifact /\ marred' = marred /\ verdict' \in {verdict, "disputed"}
    BY <1>8 DEF RecordConflict, Disputed
  <2>2. DemosTypeOK'
    BY <1>1, <1>5, <1>8, <2>1 DEF RecordConflict, DemosTypeOK, UploadRow
  <2>. QED
    BY <1>1, <1>4, <1>5, <1>6, <2>1, <2>2 DEF RowShape, RemovalShape, Writing, Contents
<1>9. CASE UploadStops(u)
  <2>1. /\ marred' = (marred \/ upload[u].pc # "put")
        /\ UNCHANGED <<artifact, verdict, conflict>> /\ pc = "idle"
    BY <1>4, <1>5, <1>9 DEF UploadStops, Waiting, DemosTypeOK
  <2>2. DemosTypeOK'
    BY <1>1, <1>5, <2>1 DEF DemosTypeOK, UploadRow
  <2>3. ~marred' => \A x : ObjectIs(x) => ObjectIs(x)'
    <3>1. upload[u].pc = "put" => \A x : ~Wrong(u, x)
      BY DEF Wrong
    <3>. QED
      BY <3>1, <2>1, <1>1, <1>5 DEF ObjectIs
  <2>4. Contents'
    BY <1>1, <1>4, <1>5, <2>1, <2>3 DEF Contents
  <2>. QED
    BY <1>1, <1>4, <1>5, <1>6, <2>1, <2>2, <2>4 DEF RowShape, RemovalShape, Writing
<1>. QED
  BY <1>7, <1>8, <1>9

\* Analyses and reports leave the object and the uploads alone.
LEMMA AnalysisKeeps ==
  ASSUME DemosIInv,
         StartAnalysis \/ Download \/ EndAnalysis \/ AnalysisStops \/ FileReport \/ DecideReport
  PROVE  DemosIInv'
<1>. USE DEF DemosIInv
<1>1. UNCHANGED <<object, upload, job, conflict>>
  BY DEF StartAnalysis, Download, EndAnalysis, AnalysisStops, FileReport, DecideReport
<1>2. \A x : ObjectIs(x)' = ObjectIs(x)
  BY <1>1 DEF ObjectIs, Wrong
<1>3. CASE StartAnalysis \/ Download \/ AnalysisStops \/ FileReport \/ DecideReport
  <2>1. UNCHANGED <<artifact, verdict, marred>>
    BY <1>3 DEF StartAnalysis, Download, AnalysisStops, FileReport, DecideReport
  <2>2. DemosTypeOK'
    BY <1>1, <1>3, <2>1 DEF DemosTypeOK, StartAnalysis, Download, AnalysisStops, FileReport, DecideReport
  <2>3. RowShape'
    BY <1>1, <1>3, <2>1 DEF RowShape, StartAnalysis, Download, AnalysisStops, FileReport, DecideReport, Kept
  <2>. QED
    BY <1>1, <1>2, <2>1, <2>2, <2>3 DEF UploadShape, RemovalShape, Writing, Contents
<1>4. CASE EndAnalysis
  <2>1. /\ analysis' = "none" /\ report' = report /\ analysis # "none"
        /\ marred' = (marred \/ (artifact.status = "deleting" /\ object = "none"))
        /\ verdict' \in {verdict, "disputed"}
    BY <1>4 DEF EndAnalysis, Disputed
  <2>2. PICK status \in {"analyzed", "invalid", "deleted"} :
          /\ artifact' = [artifact EXCEPT !.status = status]
          /\ status = "deleted" <=> artifact.status = "deleted"
    BY <1>4 DEF EndAnalysis, DemosTypeOK
  <2>3. artifact'.status = status /\ artifact'.sha = artifact.sha
        /\ artifact'.previous = artifact.previous
    BY <2>2 DEF DemosTypeOK
  <2>4. DemosTypeOK'
    BY <1>1, <2>1, <2>2 DEF DemosTypeOK
  <2>5. artifact.status # "none"
    BY <2>1 DEF RowShape
  <2>6. RowShape' /\ RemovalShape' /\ UploadShape'
    BY <1>1, <2>1, <2>2, <2>3, <2>5 DEF RowShape, RemovalShape, UploadShape, Writing, Kept
  <2>7. Contents'
    BY <1>1, <1>2, <2>1, <2>2, <2>3, <2>5 DEF Contents
  <2>. QED
    BY <2>4, <2>6, <2>7
<1>. QED
  BY <1>3, <1>4

\* A retention job leaves the uploads alone, and removes the object only of a
\* recording that is claimed or is marred by it.
LEMMA JobKeeps ==
  ASSUME DemosIInv, NEW j \in Job,
         ListCandidates(j) \/ Claim(j) \/ DeleteObject(j) \/ Complete(j) \/ FailJob(j) \/ JobStops(j)
  PROVE  DemosIInv'
<1>. USE DEF DemosIInv
<1>1. UNCHANGED <<upload, analysis, verdict, conflict, report>>
  BY DEF ListCandidates, Claim, DeleteObject, Complete, FailJob, JobStops
<1>2. \A v \in Upload : \A x : Wrong(v, x)' = Wrong(v, x)
  BY <1>1 DEF Wrong
<1>3. PICK pc \in {"idle", "claim", "delete", "complete", "fail"} : job' = [job EXCEPT ![j] = pc]
  BY DEF ListCandidates, Claim, DeleteObject, Complete, FailJob, JobStops
<1>4. /\ job' \in [Job -> {"idle", "claim", "delete", "complete", "fail"}]
      /\ job'[j] = pc /\ \A k \in Job \ {j} : job'[k] = job[k]
  BY <1>3 DEF DemosTypeOK
<1>5. UploadShape'
  BY <1>1 DEF UploadShape
<1>6. CASE ListCandidates(j) \/ JobStops(j)
  <2>1. UNCHANGED <<artifact, object, marred>> /\ pc \in {"idle", "claim"}
    BY <1>3, <1>4, <1>6 DEF ListCandidates, JobStops, DemosTypeOK
  <2>2. pc = "claim" => artifact.status # "none" /\ \A u \in Upload : ~Writing(u)
    BY <1>3, <1>4, <1>6 DEF ListCandidates, JobStops, Removable, Writing, DemosTypeOK
  <2>3. DemosTypeOK' /\ RowShape' /\ Contents'
    BY <1>1, <1>2, <1>4, <2>1 DEF DemosTypeOK, RowShape, Contents, ObjectIs
  <2>4. RemovalShape'
    BY <1>1, <1>4, <2>1, <2>2 DEF RemovalShape, Writing
  <2>. QED
    BY <2>3, <2>4, <1>5
<1>7. CASE Claim(j)
  <2>1. UNCHANGED <<object, marred>> /\ pc \in {"idle", "delete"} /\ job[j] = "claim"
    BY <1>3, <1>4, <1>7 DEF Claim, DemosTypeOK
  <2>2. \/ artifact' = artifact
        \/ /\ report = "none" /\ artifact.status \in {"analyzed", "invalid", "deleting"}
           /\ \E old \in {"analyzed", "invalid"} :
                artifact' = [status |-> "deleting", sha |-> artifact.sha, previous |-> old]
    BY <1>7 DEF Claim, Removable, RowShape, DemosTypeOK
  <2>3. \/ artifact' = artifact
        \/ artifact'.status = "deleting" /\ artifact'.previous # "none" /\ artifact'.sha = artifact.sha
    BY <2>2
  <2>4. DemosTypeOK'
    BY <1>1, <1>4, <2>1, <2>2 DEF DemosTypeOK
  <2>5. RowShape' /\ RemovalShape'
    BY <1>1, <1>4, <2>1, <2>2, <2>3 DEF RowShape, RemovalShape, Writing
  <2>6. Contents'
    BY <1>1, <1>2, <2>1, <2>2, <2>3 DEF Contents, ObjectIs
  <2>. QED
    BY <2>4, <2>5, <2>6, <1>5
<1>8. CASE DeleteObject(j)
  <2>1. artifact' = artifact /\ job[j] = "delete"
        /\ \/ /\ object' = "none"
              /\ marred' = (marred \/ artifact.status \in Kept \cup {"invalid"})
           \/ object' = object /\ marred' = marred /\ pc = "fail"
    BY <1>3, <1>4, <1>8 DEF DeleteObject, DemosTypeOK
  <2>2. artifact.status # "none" /\ \A u \in Upload : ~Writing(u)
    <3>1. job[j] # "idle"
      BY <2>1
    <3>. QED
      BY <3>1 DEF RemovalShape
  <2>3. DemosTypeOK'
    <3>1. object' \in Bytes \cup {"none"} /\ marred' \in BOOLEAN
      BY <2>1 DEF DemosTypeOK
    <3>. QED
      BY <1>1, <1>4, <2>1, <3>1 DEF DemosTypeOK
  <2>4. RowShape' /\ RemovalShape'
    BY <1>1, <1>4, <2>1, <2>2 DEF RowShape, RemovalShape, Writing
  <2>5. Contents'
    BY <1>1, <1>2, <2>1, <2>2 DEF Contents, ObjectIs, Kept, DemosTypeOK
  <2>. QED
    BY <2>3, <2>4, <2>5, <1>5
<1>9. CASE Complete(j)
  <2>1. /\ UNCHANGED <<object, marred>> /\ pc # "complete" /\ job[j] = "complete"
        /\ \/ artifact' = artifact
           \/ artifact.status = "deleting" /\ artifact' = [artifact EXCEPT !.status = "deleted"]
    BY <1>3, <1>4, <1>9 DEF Complete, DemosTypeOK
  <2>2. object = "none" /\ \A u \in Upload : ~Writing(u)
    BY <2>1 DEF RemovalShape
  <2>3. \/ artifact' = artifact
        \/ artifact.status = "deleting" /\ artifact'.status = "deleted" /\ artifact'.sha = artifact.sha
    BY <2>1 DEF DemosTypeOK
  <2>4. DemosTypeOK'
    BY <1>1, <1>4, <2>1 DEF DemosTypeOK
  <2>5. RowShape' /\ RemovalShape'
    BY <1>1, <1>4, <2>1, <2>2, <2>3 DEF RowShape, RemovalShape, Writing, Kept
  <2>6. Contents'
    BY <1>1, <1>2, <2>1, <2>2, <2>3 DEF Contents, ObjectIs
  <2>. QED
    BY <2>4, <2>5, <2>6, <1>5
<1>10. CASE FailJob(j)
  <2>1. /\ object' = object /\ pc = "idle" /\ job[j] = "fail"
        /\ marred' = (marred \/ (artifact.status = "deleting" /\ object = "none"))
    BY <1>3, <1>4, <1>10 DEF FailJob, DemosTypeOK
  <2>2. \/ artifact' = artifact /\ artifact.status # "deleting"
        \/ /\ artifact.status = "deleting" /\ artifact.previous \in {"analyzed", "invalid"}
           /\ artifact' = [status |-> artifact.previous, sha |-> artifact.sha, previous |-> "none"]
    BY <1>10 DEF FailJob, RowShape, DemosTypeOK
  <2>3. DemosTypeOK'
    BY <1>1, <1>4, <2>1, <2>2 DEF DemosTypeOK
  <2>4. RowShape' /\ RemovalShape'
    BY <1>1, <1>4, <2>1, <2>2 DEF RowShape, RemovalShape, Writing, Kept
  <2>5. Contents'
    <3>1. CASE artifact' = artifact /\ marred' = marred
      BY <1>1, <1>2, <2>1, <3>1 DEF Contents, ObjectIs
    <3>2. CASE artifact.status = "deleting" /\ object = "none"
      BY <2>1, <3>2 DEF Contents
    <3>3. CASE artifact.status = "deleting" /\ object # "none"
      <4>1. artifact'.sha = artifact.sha /\ artifact'.status # "none" /\ marred' = marred
        BY <2>1, <2>2, <3>3 DEF DemosTypeOK
      <4>. QED
        BY <1>1, <1>2, <2>1, <3>3, <4>1 DEF Contents, ObjectIs
    <3>4. artifact.status # "deleting" => artifact' = artifact /\ marred' = marred
      BY <2>1, <2>2 DEF DemosTypeOK
    <3>. QED
      BY <3>1, <3>2, <3>3, <3>4
  <2>. QED
    BY <2>3, <2>4, <2>5, <1>5
<1>. QED
  BY <1>6, <1>7, <1>8, <1>9, <1>10

LEMMA NextDemos == DemosIInv /\ [DemosNext]_demoVars => DemosIInv'
<1> SUFFICES ASSUME DemosIInv, [DemosNext]_demoVars PROVE DemosIInv'
  OBVIOUS
<1>1. CASE UNCHANGED demoVars
  BY <1>1 DEF demoVars, DemosIInv, DemosTypeOK, UploadShape, RowShape, RemovalShape, Contents,
              ObjectIs, Wrong, Writing
<1>. QED
  BY <1>1, StartUploadKeeps, PutObjectKeeps, VerifyObjectKeeps, EndUploadKeeps, AnalysisKeeps,
     JobKeeps DEF DemosNext

\* DemosIInv is an inductive invariant of uploads, analyses and removals.
THEOREM DemosInvariant == DemosSpec => []DemosIInv
<1>. QED
  BY InitDemos, NextDemos, PTL DEF DemosSpec

\* The types of Demos (DemosTypeOK) hold in every reachable state.
THEOREM DemosTypes == DemosSpec => []DemosTypeOK
<1>1. DemosIInv => DemosTypeOK
  BY DEF DemosIInv
<1>. QED
  BY <1>1, DemosInvariant, PTL

\* The recording a match keeps is the one its row names, a removed one is gone
\* and one held by a report is there (demo-ingestion-service.ts,
\* retention-service.ts), whatever uploads, analyses and removals come in
\* between, but for the cases that marred and conflict name.
THEOREM RecordingIsKept == DemosSpec => []DemoIsWhatItSays
<1>1. DemosIInv => DemoIsWhatItSays
  <2> SUFFICES ASSUME DemosIInv, ~marred, ~conflict, \A u \in Upload : upload[u].pc = "idle"
               PROVE  /\ artifact.status \in Kept => object = artifact.sha
                      /\ artifact.status = "deleted" => object = "none"
                      /\ report = "held" => object # "none"
    BY DEF DemoIsWhatItSays
  <2>1. \A x : ObjectIs(x) => object = x
    BY DEF ObjectIs, Wrong
  <2>2. artifact.status \in Kept \cup {"invalid"} => object = artifact.sha /\ artifact.sha \in Bytes
    BY <2>1 DEF DemosIInv, Contents, RowShape, Kept
  <2>. QED
    BY <2>2, DemoAssumption DEF DemosIInv, RowShape, RemovalShape
<1>. QED
  BY <1>1, DemosInvariant, PTL

-----------------------------------------------------------------------------
(* The match plugin.                                                       *)

\* The kinds of timers, and the records a timer and a line are.
Timers == [kind : {"roster", "abandon", "empty", "limit"}, left : 0..Horizon, who : Member \cup {Nobody}]
LogLines ==
  [type : {"live", "aborted", "empty", "no_show", "abandoned"}, who : Member \cup {Nobody}, took : 0..Horizon]

\* The timer of an absence names a player.
AbandonsNameSomebody == \A t \in timers : t.kind = "abandon" => t.who \in Member

\* What a timer and a line that the plugin makes are.
LEMMA TimerShape ==
  ASSUME NEW k, NEW l, NEW w
  PROVE  /\ Timer(k, l, w).kind = k /\ Timer(k, l, w).left = l /\ Timer(k, l, w).who = w
         /\ k \in {"roster", "abandon", "empty", "limit"} /\ l \in 0..Horizon /\ w \in Member \cup {Nobody}
              => Timer(k, l, w) \in Timers
BY DEF Timer, Timers

\* The same of a line.
LEMMA LineShape ==
  ASSUME NEW k, NEW w, NEW l
  PROVE  /\ Line(k, w, l).type = k /\ Line(k, w, l).who = w /\ Line(k, w, l).took = l
         /\ k \in {"live", "aborted", "empty", "no_show", "abandoned"} /\ l \in 0..Horizon /\ w \in Member \cup {Nobody}
              => Line(k, w, l) \in LogLines
BY DEF Line, LogLines

\* Time that goes by.
LEMMA Ages ==
  /\ 0 \in 0..Horizon /\ 1 \in 0..Horizon
  /\ Grace \in 0..Horizon /\ EmptyGrace \in 0..Horizon /\ TimeLimit \in 0..Horizon
  /\ \A a \in 0..Horizon : /\ Older(a) \in 0..Horizon
                           /\ a < Horizon => Older(a) = a + 1
                           /\ Older(a) >= a
  /\ \A a, b \in 0..Horizon : Older(a) < Older(b) => a < b
  /\ \A a, b \in 0..Horizon : a <= b => Older(a) <= Older(b)
BY PluginAssumption DEF Older

\* A tick takes one from the time each timer has left, and no timer is lost or made.
LEMMA TickTypes ==
  ASSUME PluginTypeOK, Tick
  PROVE  /\ timers' \subseteq Timers
         /\ \A t \in timers : /\ t.left > 0
                              /\ \E u \in timers' : u.kind = t.kind /\ u.who = t.who /\ u.left = t.left - 1
         /\ \A u \in timers' : \E t \in timers :
              t.left > 0 /\ u.kind = t.kind /\ u.who = t.who /\ u.left = t.left - 1
<1>1. \A t \in timers : t.left > 0 /\ t \in Timers  BY DEF Tick, PluginTypeOK, Timers
<1>2. \A t \in timers : LET u == [t EXCEPT !.left = @ - 1] IN
        u \in Timers /\ u.kind = t.kind /\ u.who = t.who /\ u.left = t.left - 1
  BY <1>1, PluginAssumption DEF Timers
<1>3. timers' = {[t EXCEPT !.left = @ - 1] : t \in timers}  BY DEF Tick
<1> QED  BY <1>1, <1>2, <1>3

\* The lines of the players who never came.
LEMMA NoShowTypes ==
  ASSUME PluginTypeOK, NEW missing \in NoShowLines
  PROVE  /\ missing \in Seq(LogLines)
         /\ \A n \in DOMAIN missing : \E p \in NoShows : missing[n] = Line("no_show", p, spent)
<1>1. IsFiniteSet(NoShows) /\ NoShows \subseteq Member
  BY FS_Subset, PluginAssumption DEF NoShows, PluginTypeOK
<1>2. Cardinality(NoShows) \in Nat  BY <1>1, FS_CardinalityType
<1>3. PICK order \in [1..Cardinality(NoShows) -> NoShows] :
        missing = [i \in 1..Cardinality(NoShows) |-> Line("no_show", order[i], spent)]
  BY DEF NoShowLines
<1>4. \A i \in 1..Cardinality(NoShows) : order[i] \in NoShows /\ missing[i] = Line("no_show", order[i], spent)
  BY <1>3
<1>5. \A i \in 1..Cardinality(NoShows) : missing[i] \in LogLines
  <2>1. spent \in 0..Horizon  BY DEF PluginTypeOK
  <2>2. \A p \in NoShows : Line("no_show", p, spent) \in LogLines  BY <1>1, <2>1, LineShape
  <2> QED  BY <1>4, <2>2
<1>6. missing \in Seq(LogLines)  BY <1>2, <1>3, <1>5
<1> QED  BY <1>3, <1>4, <1>6

\* A disconnect keeps the types, ...
LEMMA DisconnectTypes ==
  ASSUME PluginTypeOK, NEW p \in Member, OnClientDisconnect(p)
  PROVE  PluginTypeOK' /\ (AbandonsNameSomebody => AbandonsNameSomebody')
<1>0. early' \subseteq Member
  BY DEF OnClientDisconnect, PluginTypeOK
<1>1. Timer("abandon", Grace, p) \in Timers /\ Timer("empty", EmptyGrace, Nobody) \in Timers
      /\ Timer("abandon", Grace, p).who = p /\ Timer("empty", EmptyGrace, Nobody).kind = "empty"
  BY TimerShape, Ages
<1>2. timers' \subseteq timers \cup {Timer("abandon", Grace, p), Timer("empty", EmptyGrace, Nobody)}
  BY DEF OnClientDisconnect, Watch
<1>3. gone' \in [Member -> 0..Horizon \cup {NotGone}]
  BY Ages DEF OnClientDisconnect, PluginTypeOK
<1>4. unseen' \in [Member -> 0..Horizon] /\ seat' \in [Member -> {"away", "authorized", "validated"}]
  BY Ages DEF OnClientDisconnect, PluginTypeOK
<1>5. timers' \subseteq Timers  BY <1>1, <1>2 DEF PluginTypeOK, Timers
<1>6. AbandonsNameSomebody => AbandonsNameSomebody'  BY <1>1, <1>2 DEF AbandonsNameSomebody
<1> QED  BY <1>0, <1>3, <1>4, <1>5, <1>6 DEF OnClientDisconnect, PluginTypeOK, Timers

\* ... and so do the preparation of a match ...
LEMMA PrepareTypes ==
  ASSUME PluginTypeOK, AbandonsNameSomebody, NEW old \in SUBSET timers, PrepareMatch(old),
         UNCHANGED <<mode, listed, lines>>, again' \in BOOLEAN,
         seat' \in [Member -> {"away", "authorized", "validated"}], unseen' \in [Member -> 0..Horizon]
  PROVE  PluginTypeOK' /\ AbandonsNameSomebody'
<1>1. Timer("roster", 1, Nobody) \in Timers /\ Timer("empty", EmptyGrace, Nobody) \in Timers
      /\ Timer("roster", 1, Nobody).kind = "roster" /\ Timer("empty", EmptyGrace, Nobody).kind = "empty"
  BY TimerShape, Ages
<1>2. timers' \subseteq timers \cup {Timer("roster", 1, Nobody), Timer("empty", EmptyGrace, Nobody)}
  BY DEF PrepareMatch
<1>3. timers' \subseteq Timers /\ AbandonsNameSomebody'
  BY <1>1, <1>2 DEF PluginTypeOK, Timers, AbandonsNameSomebody
<1> QED  BY <1>3, Ages DEF PrepareMatch, PluginTypeOK, Timers

\* ... and its start.
LEMMA BeginTypes ==
  ASSUME PluginTypeOK, AbandonsNameSomebody, NEW rest \in SUBSET timers, BeginMatch(rest),
         UNCHANGED <<mode, seat, listed, loaded, gone, unseen, again, early>>
  PROVE  PluginTypeOK' /\ AbandonsNameSomebody'
<1>1. Timer("limit", TimeLimit, Nobody) \in Timers /\ Timer("limit", TimeLimit, Nobody).kind = "limit"
  BY TimerShape, Ages
<1>2. timers' \subseteq timers \cup {Timer("limit", TimeLimit, Nobody)}  BY DEF BeginMatch
<1>3. timers' \subseteq Timers /\ AbandonsNameSomebody'
  BY <1>1, <1>2 DEF PluginTypeOK, Timers, AbandonsNameSomebody
<1>4. Line("live", Nobody, 0) \in LogLines  BY LineShape, Ages
<1>5. lines' \in Seq(LogLines)  BY <1>4 DEF BeginMatch, Write, PluginTypeOK, LogLines
<1> QED  BY <1>3, <1>5, Ages DEF BeginMatch, PluginTypeOK, Timers, LogLines

\* Initially everything has its type, ...
LEMMA InitPluginTypes ==
  ASSUME PluginInit
  PROVE  PluginTypeOK /\ AbandonsNameSomebody
<1>1. timers \subseteq Timers /\ lines \in Seq(LogLines)  BY DEF PluginInit
<1>2. listed \subseteq Member /\ loaded \subseteq listed  BY DEF PluginInit
<1>3. spent \in 0..Horizon /\ unseen \in [Member -> 0..Horizon]  BY PluginAssumption DEF PluginInit
<1>4. gone \in [Member -> 0..Horizon \cup {NotGone}] /\ seat \in [Member -> {"away", "authorized", "validated"}]
  BY DEF PluginInit
<1> QED  BY <1>1, <1>2, <1>3, <1>4 DEF PluginInit, PluginTypeOK, AbandonsNameSomebody, Timers, LogLines

\* ... and every step keeps it.
LEMMA NextPluginTypes ==
  ASSUME PluginTypeOK, AbandonsNameSomebody, [PluginNext]_pluginVars
  PROVE  PluginTypeOK' /\ AbandonsNameSomebody'
<1>1. CASE Configure \/ CommandPrepare \/ MapChanges
  <2>1. {} \in SUBSET timers /\ timers \in SUBSET timers /\ again' \in BOOLEAN
    BY <1>1 DEF Configure, CommandPrepare, MapChanges, PluginTypeOK
  <2>2. seat' \in [Member -> {"away", "authorized", "validated"}] /\ unseen' \in [Member -> 0..Horizon]
    <3>1. CASE Configure \/ CommandPrepare  BY <3>1 DEF Configure, CommandPrepare, PluginTypeOK
    <3>2. CASE MapChanges
      <4>1. seat' = [p \in Member |-> "away"] /\ unseen' = [p \in Member |-> IF p \in Present THEN 0 ELSE unseen[p]]
        BY <3>2 DEF MapChanges
      <4>2. unseen \in [Member -> 0..Horizon] /\ 0 \in 0..Horizon  BY Ages DEF PluginTypeOK
      <4> QED  BY <4>1, <4>2
    <3> QED  BY <1>1, <3>1, <3>2
  <2> QED  BY <1>1, <2>1, <2>2, PrepareTypes DEF Configure, CommandPrepare, MapChanges
<1>2. CASE ServerLost
  BY <1>2, Ages DEF ServerLost, PluginTypeOK, AbandonsNameSomebody
<1>3. CASE CommandSyncRoster \/ MatchEnds
  BY <1>3 DEF CommandSyncRoster, MatchEnds, PluginTypeOK, AbandonsNameSomebody
<1>4. ASSUME NEW p \in Member, RosterChanges(p) \/ OnClientAuthorized(p)
      PROVE  PluginTypeOK' /\ AbandonsNameSomebody'
  BY <1>4 DEF RosterChanges, OnClientAuthorized, PluginTypeOK, AbandonsNameSomebody
<1>5. ASSUME NEW p \in Member, Leave(p)
      PROVE  PluginTypeOK' /\ AbandonsNameSomebody'
  BY <1>5, DisconnectTypes DEF Leave
<1>6. ASSUME NEW p \in Member, ValidateClient(p)
      PROVE  PluginTypeOK' /\ AbandonsNameSomebody'
  <2>1. CASE OnClientDisconnect(p)  BY <2>1, DisconnectTypes
  <2>2. CASE ~OnClientDisconnect(p)
    <3>1. seat' = [seat EXCEPT ![p] = "validated"] /\ gone' \in {gone, [gone EXCEPT ![p] = NotGone]}
          /\ timers' \subseteq timers /\ UNCHANGED <<mode, phase, spent, listed, loaded, lines, unseen, again, early>>
      BY <1>6, <2>2 DEF ValidateClient
    <3> QED  BY <3>1 DEF PluginTypeOK, AbandonsNameSomebody
  <2> QED  BY <2>1, <2>2
<1>7. CASE CommandBegin
  BY <1>7, BeginTypes DEF CommandBegin
<1>8. CASE CommandAbort
  <2>1. Line("aborted", Nobody, 0) \in LogLines  BY LineShape, Ages
  <2>2. lines' \in Seq(LogLines)  BY <1>8, <2>1 DEF CommandAbort, Write, PluginTypeOK, LogLines
  <2> QED  BY <1>8, <2>2 DEF CommandAbort, PluginTypeOK, LogLines, AbandonsNameSomebody
<1>9. ASSUME NEW t \in timers, TimerCheckRoster(t)
      PROVE  PluginTypeOK' /\ AbandonsNameSomebody'
  <2> DEFINE rest == timers \ {t}
  <2>1. CASE BeginMatch(rest)  BY <1>9, <2>1, BeginTypes DEF TimerCheckRoster
  <2>2. CASE /\ phase' \in {phase, "aborted"} /\ timers' = rest /\ UNCHANGED spent
             /\ \/ UNCHANGED lines
                \/ \E missing \in NoShowLines : lines' = lines \o missing \o <<Line("aborted", Nobody, 0)>>
    <3>1. Line("aborted", Nobody, 0) \in LogLines  BY LineShape, Ages
    <3>3. lines \in Seq(LogLines)  BY DEF PluginTypeOK, LogLines
    <3>4. ASSUME NEW missing \in NoShowLines, lines' = lines \o missing \o <<Line("aborted", Nobody, 0)>>
          PROVE  lines' \in Seq(LogLines)
      <4>1. missing \in Seq(LogLines)  BY NoShowTypes
      <4>2. lines \o missing \in Seq(LogLines)  BY <3>3, <4>1
      <4>3. <<Line("aborted", Nobody, 0)>> \in Seq(LogLines)  BY <3>1
      <4> QED  BY <3>4, <4>2, <4>3
    <3>2. lines' \in Seq(LogLines)  BY <2>2, <3>3, <3>4
    <3> QED  BY <1>9, <2>2, <3>2 DEF TimerCheckRoster, PluginTypeOK, LogLines, AbandonsNameSomebody
  <2>3. CASE timers' = rest \cup {[t EXCEPT !.left = 1]} /\ UNCHANGED <<phase, spent, lines>>
    <3>1. t \in Timers  BY DEF PluginTypeOK, Timers
    <3>2. [t EXCEPT !.left = 1] \in Timers /\ [t EXCEPT !.left = 1].kind = t.kind /\ t.kind = "roster"
      BY <1>9, <3>1, Ages DEF TimerCheckRoster, Timers, Due, OfKind
    <3> QED  BY <1>9, <2>3, <3>2 DEF TimerCheckRoster, PluginTypeOK, Timers, AbandonsNameSomebody
  <2> QED  BY <1>9, <2>1, <2>2, <2>3 DEF TimerCheckRoster
<1>10. ASSUME NEW t \in timers, TimerCheckAbandon(t)
       PROVE  PluginTypeOK' /\ AbandonsNameSomebody'
  <2>1. t.who \in Member  BY <1>10 DEF TimerCheckAbandon, Due, OfKind, AbandonsNameSomebody
  <2>2. gone[t.who] # NotGone => Line("abandoned", t.who, gone[t.who]) \in LogLines
    BY <2>1, LineShape DEF PluginTypeOK
  <2>4. lines \in Seq(LogLines)  BY DEF PluginTypeOK, LogLines
  <2>5. lines' = lines \/ (gone[t.who] # NotGone /\ lines' = Append(lines, Line("abandoned", t.who, gone[t.who])))
    BY <1>10 DEF TimerCheckAbandon
  <2>3. lines' \in Seq(LogLines)  BY <2>2, <2>4, <2>5
  <2>6. early' \subseteq Member  BY <1>10, <2>1 DEF TimerCheckAbandon, PluginTypeOK
  <2> QED  BY <1>10, <2>3, <2>6 DEF TimerCheckAbandon, PluginTypeOK, LogLines, AbandonsNameSomebody
<1>11. ASSUME NEW t \in timers, TimerAbortEmpty(t)
       PROVE  PluginTypeOK' /\ AbandonsNameSomebody'
  <2>1. Line("empty", Nobody, 0) \in LogLines  BY LineShape, Ages
  <2> DEFINE line == Line("empty", Nobody, 0)
  <2>3. lines \in Seq(LogLines)  BY DEF PluginTypeOK, LogLines
  <2>4. lines' \in {lines, Append(lines, line)}  BY <1>11 DEF TimerAbortEmpty
  <2> HIDE DEF line
  <2>2. lines' \in Seq(LogLines)  BY <2>1, <2>3, <2>4 DEF line
  <2> QED  BY <1>11, <2>2 DEF TimerAbortEmpty, PluginTypeOK, LogLines, AbandonsNameSomebody
<1>12. ASSUME NEW t \in timers, TimerLimit(t)
       PROVE  PluginTypeOK' /\ AbandonsNameSomebody'
  BY <1>12 DEF TimerLimit, PluginTypeOK, AbandonsNameSomebody
<1>13. CASE Tick
  <2>1. timers' \subseteq Timers /\ AbandonsNameSomebody'  BY <1>13, TickTypes DEF AbandonsNameSomebody
  <2>2. spent' \in 0..Horizon /\ unseen' \in [Member -> 0..Horizon]
        /\ gone' \in [Member -> 0..Horizon \cup {NotGone}]
    BY <1>13, Ages DEF Tick, PluginTypeOK
  <2> QED  BY <1>13, <2>1, <2>2 DEF Tick, PluginTypeOK, Timers
<1>14. CASE UNCHANGED pluginVars
  BY <1>14 DEF pluginVars, PluginTypeOK, AbandonsNameSomebody
<1> QED
  BY <1>1, <1>2, <1>3, <1>4, <1>5, <1>6, <1>7, <1>8, <1>9, <1>10, <1>11, <1>12, <1>13, <1>14 DEF PluginNext

\* A competitive warmup is watched by a roster check that is due within the grace.
WarmupIsTimed ==
  phase = "warmup" /\ ~Deathmatch => \E t \in OfKind("roster") : t.left + spent <= Grace

\* A live deathmatch has a timer that is due at its limit.
LimitIsTimed ==
  phase = "live" /\ Deathmatch => \E t \in OfKind("limit") : t.left + spent <= TimeLimit

\* Who left a live competitive match is remembered from then on, and a timer is due at the
\* end of exactly this absence, until it has come too early.
AbsencesAreTimed ==
  phase = "live" /\ ~Deathmatch =>
    \A p \in loaded \ early : seat[p] = "away" /\ unseen[p] < spent =>
      /\ gone[p] = unseen[p]
      /\ \E t \in OfKind("abandon") : t.who = p /\ t.left + gone[p] = Grace

\* An absence is remembered only of a player of a competitive match that has begun, and not
\* longer than he was away.
GoneWhileAway ==
  \A p \in Member : gone[p] # NotGone =>
    /\ phase \notin {"idle", "warmup"} /\ ~Deathmatch /\ p \in loaded
    /\ (phase = "live" /\ seat[p] = "away") => gone[p] <= unseen[p]

\* A timer for an empty server belongs to a deathmatch, and when it is due who is away was
\* away for the whole grace.
EmptiesAreTimed ==
  \A t \in OfKind("empty") :
    /\ Deathmatch
    /\ Playing => \A p \in Member : seat[p] = "away" => t.left + unseen[p] >= EmptyGrace

\* In a match that was prepared once nothing is written before it is live, and a live match
\* has not been given up.
LogFollows == ~again =>
  /\ phase \in {"idle", "warmup"} => lines = <<>>
  /\ phase = "live" => /\ \E n \in DOMAIN lines : lines[n].type = "live"
                       /\ \A k \in DOMAIN lines : lines[k].type \notin {"aborted", "empty"}

\* Where a disconnect leaves a competitive match, and a deathmatch.
LEMMA DisconnectIs ==
  ASSUME PluginTypeOK, NEW p \in Member, OnClientDisconnect(p)
  PROVE  /\ UNCHANGED <<mode, phase, spent, listed, loaded, lines, again>>
         /\ seat'[p] = "away" /\ \A q \in Member \ {p} : seat'[q] = seat[q]
         /\ \A q \in Member \ {p} : gone'[q] = gone[q] /\ unseen'[q] = unseen[q]
         /\ unseen'[p] = IF p \in listed THEN 0 ELSE unseen[p]
         /\ early \subseteq early' \cup {p}
         /\ phase = "live" /\ ~Deathmatch /\ p \in loaded =>
              gone'[p] = 0 /\ timers' = timers \cup {Timer("abandon", Grace, p)}
         /\ ~(phase = "live" /\ ~Deathmatch /\ p \in loaded) => gone' = gone
         /\ Playing /\ Deathmatch =>
              timers' \in {timers \ OfKind("empty"), (timers \ OfKind("empty")) \cup {Timer("empty", EmptyGrace, Nobody)}}
         /\ ~(phase = "live" /\ ~Deathmatch /\ p \in loaded) /\ ~(Playing /\ Deathmatch) => timers' = timers
<1>1. /\ UNCHANGED <<mode, phase, spent, listed, loaded, lines, again>>
      /\ seat'[p] = "away" /\ \A q \in Member \ {p} : seat'[q] = seat[q]
      /\ \A q \in Member \ {p} : unseen'[q] = unseen[q]
      /\ unseen'[p] = IF p \in listed THEN 0 ELSE unseen[p]
      /\ early \subseteq early' \cup {p}
  BY DEF OnClientDisconnect, PluginTypeOK
<1>2. CASE phase = "live" /\ ~Deathmatch /\ p \in loaded
  <2>1. gone' = [gone EXCEPT ![p] = 0] /\ timers' = Watch(p)
    BY <1>2 DEF OnClientDisconnect
  <2> QED  BY <1>1, <1>2, <2>1 DEF PluginTypeOK, Watch
<1>3. CASE ~(phase = "live" /\ ~Deathmatch /\ p \in loaded)
  <2>1. CASE Playing /\ Deathmatch
    BY <1>1, <1>3, <2>1 DEF OnClientDisconnect
  <2>2. CASE ~(Playing /\ Deathmatch)
    BY <1>1, <1>3, <2>2 DEF OnClientDisconnect
  <2> QED  BY <2>1, <2>2
<1> QED  BY <1>2, <1>3

\* A client that may stay is seated, and is not missed any more.
LEMMA ValidateIs ==
  ASSUME PluginTypeOK, NEW p \in Member, ValidateClient(p), ~OnClientDisconnect(p)
  PROVE  /\ UNCHANGED <<mode, phase, spent, listed, loaded, lines, unseen, again, early>>
         /\ seat'[p] = "validated" /\ \A q \in Member \ {p} : seat'[q] = seat[q] /\ gone'[q] = gone[q]
         /\ gone'[p] \in {gone[p], NotGone}
         /\ timers' \in {timers, timers \ OfKind("empty")}
BY DEF ValidateClient, PluginTypeOK

\* The roster check starts the match, gives it up or looks again in a second.
LEMMA RosterCheckIs ==
  ASSUME PluginTypeOK, NEW t \in timers, TimerCheckRoster(t)
  PROVE  /\ t.kind = "roster" /\ t.left = 0 /\ UNCHANGED <<mode, seat, listed, loaded, gone, unseen, again, early>>
         /\ \/ phase # "warmup" /\ timers' = timers \ {t} /\ UNCHANGED <<phase, spent, lines>>
            \/ phase = "warmup" /\ Everybody /\ BeginMatch(timers \ {t})
            \/ /\ phase = "warmup" /\ ~Deathmatch /\ spent >= Grace
               /\ phase' = "aborted" /\ timers' = timers \ {t} /\ UNCHANGED spent
               /\ \E missing \in NoShowLines : lines' = lines \o missing \o <<Line("aborted", Nobody, 0)>>
            \/ /\ phase = "warmup" /\ (Deathmatch \/ ~(spent >= Grace))
               /\ \E u \in Timers : /\ u.kind = "roster" /\ u.left = 1
                                    /\ timers' = (timers \ {t}) \cup {u}
               /\ UNCHANGED <<phase, spent, lines>>
<1>1. t.kind = "roster" /\ t.left = 0 /\ UNCHANGED <<mode, seat, listed, loaded, gone, unseen, again, early>>
  BY DEF TimerCheckRoster, Due, OfKind
<1>2. t \in Timers  BY DEF PluginTypeOK, Timers
<1>3. [t EXCEPT !.left = 1] \in Timers /\ [t EXCEPT !.left = 1].kind = "roster" /\ [t EXCEPT !.left = 1].left = 1
  BY <1>1, <1>2, Ages DEF Timers
<1>4. CASE phase # "warmup"  BY <1>1, <1>4 DEF TimerCheckRoster
<1>5. CASE phase = "warmup"
  <2>1. PICK autoStart \in BOOLEAN :
          \/ autoStart /\ Everybody /\ BeginMatch(timers \ {t})
          \/ /\ ~Deathmatch /\ spent >= Grace /\ phase' = "aborted" /\ timers' = timers \ {t}
             /\ \E missing \in NoShowLines : lines' = lines \o missing \o <<Line("aborted", Nobody, 0)>>
             /\ UNCHANGED spent
          \/ /\ Deathmatch \/ ~(spent >= Grace)
             /\ timers' = (timers \ {t}) \cup {[t EXCEPT !.left = 1]} /\ UNCHANGED <<phase, spent, lines>>
    BY <1>5 DEF TimerCheckRoster
  <2> QED  BY <1>1, <1>3, <1>5, <2>1
<1> QED  BY <1>4, <1>5

\* The check of an absence forgets it, forfeits the match, comes too early or leaves things
\* as they are.
LEMMA AbandonCheckIs ==
  ASSUME PluginTypeOK, AbandonsNameSomebody, NEW t \in timers, TimerCheckAbandon(t)
  PROVE  /\ t.kind = "abandon" /\ t.left = 0 /\ t.who \in Member
         /\ timers' = timers \ {t} /\ UNCHANGED <<mode, spent, seat, listed, loaded, unseen, again>>
         /\ early \subseteq early' /\ early' \subseteq Member
         /\ \/ UNCHANGED <<phase, gone, lines>>
               /\ ~(phase = "live" /\ gone[t.who] # NotGone /\ seat[t.who] = "away" /\ gone[t.who] >= Grace)
            \/ /\ phase = "live" /\ (gone[t.who] = NotGone \/ seat[t.who] # "away")
               /\ gone' = [gone EXCEPT ![t.who] = NotGone] /\ UNCHANGED <<phase, lines>>
            \/ /\ phase = "live" /\ gone[t.who] # NotGone /\ seat[t.who] = "away" /\ gone[t.who] >= Grace
               /\ phase' = "ended" /\ lines' = Append(lines, Line("abandoned", t.who, gone[t.who])) /\ UNCHANGED gone
            \/ /\ phase = "live" /\ gone[t.who] # NotGone /\ seat[t.who] = "away" /\ gone[t.who] >= Grace
               /\ t.who \in early' /\ UNCHANGED <<phase, gone, lines>>
<1>1. t.kind = "abandon" /\ t.left = 0 /\ t.who \in Member
  BY DEF TimerCheckAbandon, Due, OfKind, AbandonsNameSomebody
<1>2. early \subseteq Member  BY DEF PluginTypeOK
<1> QED  BY <1>1, <1>2 DEF TimerCheckAbandon

\* What a step needs from the types: the parts of a timer and the times are numbers.
LEMMA Times ==
  ASSUME PluginTypeOK
  PROVE  /\ \A t \in timers : t \in Timers /\ t.left \in 0..Horizon
         /\ spent \in 0..Horizon
         /\ \A p \in Member : unseen[p] \in 0..Horizon /\ gone[p] \in 0..Horizon \cup {NotGone}
         /\ loaded \subseteq Member /\ listed \subseteq Member /\ loaded \subseteq listed
BY DEF PluginTypeOK, Timers

\* A tick changes nothing but the ages.
LEMMA TickIs ==
  ASSUME PluginTypeOK, Tick
  PROVE  /\ UNCHANGED <<mode, phase, seat, listed, loaded, lines, again, early>> /\ spent' = Older(spent)
         /\ \A p \in Member : /\ unseen'[p] = Older(unseen[p])
                              /\ gone'[p] = IF gone[p] = NotGone THEN NotGone ELSE Older(gone[p])
BY DEF Tick, PluginTypeOK

\* Every step keeps the warmup timed: the check that is repeated runs out with the grace.
LEMMA WarmupStaysTimed ==
  ASSUME PluginTypeOK, AbandonsNameSomebody, WarmupIsTimed, [PluginNext]_pluginVars
  PROVE  WarmupIsTimed'
<1>1. CASE Configure \/ CommandPrepare \/ MapChanges
  <2>1. Timer("roster", 1, Nobody) \in timers' /\ spent' = 0
    BY <1>1 DEF Configure, CommandPrepare, MapChanges, PrepareMatch
  <2>2. Timer("roster", 1, Nobody).kind = "roster" /\ Timer("roster", 1, Nobody).left = 1  BY TimerShape
  <2>3. 1 + 0 <= Grace  BY PluginAssumption
  <2> QED  BY <2>1, <2>2, <2>3 DEF WarmupIsTimed, OfKind
<1>2. CASE ServerLost \/ MatchEnds \/ CommandAbort \/ CommandBegin
  BY <1>2 DEF ServerLost, MatchEnds, CommandAbort, CommandBegin, BeginMatch, WarmupIsTimed
<1>3. CASE UNCHANGED <<mode, phase, spent, timers>>
  BY <1>3 DEF WarmupIsTimed, Deathmatch, OfKind
<1>4. ASSUME NEW p \in Member, OnClientDisconnect(p)
      PROVE  WarmupIsTimed'
  BY <1>4, DisconnectIs DEF WarmupIsTimed, Deathmatch, OfKind
<1>5. ASSUME NEW p \in Member, ValidateClient(p), ~OnClientDisconnect(p)
      PROVE  WarmupIsTimed'
  BY <1>5, ValidateIs DEF WarmupIsTimed, Deathmatch, OfKind
<1>6. ASSUME NEW t \in timers, TimerCheckRoster(t)
      PROVE  WarmupIsTimed'
  <2>1. CASE phase # "warmup" /\ UNCHANGED phase  BY <2>1 DEF WarmupIsTimed
  <2>2. CASE phase' \in {"live", "aborted"}  BY <2>2 DEF WarmupIsTimed
  <2>3. ASSUME ~Deathmatch, ~(spent >= Grace), NEW u \in Timers, u.kind = "roster", u.left = 1,
               timers' = (timers \ {t}) \cup {u}, UNCHANGED spent
        PROVE  WarmupIsTimed'
    <3>1. u.left + spent <= Grace  BY <2>3, Times, PluginAssumption
    <3> QED  BY <2>3, <3>1 DEF WarmupIsTimed, OfKind
  <2>4. UNCHANGED mode  BY <1>6, RosterCheckIs
  <2> QED  BY <1>6, <2>1, <2>2, <2>3, <2>4, RosterCheckIs DEF BeginMatch, WarmupIsTimed, Deathmatch
<1>7. ASSUME NEW t \in timers, TimerCheckAbandon(t) \/ TimerAbortEmpty(t) \/ TimerLimit(t)
      PROVE  WarmupIsTimed'
  <2>1. t.kind # "roster" /\ timers' = timers \ {t} /\ UNCHANGED <<mode, spent>>
    BY <1>7 DEF TimerCheckAbandon, TimerAbortEmpty, TimerLimit, Due, OfKind
  <2>2. phase' \in {phase, "ended", "aborted"}
    BY <1>7, AbandonCheckIs DEF TimerAbortEmpty, TimerLimit
  <2> QED  BY <2>1, <2>2 DEF WarmupIsTimed, Deathmatch, OfKind
<1>8. CASE Tick
  <2>1. SUFFICES ASSUME phase = "warmup", ~Deathmatch
                 PROVE  \E t \in OfKind("roster")' : t.left + spent' <= Grace
    BY <1>8 DEF Tick, WarmupIsTimed, Deathmatch
  <2>2. PICK t \in timers : t.kind = "roster" /\ t.left + spent <= Grace
    BY <2>1 DEF WarmupIsTimed, OfKind
  <2>3. PICK u \in timers' : u.kind = "roster" /\ u.left = t.left - 1 /\ t.left > 0
    BY <1>8, <2>2, TickTypes
  <2>4. t.left \in Nat /\ spent \in 0..Horizon  BY Times
  <2>5. spent' = spent + 1  BY <1>8, <2>2, <2>3, <2>4, Ages, PluginAssumption DEF Tick
  <2>6. u.left + spent' <= Grace  BY <2>2, <2>3, <2>4, <2>5, PluginAssumption
  <2> QED  BY <2>3, <2>6 DEF OfKind
<1> QED
  BY <1>1, <1>2, <1>3, <1>4, <1>5, <1>6, <1>7, <1>8
  DEF PluginNext, pluginVars, CommandSyncRoster, RosterChanges, OnClientAuthorized, Leave

\* Every step keeps the limit timed: it is set when the match begins, and ends it when due.
LEMMA LimitStaysTimed ==
  ASSUME PluginTypeOK, AbandonsNameSomebody, LimitIsTimed, [PluginNext]_pluginVars
  PROVE  LimitIsTimed'
<1>1. CASE Configure \/ CommandPrepare \/ MapChanges \/ ServerLost \/ MatchEnds \/ CommandAbort
  BY <1>1 DEF Configure, CommandPrepare, MapChanges, PrepareMatch, ServerLost, MatchEnds, CommandAbort, LimitIsTimed
<1>2. ASSUME NEW rest \in SUBSET timers, BeginMatch(rest), UNCHANGED mode
      PROVE  LimitIsTimed'
  <2>1. Deathmatch => Timer("limit", TimeLimit, Nobody) \in timers'  BY <1>2 DEF BeginMatch
  <2>2. Timer("limit", TimeLimit, Nobody).kind = "limit" /\ Timer("limit", TimeLimit, Nobody).left = TimeLimit
    BY TimerShape
  <2>3. spent' = 0 /\ TimeLimit + 0 <= TimeLimit  BY <1>2, PluginAssumption DEF BeginMatch
  <2> QED  BY <1>2, <2>1, <2>2, <2>3 DEF LimitIsTimed, Deathmatch, OfKind
<1>3. CASE UNCHANGED <<mode, phase, spent, timers>>
  BY <1>3 DEF LimitIsTimed, Deathmatch, OfKind
<1>4. ASSUME NEW p \in Member, OnClientDisconnect(p)
      PROVE  LimitIsTimed'
  <2>1. UNCHANGED <<mode, phase, spent>>  BY <1>4, DisconnectIs
  <2>2. phase = "live" /\ Deathmatch => timers \ OfKind("empty") \subseteq timers'
    BY <1>4, DisconnectIs DEF Playing
  <2> QED  BY <2>1, <2>2 DEF LimitIsTimed, Deathmatch, OfKind
<1>5. ASSUME NEW p \in Member, ValidateClient(p), ~OnClientDisconnect(p)
      PROVE  LimitIsTimed'
  BY <1>5, ValidateIs DEF LimitIsTimed, Deathmatch, OfKind
<1>6. ASSUME NEW t \in timers, TimerCheckRoster(t)
      PROVE  LimitIsTimed'
  <2>1. t.kind = "roster" /\ UNCHANGED mode  BY <1>6, RosterCheckIs
  <2>2. CASE phase' = phase /\ spent' = spent /\ timers \ {t} \subseteq timers'
    BY <2>1, <2>2 DEF LimitIsTimed, Deathmatch, OfKind
  <2>3. CASE phase' = "aborted"  BY <2>3 DEF LimitIsTimed
  <2>4. CASE BeginMatch(timers \ {t})  BY <1>2, <2>1, <2>4
  <2> QED  BY <1>6, <2>2, <2>3, <2>4, RosterCheckIs
<1>7. ASSUME NEW t \in timers, TimerCheckAbandon(t) \/ TimerAbortEmpty(t) \/ TimerLimit(t)
      PROVE  LimitIsTimed'
  <2>1. timers' = timers \ {t} /\ UNCHANGED <<mode, spent>>
        /\ (t.kind = "limit" => ~(phase' = "live" /\ Deathmatch))
    BY <1>7 DEF TimerCheckAbandon, TimerAbortEmpty, TimerLimit, Due, OfKind
  <2>2. phase' \in {phase, "ended", "aborted"}
    BY <1>7, AbandonCheckIs DEF TimerAbortEmpty, TimerLimit
  <2> QED  BY <2>1, <2>2 DEF LimitIsTimed, Deathmatch, OfKind
<1>8. CASE Tick
  <2>1. SUFFICES ASSUME phase = "live", Deathmatch
                 PROVE  \E t \in OfKind("limit")' : t.left + spent' <= TimeLimit
    BY <1>8 DEF Tick, LimitIsTimed, Deathmatch
  <2>2. PICK t \in timers : t.kind = "limit" /\ t.left + spent <= TimeLimit
    BY <2>1 DEF LimitIsTimed, OfKind
  <2>3. PICK u \in timers' : u.kind = "limit" /\ u.left = t.left - 1 /\ t.left > 0
    BY <1>8, <2>2, TickTypes
  <2>4. t.left \in Nat /\ spent \in 0..Horizon  BY Times
  <2>5. spent' = spent + 1  BY <1>8, <2>2, <2>3, <2>4, Ages, PluginAssumption DEF Tick
  <2>6. u.left + spent' <= TimeLimit  BY <2>2, <2>3, <2>4, <2>5, PluginAssumption
  <2> QED  BY <2>3, <2>6 DEF OfKind
<1> QED
  BY <1>1, <1>2, <1>3, <1>4, <1>5, <1>6, <1>7, <1>8
  DEF PluginNext, pluginVars, CommandBegin, CommandSyncRoster, RosterChanges, OnClientAuthorized, Leave

\* Every step keeps the absences timed: the timer of an absence is due when the grace is
\* over and not before, so that a timer of an earlier one cannot be taken for it.
LEMMA AbsencesStayTimed ==
  ASSUME PluginTypeOK, AbandonsNameSomebody, AbsencesAreTimed, GoneWhileAway, [PluginNext]_pluginVars
  PROVE  AbsencesAreTimed'
<1>1. CASE Configure \/ CommandPrepare \/ MapChanges \/ ServerLost \/ MatchEnds \/ CommandAbort
  BY <1>1 DEF Configure, CommandPrepare, MapChanges, PrepareMatch, ServerLost, MatchEnds, CommandAbort, AbsencesAreTimed
<1>2. ASSUME NEW rest \in SUBSET timers, BeginMatch(rest), UNCHANGED <<loaded, unseen, early>>
      PROVE  AbsencesAreTimed'
  <2>1. spent' = 0  BY <1>2 DEF BeginMatch
  <2>2. \A p \in loaded' : ~(unseen'[p] < spent')  BY <1>2, <2>1, Times
  <2> QED  BY <2>2 DEF AbsencesAreTimed
<1>3. CASE CommandSyncRoster
  BY <1>3 DEF CommandSyncRoster, AbsencesAreTimed, Deathmatch
<1>4. CASE UNCHANGED <<mode, phase, spent, seat, loaded, gone, timers, unseen, early>>
  BY <1>4 DEF AbsencesAreTimed, Deathmatch, OfKind
<1>5. ASSUME NEW p \in Member, OnClientAuthorized(p)
      PROVE  AbsencesAreTimed'
  <2>1. seat'[p] # "away" /\ \A q \in Member \ {p} : seat'[q] = seat[q]
    BY <1>5 DEF OnClientAuthorized, PluginTypeOK
  <2>2. loaded \subseteq Member  BY Times
  <2> QED  BY <1>5, <2>1, <2>2 DEF OnClientAuthorized, AbsencesAreTimed, Deathmatch, OfKind
<1>6. ASSUME NEW p \in Member, OnClientDisconnect(p)
      PROVE  AbsencesAreTimed'
  <2>1. SUFFICES ASSUME phase = "live", ~Deathmatch, NEW q \in loaded \ early', seat'[q] = "away", unseen'[q] < spent
                 PROVE  /\ gone'[q] = unseen'[q]
                        /\ \E t \in OfKind("abandon")' : t.who = q /\ t.left + gone'[q] = Grace
    <3>1. UNCHANGED <<mode, phase, spent, loaded>>  BY <1>6, DisconnectIs
    <3> QED  BY <3>1 DEF AbsencesAreTimed, Deathmatch
  <2>2. timers \subseteq timers'  BY <1>6, <2>1, DisconnectIs DEF Playing
  <2>3. CASE q = p
    <3>1. p \in listed  BY <2>3, Times
    <3>2. gone'[p] = 0 /\ unseen'[p] = 0 /\ Timer("abandon", Grace, p) \in timers'
      BY <1>6, <2>1, <2>3, <3>1, DisconnectIs
    <3>3. Timer("abandon", Grace, p).kind = "abandon" /\ Timer("abandon", Grace, p).who = p
          /\ Timer("abandon", Grace, p).left + 0 = Grace
      BY TimerShape, PluginAssumption
    <3> QED  BY <2>3, <3>2, <3>3 DEF OfKind
  <2>4. CASE q # p
    <3>1. seat'[q] = seat[q] /\ gone'[q] = gone[q] /\ unseen'[q] = unseen[q] /\ q \notin early
      BY <1>6, <2>1, <2>4, DisconnectIs, Times
    <3>2. gone[q] = unseen[q] /\ \E t \in timers : t.kind = "abandon" /\ t.who = q /\ t.left + gone[q] = Grace
      BY <2>1, <3>1 DEF AbsencesAreTimed, OfKind
    <3> QED  BY <2>2, <3>1, <3>2 DEF OfKind
  <2> QED  BY <2>3, <2>4
<1>7. ASSUME NEW p \in Member, ValidateClient(p), ~OnClientDisconnect(p)
      PROVE  AbsencesAreTimed'
  <2>1. /\ UNCHANGED <<mode, phase, spent, loaded, unseen, early>> /\ seat'[p] # "away"
        /\ \A q \in Member \ {p} : seat'[q] = seat[q] /\ gone'[q] = gone[q]
        /\ timers \ OfKind("empty") \subseteq timers'
    BY <1>7, ValidateIs
  <2>2. loaded \subseteq Member  BY Times
  <2> QED  BY <2>1, <2>2 DEF AbsencesAreTimed, Deathmatch, OfKind
<1>8. ASSUME NEW t \in timers, TimerCheckRoster(t)
      PROVE  AbsencesAreTimed'
  <2>1. t.kind = "roster" /\ UNCHANGED <<mode, seat, loaded, gone, unseen, early>>  BY <1>8, RosterCheckIs
  <2>2. CASE phase' = phase /\ spent' = spent /\ timers \ {t} \subseteq timers'
    BY <2>1, <2>2 DEF AbsencesAreTimed, Deathmatch, OfKind
  <2>3. CASE phase' = "aborted"  BY <2>3 DEF AbsencesAreTimed
  <2>4. CASE BeginMatch(timers \ {t})  BY <1>2, <2>1, <2>4
  <2> QED  BY <1>8, <2>2, <2>3, <2>4, RosterCheckIs
<1>9. ASSUME NEW t \in timers, TimerCheckAbandon(t)
      PROVE  AbsencesAreTimed'
  <2>1. SUFFICES ASSUME phase = "live", phase' = "live", ~Deathmatch, NEW q \in loaded \ early', seat[q] = "away", unseen[q] < spent
                 PROVE  /\ gone'[q] = unseen[q]
                        /\ \E u \in OfKind("abandon")' : u.who = q /\ u.left + gone'[q] = Grace
    <3>1. UNCHANGED <<mode, spent, seat, loaded, unseen>> /\ phase' \in {phase, "ended"}  BY <1>9, AbandonCheckIs
    <3> QED  BY <3>1 DEF AbsencesAreTimed, Deathmatch
  <2>0. q \in loaded \ early  BY <1>9, <2>1, AbandonCheckIs
  <2>2. gone[q] = unseen[q] /\ q \in Member /\ gone[q] # NotGone
    BY <2>0, <2>1, Times DEF AbsencesAreTimed, NotGone
  <2>3. PICK u \in timers : u.kind = "abandon" /\ u.who = q /\ u.left + gone[q] = Grace
    BY <2>0, <2>1 DEF AbsencesAreTimed, OfKind
  <2>4. gone'[q] = gone[q]
    BY <1>9, <2>1, <2>2, AbandonCheckIs DEF PluginTypeOK
  <2>5. u # t
    <3>1. SUFFICES ASSUME u = t PROVE FALSE  OBVIOUS
    <3>2. t.left = 0 /\ t.who = q /\ gone[q] \in Int  BY <1>9, <2>2, <2>3, <3>1, AbandonCheckIs, Times
    <3>3. gone[q] >= Grace  BY <2>3, <3>1, <3>2, PluginAssumption
    <3> QED  BY <1>9, <2>1, <2>2, <3>2, <3>3, AbandonCheckIs
  <2> QED  BY <1>9, <2>2, <2>3, <2>4, <2>5, AbandonCheckIs DEF OfKind
<1>10. ASSUME NEW t \in timers, TimerAbortEmpty(t) \/ TimerLimit(t)
       PROVE  AbsencesAreTimed'
  <2>1. t.kind # "abandon" /\ timers' = timers \ {t} /\ UNCHANGED <<mode, spent, seat, loaded, gone, unseen, early>>
        /\ phase' \in {phase, "ended", "aborted"}
    BY <1>10 DEF TimerAbortEmpty, TimerLimit, Due, OfKind
  <2> QED  BY <2>1 DEF AbsencesAreTimed, Deathmatch, OfKind
<1>11. CASE Tick
  <2>1. SUFFICES ASSUME phase = "live", ~Deathmatch, NEW q \in loaded \ early, seat[q] = "away", unseen'[q] < spent'
                 PROVE  /\ gone'[q] = unseen'[q]
                        /\ \E t \in OfKind("abandon")' : t.who = q /\ t.left + gone'[q] = Grace
    BY <1>11, TickIs DEF AbsencesAreTimed, Deathmatch
  <2>2. q \in Member /\ unseen[q] \in 0..Horizon /\ spent \in 0..Horizon  BY Times
  <2>3. unseen[q] < spent  BY <1>11, <2>1, <2>2, TickIs, Ages
  <2>4. gone[q] = unseen[q] /\ gone[q] # NotGone  BY <2>1, <2>2, <2>3 DEF AbsencesAreTimed, NotGone
  <2>5. PICK t \in timers : t.kind = "abandon" /\ t.who = q /\ t.left + gone[q] = Grace
    BY <2>1, <2>3 DEF AbsencesAreTimed, OfKind
  <2>6. PICK u \in timers' : u.kind = "abandon" /\ u.who = q /\ u.left = t.left - 1 /\ t.left > 0
    BY <1>11, <2>5, TickTypes
  <2>7. t.left \in Nat  BY Times
  <2>8. gone'[q] = gone[q] + 1 /\ unseen'[q] = unseen[q] + 1
    <3>1. gone[q] < Horizon  BY <2>2, <2>4, <2>5, <2>6, <2>7, PluginAssumption
    <3> QED  BY <1>11, <2>2, <2>4, <3>1, TickIs, Ages
  <2>9. u.left + gone'[q] = Grace  BY <2>2, <2>4, <2>5, <2>6, <2>7, <2>8, PluginAssumption
  <2> QED  BY <2>4, <2>6, <2>8, <2>9 DEF OfKind
<1> QED
  BY <1>1, <1>2, <1>3, <1>4, <1>5, <1>6, <1>7, <1>8, <1>9, <1>10, <1>11
  DEF PluginNext, pluginVars, CommandBegin, RosterChanges, Leave

\* Every step keeps what is remembered of the absences.
LEMMA GoneStaysWhileAway ==
  ASSUME PluginTypeOK, AbandonsNameSomebody, GoneWhileAway, [PluginNext]_pluginVars
  PROVE  GoneWhileAway'
<1>1. CASE Configure \/ CommandPrepare \/ MapChanges \/ ServerLost
  BY <1>1 DEF Configure, CommandPrepare, MapChanges, PrepareMatch, ServerLost, GoneWhileAway
<1>3. CASE CommandSyncRoster
  BY <1>3 DEF CommandSyncRoster, GoneWhileAway, Deathmatch
<1>4. CASE UNCHANGED <<mode, phase, seat, loaded, gone, unseen>>
  BY <1>4 DEF GoneWhileAway, Deathmatch
<1>5. ASSUME NEW p \in Member, OnClientAuthorized(p)
      PROVE  GoneWhileAway'
  <2>1. seat'[p] # "away" /\ \A q \in Member \ {p} : seat'[q] = seat[q]
    BY <1>5 DEF OnClientAuthorized, PluginTypeOK
  <2> QED  BY <1>5, <2>1 DEF OnClientAuthorized, GoneWhileAway, Deathmatch
<1>6. ASSUME NEW p \in Member, OnClientDisconnect(p)
      PROVE  GoneWhileAway'
  <2>1. UNCHANGED <<mode, phase, loaded>>  BY <1>6, DisconnectIs
  <2>2. \A q \in Member \ {p} : seat'[q] = seat[q] /\ gone'[q] = gone[q] /\ unseen'[q] = unseen[q]
    BY <1>6, DisconnectIs
  <2>3. gone'[p] # NotGone => /\ phase \notin {"idle", "warmup"} /\ ~Deathmatch /\ p \in loaded
                              /\ phase = "live" => gone'[p] <= unseen'[p]
    <3>1. CASE phase = "live" /\ ~Deathmatch /\ p \in loaded
      <4>1. gone'[p] = 0 /\ unseen'[p] = 0  BY <1>6, <3>1, DisconnectIs, Times
      <4> QED  BY <3>1, <4>1
    <3>2. CASE ~(phase = "live" /\ ~Deathmatch /\ p \in loaded)
      <4>1. gone' = gone  BY <1>6, <3>2, DisconnectIs
      <4> QED  BY <3>2, <4>1 DEF GoneWhileAway
    <3> QED  BY <3>1, <3>2
  <2> QED  BY <2>1, <2>2, <2>3 DEF GoneWhileAway, Deathmatch
<1>7. ASSUME NEW p \in Member, ValidateClient(p), ~OnClientDisconnect(p)
      PROVE  GoneWhileAway'
  <2>1. /\ UNCHANGED <<mode, phase, loaded, unseen>> /\ seat'[p] # "away"
        /\ \A q \in Member \ {p} : seat'[q] = seat[q] /\ gone'[q] = gone[q]
        /\ gone'[p] \in {gone[p], NotGone}
    BY <1>7, ValidateIs
  <2> QED  BY <2>1 DEF GoneWhileAway, Deathmatch
<1>8. ASSUME NEW t \in timers, TimerCheckRoster(t)
      PROVE  GoneWhileAway'
  <2>1. UNCHANGED <<mode, seat, loaded, gone, unseen>>
        /\ (phase' = phase \/ (phase = "warmup" /\ phase' \in {"live", "aborted"}))
    BY <1>8, RosterCheckIs DEF BeginMatch
  <2> QED  BY <2>1 DEF GoneWhileAway, Deathmatch
<1>9. ASSUME NEW t \in timers, TimerCheckAbandon(t)
      PROVE  GoneWhileAway'
  <2>1. UNCHANGED <<mode, seat, loaded, unseen>>  BY <1>9, AbandonCheckIs
  <2>2. \/ UNCHANGED <<phase, gone>>
        \/ phase = "live" /\ phase' = "ended" /\ UNCHANGED gone
        \/ t.who \in Member /\ gone' = [gone EXCEPT ![t.who] = NotGone] /\ UNCHANGED phase
    BY <1>9, AbandonCheckIs
  <2>3. \A q \in Member : gone'[q] \in {gone[q], NotGone}  BY <2>2 DEF PluginTypeOK
  <2> QED  BY <2>1, <2>2, <2>3 DEF GoneWhileAway, Deathmatch
<1>10. CASE Tick
  <2>1. UNCHANGED <<mode, phase, seat, loaded>>  BY <1>10, TickIs
  <2>2. \A q \in Member : /\ gone'[q] # NotGone => gone[q] # NotGone
                          /\ gone[q] # NotGone /\ gone[q] <= unseen[q] => gone'[q] <= unseen'[q]
    BY <1>10, TickIs, Ages, Times
  <2> QED  BY <2>1, <2>2 DEF GoneWhileAway, Deathmatch
<1>11. ASSUME NEW t \in timers, TimerAbortEmpty(t) \/ TimerLimit(t)
       PROVE  GoneWhileAway'
  <2>1. UNCHANGED <<mode, seat, loaded, gone, unseen>> /\ (phase' = phase \/ phase' \in {"ended", "aborted"})
    BY <1>11 DEF TimerAbortEmpty, TimerLimit
  <2> QED  BY <2>1 DEF GoneWhileAway, Deathmatch
<1>12. CASE CommandBegin \/ MatchEnds \/ CommandAbort
  BY <1>12 DEF CommandBegin, BeginMatch, MatchEnds, CommandAbort, GoneWhileAway, Deathmatch
<1> QED
  BY <1>1, <1>3, <1>4, <1>5, <1>6, <1>7, <1>8, <1>9, <1>10, <1>11, <1>12
  DEF PluginNext, pluginVars, RosterChanges, Leave

\* Every step keeps the timers of an empty server: whoever leaves sets them anew.
LEMMA EmptiesStayTimed ==
  ASSUME PluginTypeOK, AbandonsNameSomebody, EmptiesAreTimed, [PluginNext]_pluginVars
  PROVE  EmptiesAreTimed'
<1>1. ASSUME NEW old, PrepareMatch(old), UNCHANGED mode
      PROVE  EmptiesAreTimed'
  <2>1. Timer("roster", 1, Nobody).kind = "roster" /\ Timer("empty", EmptyGrace, Nobody).left = EmptyGrace
    BY TimerShape
  <2>2. \A t \in timers' : t.kind = "empty" => Deathmatch /\ t.left = EmptyGrace
    BY <1>1, <2>1 DEF PrepareMatch
  <2>3. \A p \in Member : unseen'[p] \in Nat
    BY NextPluginTypes DEF PluginTypeOK
  <2> QED  BY <1>1, <2>2, <2>3, PluginAssumption DEF EmptiesAreTimed, Deathmatch, OfKind
<1>2. CASE ServerLost
  BY <1>2 DEF ServerLost, EmptiesAreTimed, OfKind
<1>3. ASSUME UNCHANGED <<mode, seat, unseen>>, Playing' => Playing,
             \A t \in timers' : t.kind = "empty" => t \in timers
      PROVE  EmptiesAreTimed'
  BY <1>3 DEF EmptiesAreTimed, Deathmatch, OfKind
<1>4. ASSUME NEW rest \in SUBSET timers, BeginMatch(rest), phase = "warmup", UNCHANGED <<mode, seat, unseen>>
      PROVE  EmptiesAreTimed'
  <2>1. Timer("limit", TimeLimit, Nobody).kind = "limit"  BY TimerShape
  <2> QED  BY <1>3, <1>4, <2>1 DEF BeginMatch, Playing
<1>5. ASSUME NEW p \in Member, OnClientAuthorized(p)
      PROVE  EmptiesAreTimed'
  <2>1. seat'[p] # "away" /\ \A q \in Member \ {p} : seat'[q] = seat[q]
    BY <1>5 DEF OnClientAuthorized, PluginTypeOK
  <2> QED  BY <1>5, <2>1 DEF OnClientAuthorized, EmptiesAreTimed, Deathmatch, Playing, OfKind
<1>6. ASSUME NEW p \in Member, OnClientDisconnect(p)
      PROVE  EmptiesAreTimed'
  <2>1. UNCHANGED <<mode, phase>>  BY <1>6, DisconnectIs
  <2>2. \A q \in Member : unseen'[q] \in Nat  BY NextPluginTypes, <1>6, DisconnectTypes DEF PluginTypeOK
  <2>3. Timer("empty", EmptyGrace, Nobody).left = EmptyGrace /\ Timer("abandon", Grace, p).kind = "abandon"
    BY TimerShape
  <2>4. CASE Playing /\ Deathmatch
    <3>1. \A t \in timers' : t.kind = "empty" => t.left = EmptyGrace
      BY <1>6, <2>3, <2>4, DisconnectIs DEF OfKind
    <3> QED  BY <2>1, <2>2, <2>4, <3>1, PluginAssumption DEF EmptiesAreTimed, Deathmatch, OfKind
  <2>5. CASE ~(Playing /\ Deathmatch)
    <3>1. \A t \in timers' : t.kind = "empty" => t \in timers
      BY <1>6, <2>3, <2>5, DisconnectIs DEF Playing
    <3> QED  BY <2>1, <2>5, <3>1 DEF EmptiesAreTimed, Deathmatch, Playing, OfKind
  <2> QED  BY <2>4, <2>5
<1>7. ASSUME NEW p \in Member, ValidateClient(p), ~OnClientDisconnect(p)
      PROVE  EmptiesAreTimed'
  BY <1>7, ValidateIs DEF EmptiesAreTimed, Deathmatch, Playing, OfKind
<1>8. ASSUME NEW t \in timers, TimerCheckRoster(t)
      PROVE  EmptiesAreTimed'
  <2>1. UNCHANGED <<mode, seat, unseen>>  BY <1>8, RosterCheckIs
  <2>2. CASE BeginMatch(timers \ {t}) /\ phase = "warmup"  BY <1>4, <2>1, <2>2
  <2>3. CASE phase' \in {phase, "aborted"} /\ \A u \in timers' : u.kind = "empty" => u \in timers
    BY <1>3, <2>1, <2>3 DEF Playing
  <2> QED  BY <1>8, <2>2, <2>3, RosterCheckIs
<1>9. ASSUME NEW t \in timers, TimerCheckAbandon(t) \/ TimerAbortEmpty(t) \/ TimerLimit(t)
      PROVE  EmptiesAreTimed'
  <2>1. timers' = timers \ {t} /\ UNCHANGED <<mode, seat, unseen>>
    BY <1>9 DEF TimerCheckAbandon, TimerAbortEmpty, TimerLimit
  <2>2. phase' \in {phase, "ended", "aborted"}
    BY <1>9, AbandonCheckIs DEF TimerAbortEmpty, TimerLimit
  <2> QED  BY <1>3, <2>1, <2>2 DEF Playing
<1>10. CASE Tick
  <2>1. UNCHANGED <<mode, phase, seat>>  BY <1>10, TickIs
  <2>2. ASSUME NEW u \in timers', u.kind = "empty"
        PROVE  /\ Deathmatch
               /\ Playing => \A p \in Member : seat[p] = "away" => u.left + unseen'[p] >= EmptyGrace
    <3>1. PICK t \in timers : t.left > 0 /\ t.kind = "empty" /\ u.left = t.left - 1
      BY <1>10, <2>2, TickTypes
    <3>2. t.left \in Nat  BY Times
    <3>3. ASSUME NEW p \in Member, t.left + unseen[p] >= EmptyGrace
          PROVE  u.left + unseen'[p] >= EmptyGrace
      <4>1. unseen[p] \in 0..Horizon /\ unseen'[p] = Older(unseen[p])  BY <1>10, Times, TickIs
      <4> QED  BY <3>1, <3>2, <3>3, <4>1, PluginAssumption DEF Older
    <3> QED  BY <3>1, <3>3 DEF EmptiesAreTimed, OfKind
  <2> QED  BY <2>1, <2>2 DEF EmptiesAreTimed, Deathmatch, Playing, OfKind
<1>11. CASE CommandSyncRoster \/ MatchEnds \/ CommandAbort \/ UNCHANGED pluginVars
  BY <1>3, <1>11 DEF CommandSyncRoster, MatchEnds, CommandAbort, pluginVars, Playing
<1>12. ASSUME NEW p \in Member, RosterChanges(p)
       PROVE  EmptiesAreTimed'
  BY <1>3, <1>12 DEF RosterChanges, Playing
<1> QED
  BY <1>1, <1>2, <1>4, <1>5, <1>6, <1>7, <1>8, <1>9, <1>10, <1>11, <1>12
  DEF PluginNext, Configure, CommandPrepare, MapChanges, CommandBegin, Leave

\* The records of the lines, one by one.
LEMMA LogTypes ==
  ASSUME PluginTypeOK
  PROVE  lines \in Seq(LogLines)
BY DEF PluginTypeOK, LogLines

\* Every step keeps the log.
LEMMA LogStays ==
  ASSUME PluginTypeOK, AbandonsNameSomebody, LogFollows, [PluginNext]_pluginVars
  PROVE  LogFollows'
<1>1. CASE Configure
  BY <1>1 DEF Configure, PrepareMatch, LogFollows
<1>2. CASE CommandPrepare \/ MapChanges \/ ServerLost
  BY <1>2 DEF CommandPrepare, MapChanges, ServerLost, LogFollows
<1>3. CASE UNCHANGED <<lines, again>> /\ phase' \in {phase, "ended", "aborted"}
  BY <1>3 DEF LogFollows
<1>4. CASE phase' \in {"ended", "aborted"} /\ UNCHANGED again
  BY <1>4 DEF LogFollows
<1>5. ASSUME phase = "warmup", NEW rest, BeginMatch(rest), UNCHANGED again
      PROVE  LogFollows'
  <2>1. Line("live", Nobody, 0).type = "live"  BY LineShape
  <2>2. ~again => lines = <<>>  BY <1>5 DEF LogFollows
  <2>3. lines' = Append(lines, Line("live", Nobody, 0)) /\ phase' = "live"  BY <1>5 DEF BeginMatch, Write
  <2>4. ~again => lines' = <<Line("live", Nobody, 0)>>  BY <2>2, <2>3
  <2>5. ~again => DOMAIN lines' = {1} /\ lines'[1].type = "live"  BY <2>1, <2>4
  <2> QED  BY <1>5, <2>3, <2>5 DEF LogFollows
<1>6. CASE CommandBegin
  BY <1>5, <1>6 DEF CommandBegin
<1>7. ASSUME NEW t \in timers, TimerCheckRoster(t)
      PROVE  LogFollows'
  BY <1>3, <1>4, <1>5, <1>7, RosterCheckIs
<1>8. ASSUME NEW t \in timers, TimerCheckAbandon(t)
      PROVE  LogFollows'
  BY <1>3, <1>4, <1>8, AbandonCheckIs
<1>9. ASSUME NEW t \in timers, TimerAbortEmpty(t) \/ TimerLimit(t)
      PROVE  LogFollows'
  BY <1>3, <1>4, <1>9 DEF TimerAbortEmpty, TimerLimit
<1>10. ASSUME NEW p \in Member, RosterChanges(p) \/ OnClientAuthorized(p) \/ ValidateClient(p) \/ Leave(p)
       PROVE  LogFollows'
  BY <1>3, <1>10, DisconnectIs, ValidateIs DEF RosterChanges, OnClientAuthorized, Leave
<1>11. CASE CommandSyncRoster \/ MatchEnds \/ CommandAbort \/ Tick \/ UNCHANGED pluginVars
  BY <1>3, <1>4, <1>11 DEF CommandSyncRoster, MatchEnds, CommandAbort, Tick, pluginVars
<1> QED
  BY <1>1, <1>2, <1>6, <1>7, <1>8, <1>9, <1>10, <1>11 DEF PluginNext

\* The inductive invariant.  NobodyIsAwaited says how long somebody is missing at most; that
\* follows only from the timers which the parts before it keep.
PluginIInv ==
  /\ PluginTypeOK /\ AbandonsNameSomebody
  /\ WarmupIsTimed /\ LimitIsTimed /\ AbsencesAreTimed /\ EmptiesAreTimed
  /\ GoneWhileAway /\ LogFollows

\* It holds initially, ...
LEMMA InitPlugin ==
  ASSUME PluginInit
  PROVE  PluginIInv
<1>1. PluginTypeOK /\ AbandonsNameSomebody  BY InitPluginTypes
<1>2. WarmupIsTimed /\ LimitIsTimed /\ AbsencesAreTimed /\ EmptiesAreTimed
  BY DEF PluginInit, WarmupIsTimed, LimitIsTimed, AbsencesAreTimed, EmptiesAreTimed, OfKind
<1>3. GoneWhileAway /\ LogFollows  BY DEF PluginInit, GoneWhileAway, LogFollows
<1> QED  BY <1>1, <1>2, <1>3 DEF PluginIInv

\* ... and every step keeps it.
LEMMA NextPlugin ==
  ASSUME PluginIInv, [PluginNext]_pluginVars
  PROVE  PluginIInv'
BY NextPluginTypes, WarmupStaysTimed, LimitStaysTimed, AbsencesStayTimed, EmptiesStayTimed,
   GoneStaysWhileAway, LogStays DEF PluginIInv

\* Every variable of the plugin has its type in every reachable state.
THEOREM PluginTypes == PluginSpec => []PluginTypeOK
<1>1. PluginIInv => PluginTypeOK  BY DEF PluginIInv
<1> QED  BY <1>1, InitPlugin, NextPlugin, PTL DEF PluginSpec

\* A competitive match neither waits in its warmup nor plays on without a player longer
\* than the grace, and a deathmatch ends at its limit, whoever comes and goes; but for a
\* player whose check found the grace not quite over by GetTime (aftertick_match.sp:354).
THEOREM NobodyWaits == PluginSpec => []NobodyIsAwaited
<1>1. ASSUME PluginIInv PROVE NobodyIsAwaited
  <2>0. PluginTypeOK /\ WarmupIsTimed /\ LimitIsTimed /\ AbsencesAreTimed  BY <1>1 DEF PluginIInv
  <2>1. ASSUME phase = "warmup", ~Deathmatch PROVE spent <= Grace
    <3>1. PICK t \in timers : t.left + spent <= Grace  BY <2>0, <2>1 DEF WarmupIsTimed, OfKind
    <3> QED  BY <2>0, <3>1, Times, PluginAssumption
  <2>2. ASSUME phase = "live", Deathmatch PROVE spent <= TimeLimit
    <3>1. PICK t \in timers : t.left + spent <= TimeLimit  BY <2>0, <2>2 DEF LimitIsTimed, OfKind
    <3> QED  BY <2>0, <3>1, Times, PluginAssumption
  <2>3. ASSUME phase = "live", ~Deathmatch, NEW p \in loaded \ early, seat[p] = "away", unseen[p] < spent
        PROVE  unseen[p] <= Grace
    <3>1. gone[p] = unseen[p] /\ \E t \in timers : t.left + gone[p] = Grace
      BY <2>0, <2>3 DEF AbsencesAreTimed, OfKind
    <3>2. PICK t \in timers : t.left + unseen[p] = Grace  BY <3>1
    <3>3. t.left \in 0..Horizon /\ unseen[p] \in 0..Horizon  BY <2>0, Times
    <3> QED  BY <3>2, <3>3, PluginAssumption
  <2> QED  BY <2>1, <2>2, <2>3 DEF NobodyIsAwaited
<1> QED  BY <1>1, InitPlugin, NextPlugin, PTL DEF PluginSpec

\* A match is forfeited, given up or aborted only for an absence that lasted the whole grace,
\* and the API accepts the report if the match was prepared once.
THEOREM AbsencesAreReal == PluginSpec => AbsenceIsReal
<1> DEFINE Real ==
      \A n \in (Len(lines) + 1)..Len(lines') :
        LET e == lines'[n] IN
        /\ e.type = "abandoned" => seat[e.who] = "away" /\ unseen[e.who] >= Grace
        /\ e.type = "no_show" => seat[e.who] = "away" /\ spent >= Grace
        /\ e.type = "empty" => \A p \in listed : seat[p] = "away" /\ unseen[p] >= EmptyGrace
        /\ e.type \in {"no_show", "abandoned"} => Accepts(n)' \/ again
<1>1. ASSUME PluginIInv, [PluginNext]_pluginVars PROVE Real
  <2> USE DEF Real
  <2>0. PluginTypeOK /\ AbandonsNameSomebody /\ EmptiesAreTimed /\ GoneWhileAway /\ LogFollows
    BY <1>1 DEF PluginIInv
  <2>1. lines \in Seq(LogLines) /\ Len(lines) \in Nat  BY <2>0, LogTypes
  <2>2. CASE lines' = lines
    BY <2>1, <2>2
  <2>3. ASSUME NEW type \in {"live", "aborted"}, Write(type) PROVE Real
    <3>1. lines' = Append(lines, Line(type, Nobody, 0))  BY <2>3 DEF Write
    <3>2. Line(type, Nobody, 0).type = type  BY LineShape
    <3>3. Len(lines') = Len(lines) + 1 /\ lines'[Len(lines) + 1].type = type  BY <2>1, <3>1, <3>2
    <3>4. \A n \in (Len(lines) + 1)..Len(lines') : n = Len(lines) + 1  BY <2>1, <3>3
    <3> QED  BY <2>3, <3>3, <3>4
  <2>4. ASSUME NEW t \in timers, TimerAbortEmpty(t), lines' # lines PROVE Real
    <3>1. /\ t.kind = "empty" /\ t.left = 0 /\ Playing /\ Present = {}
          /\ lines' = Append(lines, Line("empty", Nobody, 0))
      BY <2>4 DEF TimerAbortEmpty, Due, OfKind
    <3>2. Line("empty", Nobody, 0).type = "empty"  BY LineShape
    <3>3. \A p \in listed : seat[p] = "away" /\ unseen[p] >= EmptyGrace
      <4>1. SUFFICES ASSUME NEW p \in listed PROVE seat[p] = "away" /\ unseen[p] >= EmptyGrace  OBVIOUS
      <4>2. seat[p] = "away" /\ p \in Member /\ unseen[p] \in 0..Horizon  BY <2>0, <3>1, Times DEF Present
      <4>3. t.left + unseen[p] >= EmptyGrace  BY <2>0, <3>1, <4>2 DEF EmptiesAreTimed, OfKind
      <4> QED  BY <3>1, <4>2, <4>3
    <3>4. Len(lines') = Len(lines) + 1 /\ lines'[Len(lines) + 1].type = "empty"  BY <2>1, <3>1, <3>2
    <3>5. \A n \in (Len(lines) + 1)..Len(lines') : n = Len(lines) + 1  BY <2>1, <3>4
    <3> QED  BY <3>3, <3>4, <3>5
  <2>5. ASSUME NEW t \in timers, TimerCheckAbandon(t), lines' # lines PROVE Real
    <3> DEFINE p == t.who
               e == Line("abandoned", p, gone[p])
    <3>1. /\ phase = "live" /\ p \in Member /\ gone[p] # NotGone /\ seat[p] = "away" /\ gone[p] >= Grace
          /\ lines' = Append(lines, e)
      BY <2>0, <2>5, AbandonCheckIs
    <3>2. e.type = "abandoned" /\ e.who = p /\ e.took = gone[p]  BY LineShape
    <3> HIDE DEF e
    <3>3. unseen[p] >= Grace
      <4>1. gone[p] <= unseen[p] /\ gone[p] \in 0..Horizon /\ unseen[p] \in 0..Horizon
        BY <2>0, <3>1, Times DEF GoneWhileAway
      <4> QED  BY <3>1, <4>1, PluginAssumption
    <3>4. Len(lines') = Len(lines) + 1 /\ lines'[Len(lines) + 1] = e /\ \A k \in 1..Len(lines) : lines'[k] = lines[k]
      BY <2>1, <3>1
    <3>5. \A n \in (Len(lines) + 1)..Len(lines') : n = Len(lines) + 1  BY <2>1, <3>4
    <3>6. ASSUME NEW n \in Nat, n = Len(lines) + 1, ~again PROVE Accepts(n)'
      <4>1. PICK k \in 1..Len(lines) : lines[k].type = "live"  BY <2>0, <2>1, <3>1, <3>6 DEF LogFollows
      <4>2. \A j \in 1..Len(lines) : lines[j].type \notin {"aborted", "empty"}
        BY <2>0, <2>1, <3>1, <3>6 DEF LogFollows
      <4>3. 1..(n - 1) = 1..Len(lines)  BY <2>1, <3>6
      <4>4. \A j \in 1..(n - 1) : lines'[j] = lines[j]  BY <3>4, <4>3
      <4>5. StatusAt(n)' = "live"  BY <4>1, <4>2, <4>3, <4>4 DEF StatusAt
      <4>6. lines'[n].took >= Grace /\ lines'[n].type = "abandoned"  BY <3>1, <3>2, <3>4, <3>6
      <4> QED  BY <4>5, <4>6 DEF Accepts
    <3>7. Len(lines) + 1 \in Nat  BY <2>1
    <3>8. SUFFICES ASSUME NEW n \in (Len(lines) + 1)..Len(lines')
                   PROVE  LET l == lines'[n] IN
                          /\ l.type = "abandoned" => seat[l.who] = "away" /\ unseen[l.who] >= Grace
                          /\ l.type = "no_show" => seat[l.who] = "away" /\ spent >= Grace
                          /\ l.type = "empty" => \A q \in listed : seat[q] = "away" /\ unseen[q] >= EmptyGrace
                          /\ l.type \in {"no_show", "abandoned"} => Accepts(n)' \/ again
      OBVIOUS
    <3>9. n = Len(lines) + 1 /\ lines'[n] = e  BY <3>4, <3>5
    <3> QED  BY <3>1, <3>2, <3>3, <3>6, <3>7, <3>9
  <2>6. ASSUME NEW t \in timers, NEW missing \in NoShowLines, TimerCheckRoster(t), phase = "warmup", spent >= Grace,
               lines' = lines \o missing \o <<Line("aborted", Nobody, 0)>>
        PROVE  Real
    <3> DEFINE last == Line("aborted", Nobody, 0)
    <3>1. missing \in Seq(LogLines) /\ \A n \in DOMAIN missing : \E p \in NoShows : missing[n] = Line("no_show", p, spent)
      BY <2>0, NoShowTypes
    <3>2. \A n \in 1..Len(missing) : /\ missing[n].type = "no_show" /\ missing[n].took = spent
                                     /\ seat[missing[n].who] = "away"
      <4>1. \A p : /\ Line("no_show", p, spent).type = "no_show" /\ Line("no_show", p, spent).who = p
                   /\ Line("no_show", p, spent).took = spent
        BY LineShape
      <4> QED  BY <3>1, <4>1 DEF NoShows
    <3>3. last.type = "aborted"  BY LineShape
    <3> HIDE DEF last
    <3>4. Len(missing) \in Nat /\ Len(lines') = Len(lines) + Len(missing) + 1
      BY <2>1, <2>6, <3>1 DEF last
    <3>5. /\ \A n \in 1..Len(missing) : lines'[Len(lines) + n] = missing[n]
          /\ lines'[Len(lines) + Len(missing) + 1] = last
      BY <2>1, <2>6, <3>1 DEF last
    <3>6. ASSUME NEW n \in (Len(lines) + 1)..(Len(lines) + Len(missing))
          PROVE  lines'[n].type = "no_show" /\ lines'[n].took = spent /\ seat[lines'[n].who] = "away"
      <4>1. PICK i \in 1..Len(missing) : n = Len(lines) + i
        <5>1. n - Len(lines) \in 1..Len(missing) /\ n = Len(lines) + (n - Len(lines))  BY <2>1, <3>4
        <5> QED  BY <5>1
      <4>2. lines'[n] = missing[i]  BY <3>5, <4>1
      <4> QED  BY <3>2, <4>2
    <3>7. SUFFICES ASSUME NEW n \in (Len(lines) + 1)..Len(lines')
                   PROVE  LET l == lines'[n] IN
                          /\ l.type = "abandoned" => seat[l.who] = "away" /\ unseen[l.who] >= Grace
                          /\ l.type = "no_show" => seat[l.who] = "away" /\ spent >= Grace
                          /\ l.type = "empty" => \A q \in listed : seat[q] = "away" /\ unseen[q] >= EmptyGrace
                          /\ l.type \in {"no_show", "abandoned"} => Accepts(n)' \/ again
      OBVIOUS
    <3>8. CASE n = Len(lines) + Len(missing) + 1  BY <3>3, <3>5, <3>8
    <3>9. CASE n # Len(lines) + Len(missing) + 1
      <4>1. n \in (Len(lines) + 1)..(Len(lines) + Len(missing))  BY <2>1, <3>4, <3>9
      <4>2. lines'[n].type = "no_show" /\ lines'[n].took = spent /\ seat[lines'[n].who] = "away"  BY <3>6, <4>1
      <4>3. ASSUME ~again PROVE Accepts(n)'
        <5>1. lines = <<>>  BY <2>0, <2>6, <4>3 DEF LogFollows
        <5>2. \A k \in 1..(n - 1) : k \in (Len(lines) + 1)..(Len(lines) + Len(missing))
          BY <2>1, <3>4, <4>1, <5>1
        <5>3. \A k \in 1..(n - 1) : lines'[k].type = "no_show"  BY <3>6, <5>2
        <5>4. StatusAt(n)' = "pending"  BY <5>3 DEF StatusAt
        <5> QED  BY <2>6, <4>2, <5>4 DEF Accepts
      <4> QED  BY <2>6, <4>2, <4>3
    <3> QED  BY <3>8, <3>9
  <2>7. ASSUME lines' # lines
         PROVE  \/ CommandBegin \/ CommandAbort
                \/ \E t \in timers : TimerCheckRoster(t) \/ TimerCheckAbandon(t) \/ TimerAbortEmpty(t)
    <3>1. PluginNext  BY <1>1, <2>7 DEF pluginVars
    <3>2. ~(Configure \/ CommandPrepare \/ MapChanges \/ ServerLost \/ CommandSyncRoster \/ MatchEnds \/ Tick)
      BY <2>7 DEF Configure, CommandPrepare, MapChanges, ServerLost, CommandSyncRoster, MatchEnds, Tick
    <3>3. ASSUME NEW p \in Member
          PROVE  ~(RosterChanges(p) \/ OnClientAuthorized(p) \/ ValidateClient(p) \/ Leave(p))
      <4>1. ~(RosterChanges(p) \/ OnClientAuthorized(p))  BY <2>7 DEF RosterChanges, OnClientAuthorized
      <4>2. ~OnClientDisconnect(p)  BY <2>7 DEF OnClientDisconnect
      <4> QED  BY <2>7, <4>1, <4>2 DEF ValidateClient, Leave
    <3>4. \A t \in timers : ~TimerLimit(t)  BY <2>7 DEF TimerLimit
    <3> QED  BY <3>1, <3>2, <3>3, <3>4 DEF PluginNext
  <2>8. ASSUME NEW t \in timers, TimerCheckRoster(t), lines' # lines PROVE Real
    <3>1. CASE BeginMatch(timers \ {t})  BY <2>3, <3>1 DEF BeginMatch
    <3>2. CASE ~BeginMatch(timers \ {t})
      <4>1. /\ phase = "warmup" /\ spent >= Grace
            /\ \E missing \in NoShowLines : lines' = lines \o missing \o <<Line("aborted", Nobody, 0)>>
        BY <2>0, <2>8, <3>2, RosterCheckIs
      <4> QED  BY <2>6, <2>8, <4>1
    <3> QED  BY <3>1, <3>2
  <2> QED
    <3>1. CASE lines' # lines
      <4>1. CommandBegin \/ CommandAbort => Write("live") \/ Write("aborted")
        BY DEF CommandBegin, BeginMatch, CommandAbort
      <4> QED  BY <2>3, <2>4, <2>5, <2>7, <2>8, <3>1, <4>1
    <3> QED  BY <2>2, <3>1
<1>2. PluginIInv /\ [PluginNext]_pluginVars => [Real]_pluginVars  BY <1>1
<1>3. PluginSpec => []PluginIInv  BY InitPlugin, NextPlugin, PTL DEF PluginSpec
<1> QED  BY <1>2, <1>3, PTL DEF PluginSpec, AbsenceIsReal

-----------------------------------------------------------------------------
(* Levels, XP and medals.                                                  *)

\* The arithmetic of levels.
LEMMA Distributes == \A a, b, c \in Int : (a + b) * c = a * c + b * c /\ (a - b) * c = a * c - b * c
OBVIOUS

LEMMA Grows == \A a, b \in Int, c \in Nat : a <= b => a * c <= b * c
OBVIOUS

LEMMA Products == (\A a, b \in Int : a * b \in Int) /\ (\A a, b \in Nat : a * b \in Nat)
OBVIOUS

\* A set of numbers has a least one.
LEMMA Least ==
  ASSUME NEW S \in SUBSET Nat, S # {}
  PROVE  \E c \in S : \A d \in S : c <= d
<1>. DEFINE R == {ss \in Nat \X Nat : ss[1] < ss[2]}
<1>1. IsWellFoundedOn(R, Nat)
  BY NatLessThanWellFounded DEF OpToRel
<1>2. PICK c \in S : \A d \in S : <<d, c>> \notin R
  <2>. HIDE DEF R
  <2>. QED
    BY <1>1, WFMin
<1>3. ASSUME NEW d \in S PROVE c <= d
  <2>1. c \in Nat /\ d \in Nat /\ ~(d < c)
    BY <1>2
  <2>. QED
    BY <2>1
<1>. QED
  BY <1>3

\* The loop of advanceProfile ends, and k is the number of its rounds.
LEMMA LoopRuns ==
  ASSUME NEW level \in 1..TopLevel, NEW xp \in Nat
  PROVE  /\ Gained(level, xp) \in 0..(TopLevel - level)
         /\ LoopEnds(level, xp, Gained(level, xp))
         /\ \A j \in 0..(Gained(level, xp) - 1) : ~LoopEnds(level, xp, j)
<1>. DEFINE K == {k \in 0..TopLevel : LoopEnds(level, xp, k)}
<1>1. TopLevel \in Nat /\ TopLevel - level \in 0..TopLevel
  BY ProgressionAssumption
<1>2. TopLevel - level \in K
  BY <1>1 DEF LoopEnds
<1>3. K \subseteq Nat /\ K # {}
  BY <1>2
<1>4. PICK k \in K : \A j \in K : k <= j
  <2>. HIDE DEF K
  <2>. QED
    BY <1>3, Least
<1>5. k \in 0..TopLevel /\ LoopEnds(level, xp, k) /\ k <= TopLevel - level
  BY <1>2, <1>4
<1>6. \A j \in 0..(k - 1) : ~LoopEnds(level, xp, j)
  BY <1>1, <1>4, <1>5
<1>7. \A i, j \in 0..TopLevel :
        /\ LoopEnds(level, xp, i) /\ \A h \in 0..(i - 1) : ~LoopEnds(level, xp, h)
        /\ LoopEnds(level, xp, j) /\ \A h \in 0..(j - 1) : ~LoopEnds(level, xp, h)
        => i = j
  <2>. SUFFICES ASSUME NEW i \in 0..TopLevel, NEW j \in 0..TopLevel,
                       LoopEnds(level, xp, i), LoopEnds(level, xp, j),
                       \A h \in 0..(i - 1) : ~LoopEnds(level, xp, h),
                       \A h \in 0..(j - 1) : ~LoopEnds(level, xp, h)
                PROVE  i = j
    OBVIOUS
  <2>1. i \notin 0..(j - 1) /\ j \notin 0..(i - 1)
    OBVIOUS
  <2>. QED
    BY <1>1, <2>1
<1>8. Gained(level, xp) = k
  BY <1>5, <1>6, <1>7 DEF Gained
<1>. QED
  BY <1>1, <1>5, <1>6, <1>8

\* A profile, and the types of its parts.
ProfileRow == [level : 1..TopLevel, xp : Nat, reserve : Nat, prestige : Nat]

\* advanceProfile adds the XP, up to the end of the last level, and ends with a
\* valid profile; no more XP than a level takes crosses at most one level.
LEMMA AdvancedFits ==
  ASSUME NEW p \in ProfileRow, Valid(p), NEW earned \in Nat
  PROVE  LET q == Advanced(p, earned) IN
         /\ q \in ProfileRow /\ Valid(q) /\ q.level >= p.level
         /\ q.reserve = p.reserve /\ q.prestige = p.prestige
         /\ Worth(q) = Lesser(Worth(p) + earned, Full)
         /\ earned <= PerLevel => q.level <= p.level + 1
<1>. DEFINE k == Gained(p.level, p.xp + earned)
            xp == p.xp + earned - k * PerLevel
            end == IF p.level + k = TopLevel THEN Lesser(xp, PerLevel - 1) ELSE xp
            q == Profile(p.level + k, end, p.reserve, p.prestige)
<1>0. /\ PerLevel \in Nat \ {0} /\ TopLevel \in Nat \ {0} /\ p.level \in 1..TopLevel
      /\ p.xp \in 0..(PerLevel - 1) /\ p.xp + earned \in Nat
  BY ProgressionAssumption DEF ProfileRow, Valid
<1>. DEFINE sum == p.xp + earned
<1>1. /\ k \in 0..(TopLevel - p.level) /\ LoopEnds(p.level, sum, k)
      /\ \A j \in 0..(k - 1) : ~LoopEnds(p.level, sum, j)
  BY <1>0, LoopRuns
<1>2. Advanced(p, earned) = q
  BY DEF Advanced
<1>. HIDE DEF k
<1>3. k * PerLevel \in Nat /\ (k - 1) * PerLevel = k * PerLevel - PerLevel
  BY <1>0, <1>1, Distributes, Products
<1>4. xp \in Nat
  <2>1. CASE k = 0
    BY <1>0, <2>1
  <2>2. CASE k # 0
    <3>1. ~LoopEnds(p.level, sum, k - 1)
      BY <1>0, <1>1, <2>2
    <3>2. sum - (k - 1) * PerLevel >= PerLevel
      BY <1>0, <1>1, <1>3, <3>1 DEF LoopEnds
    <3>. QED
      BY <1>0, <1>3, <3>2
  <2>. QED
    BY <2>1, <2>2
<1>. DEFINE full == (p.level + k) = TopLevel
<1>5. ~full => p.level + k < TopLevel /\ xp < PerLevel
  <2>1. ASSUME ~full PROVE xp < PerLevel
    <3>1. sum - k * PerLevel < PerLevel
      <4>. HIDE DEF sum
      <4>. QED
        BY <1>0, <1>1, <2>1 DEF LoopEnds
    <3>. QED
      BY <1>0, <1>3, <3>1
  <2>. QED
    BY <1>0, <1>1, <2>1
<1>6. end \in 0..(PerLevel - 1) /\ end <= xp /\ (full => end = Lesser(xp, PerLevel - 1)) /\ (~full => end = xp)
  BY <1>0, <1>4, <1>5 DEF Lesser
<1>. HIDE DEF end
<1>7. /\ q \in ProfileRow /\ q.level = p.level + k /\ q.xp = end
      /\ q.reserve = p.reserve /\ q.prestige = p.prestige
  <2>1. p.level + k \in 1..TopLevel /\ end \in Nat
    BY <1>0, <1>1, <1>6
  <2>. QED
    BY <2>1 DEF Profile, ProfileRow
<1>8. Valid(q) /\ q.level >= p.level
  BY <1>0, <1>1, <1>6, <1>7 DEF Valid
<1>9. Worth(q) = Lesser(Worth(p) + earned, Full)
  <2>. DEFINE base == (p.level - 1) * PerLevel  last == (TopLevel - 1) * PerLevel
              here == (p.level + k - 1) * PerLevel
  <2>1. base \in Nat /\ last \in Nat /\ here = base + k * PerLevel /\ TopLevel * PerLevel = last + PerLevel
    <3>1. here = (p.level - 1) * PerLevel + k * PerLevel
      BY <1>0, <1>1, Distributes
    <3>2. ((TopLevel - 1) + 1) * PerLevel = last + PerLevel
      BY <1>0, Distributes
    <3>. QED
      BY <1>0, <3>1, <3>2, Products
  <2>2. Worth(q) = here + end /\ Worth(p) = base + p.xp /\ Full = last + PerLevel - 1
    BY <1>0, <1>1, <1>7, <2>1 DEF Worth, Full
  <2>3. here + xp = base + sum
    BY <1>0, <1>3, <2>1
  <2>4. CASE full
    <3>1. here = last
      BY <1>0, <1>1, <2>4
    <3>2. Worth(p) + earned = here + xp
      BY <1>0, <1>3, <2>1, <2>2, <2>3
    <3>3. end = Lesser(xp, PerLevel - 1)
      BY <1>6, <2>4
    <3>. HIDE DEF here, base, last, xp
    <3>4. last + end = Lesser(last + xp, last + PerLevel - 1)
      BY <1>0, <1>4, <2>1, <3>3 DEF Lesser
    <3>. QED
      BY <2>2, <3>1, <3>2, <3>4
  <2>5. CASE ~full
    <3>1. here <= last
      BY <1>0, <1>1, <1>5, <2>5, Grows
    <3>2. Worth(p) + earned = here + xp /\ here \in Int
      BY <1>0, <1>3, <2>1, <2>2, <2>3
    <3>3. end = xp /\ xp < PerLevel
      BY <1>5, <1>6, <2>5
    <3>. HIDE DEF here, base, last, xp
    <3>4. here + xp = Lesser(here + xp, last + PerLevel - 1)
      BY <1>0, <1>4, <2>1, <3>1, <3>2, <3>3 DEF Lesser
    <3>. QED
      BY <2>2, <3>2, <3>3, <3>4
  <2>. QED
    BY <2>4, <2>5
<1>10. ASSUME earned <= PerLevel PROVE q.level <= p.level + 1
  <2>1. CASE k <= 1
    BY <1>0, <1>1, <1>7, <2>1
  <2>2. CASE k > 1
    <3>1. ~LoopEnds(p.level, sum, 1)
      BY <1>1, <2>2
    <3>. QED
      BY <1>0, <1>10, <3>1 DEF LoopEnds
  <2>. QED
    BY <1>1, <2>1, <2>2
<1>. QED
  BY <1>2, <1>7, <1>8, <1>9, <1>10

\* The conversion keeps all of the XP and ends with a valid profile.
LEMMA ConvertedFits ==
  ASSUME NEW p \in ProfileRow, p.reserve = 0
  PROVE  LET q == Converted(p) IN
         /\ q \in ProfileRow /\ Valid(q) /\ q.level >= p.level
         /\ q.prestige = p.prestige
         /\ Worth(q) + q.reserve = Worth(p) + p.reserve
<1>. DEFINE k == Lesser(TopLevel - p.level, p.xp \div PerLevel)
            left == p.xp - k * PerLevel
            top == p.level + k = TopLevel
            q == Profile(p.level + k, IF top THEN 0 ELSE left, IF top THEN left ELSE 0, p.prestige)
<1>0. PerLevel \in Nat \ {0} /\ TopLevel \in Nat \ {0} /\ p.level \in 1..TopLevel /\ p.xp \in Nat
  BY ProgressionAssumption DEF ProfileRow
<1>. DEFINE n == p.xp \div PerLevel
<1>1. n \in Nat /\ n * PerLevel <= p.xp /\ p.xp - n * PerLevel < PerLevel
  BY <1>0
<1>2. Converted(p) = q
  BY DEF Converted
<1>3. k \in 0..(TopLevel - p.level) /\ k <= n /\ (~top => k = n)
  <2>. HIDE DEF n
  <2>1. k = Lesser(TopLevel - p.level, n)
    BY DEF n
  <2>. QED
    BY <1>0, <1>1, <2>1 DEF Lesser
<1>. HIDE DEF n, k
<1>4. k * PerLevel \in Nat /\ k * PerLevel <= n * PerLevel /\ n * PerLevel \in Nat
  BY <1>0, <1>1, <1>3, Grows, Products
<1>5. left \in Nat /\ (~top => left < PerLevel)
  BY <1>0, <1>1, <1>3, <1>4
<1>. DEFINE xp == IF top THEN 0 ELSE left  reserve == IF top THEN left ELSE 0
<1>6. xp \in 0..(PerLevel - 1) /\ reserve \in Nat /\ xp + reserve = left
  BY <1>0, <1>5
<1>7. /\ q \in ProfileRow /\ q.level = p.level + k /\ q.xp = xp /\ q.reserve = reserve
      /\ q.prestige = p.prestige
  <2>1. p.level + k \in 1..TopLevel /\ xp \in Nat /\ reserve \in Nat
    BY <1>0, <1>3, <1>6
  <2>. QED
    BY <2>1 DEF Profile, ProfileRow
<1>8. (q.level - 1) * PerLevel = (p.level - 1) * PerLevel + k * PerLevel /\ (p.level - 1) * PerLevel \in Nat
  <2>1. ((p.level - 1) + k) * PerLevel = (p.level - 1) * PerLevel + k * PerLevel
    BY <1>0, <1>3, Distributes
  <2>. QED
    BY <1>0, <1>3, <1>7, <2>1, Products
<1>9. Worth(q) + q.reserve = Worth(p) + p.reserve
  <2>1. Worth(q) = (p.level - 1) * PerLevel + k * PerLevel + xp
    BY <1>7, <1>8 DEF Worth
  <2>2. Worth(p) = (p.level - 1) * PerLevel + p.xp
    BY DEF Worth
  <2>. QED
    BY <1>0, <1>4, <1>6, <1>7, <1>8, <2>1, <2>2
<1>10. Valid(q) /\ q.level >= p.level
  BY <1>0, <1>3, <1>6, <1>7 DEF Valid
<1>. QED
  BY <1>2, <1>7, <1>9, <1>10

\* What a match pays is never more than its cap.
LEMMA MatchXpFits ==
  ASSUME NEW points \in Nat, NEW worth \in Nat
  PROVE  MatchXp(points, worth) \in 0..MatchCap
<1>1. points * worth \in Nat /\ MatchCap \in Nat
  BY ProgressionAssumption, Products
<1>. QED
  BY <1>1 DEF MatchXp, Lesser

\* There are finitely many medals, and one that comes before another has the
\* lower rank.
LEMMA MedalFinite == IsFiniteSet(Medal) /\ \A d \in Medal : Rank(d) \in Nat
<1>1. IsFiniteSet((1..MaxTier) \X (1..Years))
  <2>1. IsFiniteSet(1..MaxTier) /\ IsFiniteSet(1..Years)
    BY ProgressionAssumption, FS_Interval
  <2>. QED
    BY <2>1, FS_Product
<1>2. Medal \subseteq (1..MaxTier) \X (1..Years)
  BY DEF Medal
<1>3. IsFiniteSet(Medal)
  BY <1>1, <1>2, FS_Subset
<1>4. ASSUME NEW d \in Medal PROVE Rank(d) \in Nat
  <2>1. Before(d) \subseteq Medal
    BY DEF Before
  <2>2. IsFiniteSet(Before(d))
    BY <1>3, <2>1, FS_Subset
  <2>. QED
    BY <2>2, FS_CardinalityType DEF Rank
<1>. QED
  BY <1>3, <1>4

LEMMA MedalParts == \A d \in Medal : d[1] \in 1..MaxTier /\ d[2] \in 1..Years /\ d = <<d[1], d[2]>> /\ d[1] <= Tiers[d[2]]
BY DEF Medal

Earlier(c, d) == c[1] < d[1] \/ (c[1] = d[1] /\ c[2] < d[2])

LEMMA RankOrder ==
  ASSUME NEW c \in Medal, NEW d \in Medal, Earlier(c, d)
  PROVE  Rank(c) < Rank(d)
<1>0. /\ c[1] \in Nat /\ c[2] \in Nat /\ d[1] \in Nat /\ d[2] \in Nat
      /\ \A e \in Medal : e[1] \in Nat /\ e[2] \in Nat
  BY MedalParts
<1>1. c \in Before(d) /\ c \notin Before(c)
  BY <1>0 DEF Before, Earlier
<1>2. Before(c) \subseteq Before(d)
  BY <1>0 DEF Before, Earlier
<1>3. IsFiniteSet(Before(d)) /\ IsFiniteSet(Before(c))
  <2>1. Before(d) \subseteq Medal /\ Before(c) \subseteq Medal
    BY DEF Before
  <2>. QED
    BY <2>1, MedalFinite, FS_Subset
<1>4. Cardinality(Before(c)) <= Cardinality(Before(d)) /\ Cardinality(Before(d)) # Cardinality(Before(c))
  BY <1>1, <1>2, <1>3, FS_Subset
<1>. QED
  BY <1>4, MedalFinite DEF Rank

\* So a rank is that of one medal, and the tiers of a year have rising ranks.
LEMMA RankIsOne ==
  ASSUME NEW c \in Medal, NEW d \in Medal, Rank(c) = Rank(d)
  PROVE  c = d
<1>1. c # d => Earlier(c, d) \/ Earlier(d, c)
  BY MedalParts DEF Earlier
<1>2. Rank(c) \in Nat /\ Rank(d) \in Nat
  BY MedalFinite
<1>. QED
  BY <1>1, <1>2, RankOrder

LEMMA TiersRise ==
  ASSUME NEW c \in Medal, NEW d \in Medal, c[2] = d[2]
  PROVE  c[1] <= d[1] <=> Rank(c) <= Rank(d)
<1>1. CASE c[1] <= d[1]
  <2>1. c = d \/ Earlier(c, d)
    BY <1>1, MedalParts DEF Earlier
  <2>. QED
    BY <1>1, <2>1, RankOrder, MedalFinite
<1>2. CASE ~(c[1] <= d[1])
  <2>1. Earlier(d, c)
    BY <1>2, MedalParts DEF Earlier
  <2>2. Rank(d) < Rank(c)
    BY <2>1, RankOrder
  <2>. QED
    BY <1>2, <2>2, MedalFinite
<1>. QED
  BY <1>1, <1>2

-----------------------------------------------------------------------------
(* The inductive invariant.                                                *)

NothingYet ==
  /\ xpLedger = {} /\ rewards = {} /\ paid = {}
  /\ \A e \in Earner : profile[e].reserve = 0 /\ profile[e].prestige = 0 /\ entered[e] = profile[e].level

RowsFit ==
  IF converted THEN \A e \in Earner : Valid(profile[e]) /\ Lowest(e, profile[e].prestige) <= profile[e].level
  ELSE NothingYet

Rewarded == \A e \in Earner, n, l \in Nat : Has(e, n, l) <=> l > Lowest(e, n) /\ l <= Reached(e, n)

Receipts ==
  /\ \A r \in rewards : r.match # "none" => r.match \in paid
  /\ \A r, s \in rewards : r.player = s.player /\ r.match = s.match /\ r.match # "none" => r = s

MedalShape ==
  \A e \in Earner : \A d \in Medal :
    /\ d \in redeemed[e] <=> Rank(d) < profile[e].prestige
    /\ d[1] <= ownedTier[e][d[2]] <=> Rank(d) < profile[e].prestige

ProgressionIInv == ProgressionTypeOK /\ RowsFit /\ Rewarded /\ Receipts /\ MedalShape

LEMMA RowTypes ==
  /\ \A p \in ProfileRow : p.level \in 1..TopLevel /\ p.xp \in Nat /\ p.reserve \in Nat /\ p.prestige \in Nat
  /\ ProgressionTypeOK => \A e \in Earner : profile[e] \in ProfileRow
BY DEF ProfileRow, ProgressionTypeOK

\* What a grant adds to the rewards.
LEMMA GrantedIs ==
  ASSUME NEW e, NEW levels, NEW prestige, NEW match
  PROVE  \A r : r \in Granted(e, levels, prestige, match) <=>
           /\ r = [player |-> e, prestige |-> prestige, level |-> r.level, match |-> match]
           /\ r.player = e /\ r.prestige = prestige /\ r.match = match /\ r.level \in levels
BY DEF Granted

LEMMA GrantedHas ==
  ASSUME NEW e, NEW levels, NEW prestige, NEW match, NEW l \in levels
  PROVE  \E r \in Granted(e, levels, prestige, match) : r.player = e /\ r.prestige = prestige /\ r.level = l
<1>. DEFINE r == [player |-> e, prestige |-> prestige, level |-> l, match |-> match]
<1>1. r \in Granted(e, levels, prestige, match) /\ r.player = e /\ r.prestige = prestige /\ r.level = l
  BY DEF Granted
<1>. QED
  BY <1>1

LEMMA InitProgression == ProgressionInit => ProgressionIInv
<1>. SUFFICES ASSUME ProgressionInit PROVE ProgressionIInv
  OBVIOUS
<1>0. /\ entered = [e \in Earner |-> profile[e].level] /\ xpLedger = {} /\ rewards = {} /\ paid = {}
      /\ ownedTier = [e \in Earner |-> [y \in 1..Years |-> 0]] /\ redeemed = [e \in Earner |-> {}] /\ converted = FALSE
  BY DEF ProgressionInit
<1>1. \A e \in Earner : /\ profile[e] \in ProfileRow /\ profile[e].level \in 1..TopLevel
                        /\ profile[e].reserve = 0 /\ profile[e].prestige = 0
  BY ProgressionAssumption DEF ProgressionInit, ProfileRow
<1>2. profile \in [Earner -> ProfileRow]
  BY <1>1 DEF ProgressionInit
<1>3. ProgressionTypeOK
  <2>1. ownedTier \in [Earner -> [1..Years -> 0..MaxTier]]
    BY <1>0, ProgressionAssumption
  <2>2. entered \in [Earner -> 1..TopLevel]
    BY <1>0, <1>1
  <2>. QED
    BY <1>0, <1>2, <2>1, <2>2 DEF ProgressionTypeOK, ProfileRow
<1>4. RowsFit /\ Rewarded /\ Receipts
  BY <1>0, <1>1 DEF RowsFit, NothingYet, Rewarded, Has, Lowest, Reached, Receipts
<1>5. MedalShape
  <2>. SUFFICES ASSUME NEW e \in Earner, NEW d \in Medal
                PROVE  /\ d \in redeemed[e] <=> Rank(d) < profile[e].prestige
                       /\ d[1] <= ownedTier[e][d[2]] <=> Rank(d) < profile[e].prestige
    BY DEF MedalShape
  <2>1. Rank(d) \in Nat /\ d[1] \in 1..MaxTier /\ d[2] \in 1..Years
    BY MedalFinite, MedalParts
  <2>2. redeemed[e] = {} /\ ownedTier[e][d[2]] = 0
    BY <1>0, <2>1
  <2>. QED
    BY <1>1, <2>1, <2>2
<1>. QED
  BY <1>3, <1>4, <1>5 DEF ProgressionIInv

LEMMA ConvertKeeps == ProgressionIInv /\ ConvertProfileXp => ProgressionIInv'
<1>. SUFFICES ASSUME ProgressionIInv, ConvertProfileXp PROVE ProgressionIInv'
  OBVIOUS
<1>0. /\ ~converted /\ converted' = TRUE /\ profile' = [e \in Earner |-> Converted(profile[e])]
      /\ rewards' = rewards \cup UNION {Granted(e, Crossed(profile[e].level, profile'[e].level),
                                                profile[e].prestige, "none") : e \in Earner}
      /\ entered' = entered /\ xpLedger' = xpLedger /\ paid' = paid /\ ownedTier' = ownedTier /\ redeemed' = redeemed
  BY DEF ConvertProfileXp
<1>1. NothingYet /\ ProgressionTypeOK /\ MedalShape
  BY <1>0 DEF RowsFit, ProgressionIInv
<1>2. ASSUME NEW e \in Earner
      PROVE  /\ profile'[e] = Converted(profile[e]) /\ profile'[e] \in ProfileRow /\ Valid(profile'[e])
             /\ profile'[e].level >= profile[e].level
             /\ profile'[e].prestige = 0 /\ profile[e].prestige = 0 /\ entered[e] = profile[e].level
             /\ profile[e].level \in 1..TopLevel /\ profile'[e].level \in 1..TopLevel
  <2>1. profile[e] \in ProfileRow /\ profile[e].reserve = 0 /\ profile[e].prestige = 0 /\ entered[e] = profile[e].level
    BY <1>1, RowTypes DEF NothingYet
  <2>2. profile'[e] = Converted(profile[e])
    BY <1>0
  <2>3. LET q == Converted(profile[e]) IN
        q \in ProfileRow /\ Valid(q) /\ q.level >= profile[e].level /\ q.prestige = profile[e].prestige
    BY <2>1, ConvertedFits
  <2>4. profile[e].level \in 1..TopLevel
    BY <2>1, RowTypes
  <2>5. profile'[e].level \in 1..TopLevel
    BY <2>2, <2>3, RowTypes
  <2>. QED
    BY <2>1, <2>2, <2>3, <2>4, <2>5
<1>3. rewards = {} /\ \A r \in rewards' : \E e \in Earner :
         r \in Granted(e, Crossed(profile[e].level, profile'[e].level), 0, "none")
  BY <1>0, <1>1, <1>2 DEF NothingYet
<1>4. \A e \in Earner : Granted(e, Crossed(profile[e].level, profile'[e].level), 0, "none") \subseteq rewards'
  BY <1>0, <1>2
<1>5. ProgressionTypeOK'
  <2>1. profile' \in [Earner -> ProfileRow]
    BY <1>0, <1>2
  <2>2. ASSUME NEW r \in rewards'
        PROVE  r \in [player : Earner, prestige : Nat, level : 1..TopLevel, match : Game \cup {"none"}]
    <3>1. PICK e \in Earner : r \in Granted(e, Crossed(profile[e].level, profile'[e].level), 0, "none")
      BY <1>3
    <3>2. r = [player |-> e, prestige |-> 0, level |-> r.level, match |-> "none"]
          /\ r.level \in Crossed(profile[e].level, profile'[e].level)
      BY <3>1, GrantedIs
    <3>3. \A l \in Crossed(profile[e].level, profile'[e].level) : l \in 1..TopLevel
      BY <1>2, ProgressionAssumption DEF Crossed
    <3>4. r.level \in 1..TopLevel
      BY <3>2, <3>3
    <3>. QED
      BY <3>2, <3>4
  <2>. QED
    BY <1>0, <1>1, <2>1, <2>2 DEF ProgressionTypeOK, ProfileRow
<1>6. RowsFit'
  BY <1>0, <1>2 DEF RowsFit, Lowest
<1>7. Rewarded'
  <2>. SUFFICES ASSUME NEW e \in Earner, NEW n \in Nat, NEW l \in Nat
                PROVE  Has(e, n, l)' <=> l > Lowest(e, n)' /\ l <= Reached(e, n)'
    BY DEF Rewarded
  <2>1. Has(e, n, l)' <=> n = 0 /\ l \in Crossed(profile[e].level, profile'[e].level)
    <3>1. ASSUME Has(e, n, l)' PROVE n = 0 /\ l \in Crossed(profile[e].level, profile'[e].level)
      <4>1. PICK r \in rewards' : r.player = e /\ r.prestige = n /\ r.level = l
        BY <3>1 DEF Has
      <4>2. PICK f \in Earner : r \in Granted(f, Crossed(profile[f].level, profile'[f].level), 0, "none")
        BY <1>3
      <4>3. r.player = f /\ r.prestige = 0 /\ r.level \in Crossed(profile[f].level, profile'[f].level)
        BY <4>2, GrantedIs
      <4>. QED
        BY <4>1, <4>3
    <3>2. ASSUME n = 0, l \in Crossed(profile[e].level, profile'[e].level) PROVE Has(e, n, l)'
      <4>1. PICK r \in Granted(e, Crossed(profile[e].level, profile'[e].level), 0, "none") :
              r.player = e /\ r.prestige = 0 /\ r.level = l
        BY <3>2, GrantedHas
      <4>2. r \in rewards'
        BY <1>4
      <4>. QED
        BY <3>2, <4>1, <4>2 DEF Has
    <3>. QED
      BY <3>1, <3>2
  <2>2. Lowest(e, n)' = IF n = 0 THEN profile[e].level ELSE 1
    BY <1>0, <1>2 DEF Lowest
  <2>3. Reached(e, n)' = IF n = 0 THEN profile'[e].level ELSE 0
    BY <1>2 DEF Reached
  <2>. QED
    BY <1>2, <2>1, <2>2, <2>3 DEF Crossed
<1>8. Receipts'
  <2>1. \A r \in rewards' : r.match = "none"
    BY <1>3, GrantedIs
  <2>. QED
    BY <2>1 DEF Receipts
<1>9. MedalShape'
  BY <1>0, <1>1, <1>2 DEF MedalShape
<1>. QED
  BY <1>5, <1>6, <1>7, <1>8, <1>9 DEF ProgressionIInv

\* What settling a match does to the profile of a player.
Earns(m, team, points, worth, e) ==
  /\ e \in team /\ MatchXp(points[e], worth) # 0
  /\ ~\E r \in xpLedger : r.player = e /\ r.match = m

Settled(m, team, points, worth, e) ==
  LET p == profile[e]  q == profile'[e]  x == MatchXp(points[e], worth) IN
  /\ p \in ProfileRow /\ q \in ProfileRow /\ Valid(p) /\ Valid(q)
  /\ q.prestige = p.prestige /\ q.reserve = p.reserve
  /\ p.level <= q.level /\ q.level <= p.level + 1
  /\ IF Earns(m, team, points, worth, e)
     THEN x \in 1..MatchCap /\ Worth(q) = Lesser(Worth(p) + x, Full) ELSE q = p

LEMMA SettledProfile ==
  ASSUME ProgressionIInv, NEW m \in Game, NEW team \in SUBSET Earner, NEW worth \in {RoundXp, KillXp},
         NEW points \in [team -> 0..Points], SettleProfiles(m, team, points, worth), NEW e \in Earner
  PROVE  Settled(m, team, points, worth, e)
<1>. DEFINE p == profile[e]  q == profile'[e]  x == MatchXp(points[e], worth)
            earns == Earns(m, team, points, worth, e)
<1>1. converted /\ q = IF earns THEN Advanced(p, x) ELSE p
  BY DEF SettleProfiles, Earns
<1>2. p \in ProfileRow /\ Valid(p)
  BY <1>1, RowTypes DEF ProgressionIInv, RowsFit
<1>3. p.level \in 1..TopLevel /\ MatchCap \in 0..PerLevel /\ PerLevel \in Nat
  BY <1>2, RowTypes, ProgressionAssumption
<1>4. CASE earns
  <2>1. points[e] \in Nat /\ worth \in Nat
    BY <1>4, ProgressionAssumption DEF Earns
  <2>2. x \in 0..MatchCap
    BY <2>1, MatchXpFits
  <2>. HIDE DEF x
  <2>3. x \in 1..MatchCap /\ x \in Nat /\ x <= PerLevel
    BY <1>3, <1>4, <2>2 DEF Earns, x
  <2>. DEFINE a == Advanced(p, x)
  <2>4. /\ a \in ProfileRow /\ Valid(a) /\ a.level >= p.level /\ a.reserve = p.reserve /\ a.prestige = p.prestige
        /\ Worth(a) = Lesser(Worth(p) + x, Full) /\ (x <= PerLevel => a.level <= p.level + 1)
    BY <1>2, <2>3, AdvancedFits
  <2>5. q = a
    BY <1>1, <1>4
  <2>6. a.level \in 1..TopLevel
    BY <2>4, RowTypes
  <2>. HIDE DEF a
  <2>7. /\ q \in ProfileRow /\ Valid(q) /\ q.prestige = p.prestige /\ q.reserve = p.reserve
        /\ p.level <= q.level /\ q.level <= p.level + 1
        /\ x \in 1..MatchCap /\ Worth(q) = Lesser(Worth(p) + x, Full)
    BY <1>3, <2>3, <2>4, <2>5, <2>6
  <2>. QED
    BY <1>2, <1>4, <2>7 DEF Settled, x
<1>5. CASE ~earns
  BY <1>1, <1>2, <1>3, <1>5 DEF Settled
<1>. QED
  BY <1>4, <1>5

LEMMA SettleKeeps ==
  ASSUME ProgressionIInv, NEW m \in Game, NEW team \in SUBSET Earner, NEW worth \in {RoundXp, KillXp},
         NEW points \in [team -> 0..Points], SettleProfiles(m, team, points, worth)
  PROVE  ProgressionIInv'
<1>. DEFINE x(e) == MatchXp(points[e], worth)
            earns(e) == e \in team /\ x(e) # 0 /\ ~\E r \in xpLedger : r.player = e /\ r.match = m
            crossed(e) == Crossed(profile[e].level, profile'[e].level)
            new(e) == Granted(e, crossed(e), profile[e].prestige, m)
<1>0. /\ converted /\ converted' = converted /\ m \notin paid /\ paid' = paid \cup {m}
      /\ profile' = [e \in Earner |-> IF earns(e) THEN Advanced(profile[e], x(e)) ELSE profile[e]]
      /\ rewards' = rewards \cup UNION {new(e) : e \in Earner}
      /\ xpLedger' = xpLedger \cup {[player |-> e, match |-> m, xp |-> x(e)] : e \in {f \in Earner : earns(f)}}
      /\ entered' = entered /\ ownedTier' = ownedTier /\ redeemed' = redeemed
  BY DEF SettleProfiles
<1>1. ASSUME NEW e \in Earner
      PROVE  /\ profile[e] \in ProfileRow /\ profile'[e] \in ProfileRow /\ Valid(profile'[e])
             /\ profile'[e].prestige = profile[e].prestige
             /\ profile[e].level <= profile'[e].level /\ profile'[e].level <= profile[e].level + 1
             /\ (earns(e) => x(e) \in 1..MatchCap)
  <2>1. Settled(m, team, points, worth, e)
    BY SettledProfile
  <2>. QED
    BY <2>1 DEF Settled, Earns
<1>2. \A e \in Earner : /\ profile[e].level \in 1..TopLevel /\ profile'[e].level \in 1..TopLevel
                        /\ profile[e].prestige \in Nat
                        /\ \A l \in crossed(e) : l \in 1..TopLevel /\ l = profile[e].level + 1
  <2>1. TopLevel \in Nat
    BY ProgressionAssumption
  <2>2. \A e \in Earner : /\ profile[e].level \in 1..TopLevel /\ profile'[e].level \in 1..TopLevel
                          /\ profile[e].prestige \in Nat
    BY <1>1, RowTypes
  <2>. QED
    BY <1>1, <2>1, <2>2 DEF Crossed
<1>3. /\ \A r \in rewards' : r \in rewards \/ \E e \in Earner : r \in new(e)
      /\ \A r \in rewards : r \in rewards'
      /\ \A e \in Earner : new(e) \subseteq rewards'
  BY <1>0
<1>4. \A e \in Earner : \A r \in new(e) :
        /\ r = [player |-> e, prestige |-> profile[e].prestige, level |-> r.level, match |-> m]
        /\ r.player = e /\ r.prestige = profile[e].prestige /\ r.match = m /\ r.level \in crossed(e)
  BY GrantedIs
<1>5. ProgressionTypeOK'
  <2>0. ProgressionTypeOK
    BY DEF ProgressionIInv
  <2>1. profile' \in [Earner -> ProfileRow]
    <3>1. profile' = [e \in Earner |-> profile'[e]]
      BY <1>0
    <3>. QED
      BY <1>1, <3>1
  <2>2. xpLedger' \subseteq [player : Earner, match : Game, xp : 1..MatchCap]
    <3>1. \A e \in Earner : earns(e) =>
            [player |-> e, match |-> m, xp |-> x(e)] \in [player : Earner, match : Game, xp : 1..MatchCap]
      BY <1>1
    <3>. HIDE DEF x, earns
    <3>. QED
      BY <1>0, <2>0, <3>1 DEF ProgressionTypeOK
  <2>3. ASSUME NEW r \in rewards'
        PROVE  r \in [player : Earner, prestige : Nat, level : 1..TopLevel, match : Game \cup {"none"}]
    <3>1. CASE r \in rewards
      BY <2>0, <3>1 DEF ProgressionTypeOK
    <3>2. CASE \E e \in Earner : r \in new(e)
      <4>. HIDE DEF new, crossed
      <4>1. PICK e \in Earner : r \in new(e)
        BY <3>2
      <4>2. r.level \in 1..TopLevel /\ profile[e].prestige \in Nat
        BY <1>2, <1>4, <4>1
      <4>3. r = [player |-> e, prestige |-> profile[e].prestige, level |-> r.level, match |-> m]
        BY <1>4, <4>1
      <4>. QED
        BY <4>2, <4>3
    <3>. QED
      BY <1>3, <3>1, <3>2
  <2>. QED
    BY <1>0, <2>0, <2>1, <2>2, <2>3 DEF ProgressionTypeOK, ProfileRow
<1>a. ASSUME NEW e \in Earner
      PROVE  /\ Lowest(e, profile[e].prestige) \in Nat /\ Lowest(e, profile[e].prestige) <= profile[e].level
             /\ \A n \in Nat : Lowest(e, n)' = Lowest(e, n)
  <2>1. Lowest(e, profile[e].prestige) <= profile[e].level
    BY <1>0 DEF ProgressionIInv, RowsFit
  <2>2. Lowest(e, profile[e].prestige) \in Nat
    BY DEF ProgressionIInv, ProgressionTypeOK, Lowest
  <2>3. \A n \in Nat : Lowest(e, n)' = Lowest(e, n)
    BY <1>0 DEF Lowest
  <2>. QED
    BY <2>1, <2>2, <2>3
<1>6. RowsFit'
  <2>1. ASSUME NEW e \in Earner PROVE Lowest(e, profile[e].prestige)' <= profile'[e].level
    <3>1. Lowest(e, profile[e].prestige)' = Lowest(e, profile[e].prestige)
      BY <1>0, <1>1 DEF Lowest
    <3>. QED
      BY <1>1, <1>2, <1>a, <3>1
  <2>. QED
    BY <1>0, <1>1, <2>1 DEF RowsFit
<1>7. Rewarded'
  <2>. SUFFICES ASSUME NEW e \in Earner, NEW n \in Nat, NEW l \in Nat
                PROVE  Has(e, n, l)' <=> l > Lowest(e, n)' /\ l <= Reached(e, n)'
    BY DEF Rewarded
  <2>1. Has(e, n, l)' <=> Has(e, n, l) \/ (n = profile[e].prestige /\ l \in crossed(e))
    <3>1. ASSUME Has(e, n, l)', ~Has(e, n, l) PROVE n = profile[e].prestige /\ l \in crossed(e)
      <4>. HIDE DEF new, crossed
      <4>1. PICK r \in rewards' : r.player = e /\ r.prestige = n /\ r.level = l
        BY <3>1 DEF Has
      <4>2. PICK f \in Earner : r \in new(f)
        BY <1>3, <3>1, <4>1 DEF Has
      <4>3. r.player = f /\ r.prestige = profile[f].prestige /\ r.level \in crossed(f)
        BY <1>4, <4>2
      <4>. QED
        BY <4>1, <4>3
    <3>2. ASSUME n = profile[e].prestige, l \in crossed(e) PROVE Has(e, n, l)'
      <4>1. PICK r \in new(e) : r.player = e /\ r.prestige = profile[e].prestige /\ r.level = l
        <5>. HIDE DEF crossed
        <5>. QED
          BY <3>2, GrantedHas
      <4>2. r \in rewards'
        BY <1>3
      <4>. QED
        BY <3>2, <4>1, <4>2 DEF Has
    <3>3. Has(e, n, l) => Has(e, n, l)'
      BY <1>3 DEF Has
    <3>. QED
      BY <3>1, <3>2, <3>3
  <2>2. Has(e, n, l) <=> l > Lowest(e, n) /\ l <= Reached(e, n)
    BY <1>0 DEF ProgressionIInv, Rewarded
  <2>3. Lowest(e, n)' = Lowest(e, n)
    BY <1>0 DEF Lowest
  <2>4. CASE n = profile[e].prestige
    <3>1. Reached(e, n) = profile[e].level /\ Reached(e, n)' = profile'[e].level
      BY <1>1, <1>2, <2>4 DEF Reached
    <3>2. Lowest(e, n) \in Nat /\ Lowest(e, n) <= profile[e].level
      BY <1>a, <2>4
    <3>. QED
      BY <1>1, <1>2, <2>1, <2>2, <2>3, <2>4, <3>1, <3>2 DEF Crossed
  <2>5. CASE n # profile[e].prestige
    <3>1. Reached(e, n)' = Reached(e, n)
      BY <1>1, <1>2, <2>5 DEF Reached
    <3>. QED
      BY <2>1, <2>2, <2>3, <2>5, <3>1
  <2>. QED
    BY <2>4, <2>5
<1>8. Receipts'
  <2>. HIDE DEF new, crossed
  <2>0. Receipts
    BY DEF ProgressionIInv
  <2>1. ASSUME NEW r \in rewards', r.match # "none" PROVE r.match \in paid'
    BY <1>0, <1>3, <1>4, <2>0, <2>1 DEF Receipts
  <2>2. \A r \in rewards : r.match # m
    BY <1>0, <2>0, ProgressionAssumption DEF Receipts
  <2>3. ASSUME NEW r \in rewards', NEW s \in rewards', r.player = s.player, r.match = s.match, r.match # "none"
        PROVE  r = s
    <3>1. CASE r \in rewards
      <4>1. s \in rewards
        BY <1>3, <1>4, <2>2, <2>3, <3>1
      <4>. QED
        BY <2>0, <2>3, <3>1, <4>1 DEF Receipts
    <3>2. CASE \E e \in Earner : r \in new(e)
      <4>1. PICK e \in Earner : r \in new(e)
        BY <3>2
      <4>2. r.match = m /\ r.player = e
        BY <1>4, <4>1
      <4>3. PICK f \in Earner : s \in new(f)
        BY <1>3, <2>2, <2>3, <4>2
      <4>4. f = e
        BY <1>4, <2>3, <4>2, <4>3
      <4>5. r.level = profile[e].level + 1 /\ s.level = profile[e].level + 1
        BY <1>2, <1>4, <4>1, <4>3, <4>4
      <4>. QED
        BY <1>4, <4>1, <4>3, <4>4, <4>5
    <3>. QED
      BY <1>3, <3>1, <3>2
  <2>. QED
    BY <2>1, <2>3 DEF Receipts
<1>9. MedalShape'
  BY <1>0, <1>1 DEF MedalShape, ProgressionIInv
<1>. QED
  BY <1>5, <1>6, <1>7, <1>8, <1>9 DEF ProgressionIInv

\* What a redemption does: the profile starts again with the next prestige.
Renewed(e) == Advanced(Profile(1, 0, 0, profile[e].prestige + 1), profile[e].reserve)

LEMMA RenewedFits ==
  ASSUME ProgressionTypeOK, NEW e \in Earner
  PROVE  LET q == Renewed(e) IN
         /\ q \in ProfileRow /\ Valid(q) /\ q.level \in 1..TopLevel
         /\ q.reserve = 0 /\ q.prestige = profile[e].prestige + 1
         /\ Worth(q) = Lesser(profile[e].reserve, Full)
<1>. DEFINE p == profile[e]  first == Profile(1, 0, 0, p.prestige + 1)
<1>1. p.reserve \in Nat /\ p.prestige \in Nat
  BY RowTypes
<1>2. PerLevel \in Nat \ {0} /\ TopLevel \in Nat \ {0, 1}
  BY ProgressionAssumption
<1>3. /\ first \in ProfileRow /\ first.level = 1 /\ first.xp = 0 /\ first.reserve = 0
      /\ first.prestige = p.prestige + 1
  BY <1>1, <1>2 DEF Profile, ProfileRow
<1>4. Valid(first) /\ Worth(first) = 0
  <2>. HIDE DEF first
  <2>. QED
    BY <1>2, <1>3 DEF Valid, Worth
<1>. HIDE DEF first
<1>5. LET q == Advanced(first, p.reserve) IN
      /\ q \in ProfileRow /\ Valid(q) /\ q.reserve = first.reserve /\ q.prestige = first.prestige
      /\ Worth(q) = Lesser(Worth(first) + p.reserve, Full)
  BY <1>1, <1>3, <1>4, AdvancedFits
<1>6. Renewed(e) = Advanced(first, p.reserve)
  BY DEF Renewed, first
<1>7. Renewed(e) \in ProfileRow /\ Renewed(e).level \in 1..TopLevel
  BY <1>5, <1>6, RowTypes
<1>8. Worth(first) + p.reserve = p.reserve
  BY <1>1, <1>4
<1>. QED
  BY <1>3, <1>5, <1>6, <1>7, <1>8

LEMMA RedeemKeeps ==
  ASSUME ProgressionIInv, NEW e \in Earner, NEW d \in Medal, Redeem(e, d)
  PROVE  ProgressionIInv'
<1>. DEFINE p == profile[e]  next == Renewed(e)  levels == Crossed(1, next.level)
            new == Granted(e, levels, next.prestige, "none")
<1>0. /\ converted /\ converted' = converted
      /\ d \notin redeemed[e] /\ Rank(d) = p.prestige /\ p.level = TopLevel
      /\ ownedTier[e][d[2]] = d[1] - 1
      /\ ownedTier' = [ownedTier EXCEPT ![e][d[2]] = d[1]]
      /\ redeemed' = [redeemed EXCEPT ![e] = @ \cup {d}]
      /\ profile' = [profile EXCEPT ![e] = next]
      /\ rewards' = rewards \cup new
      /\ entered' = entered /\ xpLedger' = xpLedger /\ paid' = paid
  BY DEF Redeem, TierRaised, Renewed
<1>1. ProgressionTypeOK /\ Receipts /\ MedalShape /\ RowsFit /\ Rewarded
  BY DEF ProgressionIInv
<1>2. /\ next \in ProfileRow /\ Valid(next) /\ next.level \in 1..TopLevel
      /\ next.prestige = p.prestige + 1
  BY <1>1, RenewedFits
<1>3. /\ p.prestige \in Nat /\ TopLevel \in Nat \ {0, 1} /\ next.prestige \in Nat
      /\ profile'[e] = next /\ \A f \in Earner : f # e => profile'[f] = profile[f]
      /\ \A f \in Earner : profile[f] \in ProfileRow
  <2>1. p.prestige \in Nat /\ \A f \in Earner : profile[f] \in ProfileRow
    BY <1>1, RowTypes
  <2>2. profile'[e] = next /\ \A f \in Earner : f # e => profile'[f] = profile[f]
    BY <1>0, <1>1 DEF ProgressionTypeOK
  <2>. QED
    BY <1>2, <2>1, <2>2, ProgressionAssumption
<1>. HIDE DEF next
<1>4. \A l \in levels : l \in 1..TopLevel
  BY <1>2, <1>3 DEF Crossed
<1>5. \A r \in new : /\ r = [player |-> e, prestige |-> next.prestige, level |-> r.level, match |-> "none"]
                     /\ r.player = e /\ r.prestige = next.prestige /\ r.match = "none" /\ r.level \in levels
  BY GrantedIs
<1>. HIDE DEF levels
<1>6. ProgressionTypeOK'
  <2>1. profile' \in [Earner -> ProfileRow]
    BY <1>0, <1>1, <1>2 DEF ProgressionTypeOK, ProfileRow
  <2>2. ASSUME NEW r \in rewards'
        PROVE  r \in [player : Earner, prestige : Nat, level : 1..TopLevel, match : Game \cup {"none"}]
    <3>1. CASE r \in rewards
      BY <1>1, <3>1 DEF ProgressionTypeOK
    <3>2. CASE r \in new
      <4>. HIDE DEF new
      <4>1. r.level \in 1..TopLevel
        BY <1>4, <1>5, <3>2
      <4>2. r = [player |-> e, prestige |-> next.prestige, level |-> r.level, match |-> "none"]
        BY <1>5, <3>2
      <4>. QED
        BY <1>3, <4>1, <4>2
    <3>. QED
      BY <1>0, <3>1, <3>2
  <2>3. d[1] \in 0..MaxTier /\ d[2] \in 1..Years
    BY MedalParts
  <2>4. ownedTier' \in [Earner -> [1..Years -> 0..MaxTier]]
    BY <1>0, <1>1, <2>3 DEF ProgressionTypeOK
  <2>5. redeemed' \in [Earner -> SUBSET Medal]
    BY <1>0, <1>1 DEF ProgressionTypeOK
  <2>. QED
    BY <1>0, <1>1, <2>1, <2>2, <2>4, <2>5 DEF ProgressionTypeOK, ProfileRow
<1>7. RowsFit'
  <2>1. ASSUME NEW f \in Earner
        PROVE  Valid(profile'[f]) /\ (IF profile'[f].prestige = 0 THEN entered[f] ELSE 1) <= profile'[f].level
    <3>1. CASE f = e
      BY <1>2, <1>3, <3>1
    <3>2. CASE f # e
      BY <1>0, <1>1, <1>3, <3>2 DEF RowsFit, Lowest
    <3>. QED
      BY <3>1, <3>2
  <2>. QED
    BY <1>0, <2>1 DEF RowsFit, Lowest
<1>8. Rewarded'
  <2>. SUFFICES ASSUME NEW f \in Earner, NEW n \in Nat, NEW l \in Nat
                PROVE  Has(f, n, l)' <=> l > Lowest(f, n)' /\ l <= Reached(f, n)'
    BY DEF Rewarded
  <2>1. Has(f, n, l)' <=> Has(f, n, l) \/ (f = e /\ n = next.prestige /\ l \in levels)
    <3>1. ASSUME f = e, n = next.prestige, l \in levels PROVE Has(f, n, l)'
      <4>1. PICK r \in new : r.player = e /\ r.prestige = next.prestige /\ r.level = l
        BY <3>1, GrantedHas
      <4>. QED
        BY <1>0, <3>1, <4>1 DEF Has
    <3>. HIDE DEF new
    <3>2. ASSUME Has(f, n, l)', ~Has(f, n, l) PROVE f = e /\ n = next.prestige /\ l \in levels
      <4>1. PICK r \in rewards' : r.player = f /\ r.prestige = n /\ r.level = l
        BY <3>2 DEF Has
      <4>2. r \in new
        BY <1>0, <3>2, <4>1 DEF Has
      <4>. QED
        BY <1>5, <4>1, <4>2
    <3>3. Has(f, n, l) => Has(f, n, l)'
      BY <1>0 DEF Has
    <3>. QED
      BY <3>1, <3>2, <3>3
  <2>2. Has(f, n, l) <=> l > Lowest(f, n) /\ l <= Reached(f, n)
    BY <1>0, <1>1 DEF Rewarded
  <2>3. Lowest(f, n)' = Lowest(f, n)
    BY <1>0 DEF Lowest
  <2>4. CASE f # e
    <3>1. Reached(f, n)' = Reached(f, n)
      BY <1>3, <2>4 DEF Reached
    <3>. QED
      BY <2>1, <2>2, <2>3, <2>4, <3>1
  <2>5. CASE f = e /\ n = next.prestige
    <3>1. Reached(f, n)' = next.level /\ Reached(f, n) = 0 /\ Lowest(f, n) = 1
      BY <1>2, <1>3, <2>5 DEF Reached, Lowest
    <3>2. l \in levels <=> l > 1 /\ l <= next.level
      BY <1>2 DEF Crossed, levels
    <3>. QED
      BY <2>1, <2>2, <2>3, <2>5, <3>1, <3>2
  <2>6. CASE f = e /\ n # next.prestige
    <3>1. Reached(f, n)' = Reached(f, n)
      BY <1>0, <1>2, <1>3, <2>6 DEF Reached
    <3>. QED
      BY <2>1, <2>2, <2>3, <2>6, <3>1
  <2>. QED
    BY <2>4, <2>5, <2>6
<1>9. Receipts'
  BY <1>0, <1>1, <1>5 DEF Receipts
<1>10. MedalShape'
  <2>. SUFFICES ASSUME NEW f \in Earner, NEW c \in Medal
                PROVE  /\ c \in redeemed'[f] <=> Rank(c) < profile'[f].prestige
                       /\ c[1] <= ownedTier'[f][c[2]] <=> Rank(c) < profile'[f].prestige
    BY DEF MedalShape
  <2>1. /\ c \in redeemed[f] <=> Rank(c) < profile[f].prestige
        /\ c[1] <= ownedTier[f][c[2]] <=> Rank(c) < profile[f].prestige
    BY <1>1 DEF MedalShape
  <2>2. /\ c[2] \in 1..Years /\ d[2] \in 1..Years /\ c[1] \in Nat /\ d[1] \in Nat
        /\ Rank(c) \in Nat /\ Rank(d) \in Nat
    BY MedalParts, MedalFinite
  <2>3. /\ redeemed'[f] = IF f = e THEN redeemed[e] \cup {d} ELSE redeemed[f]
        /\ ownedTier'[f][c[2]] = IF f = e /\ c[2] = d[2] THEN d[1] ELSE ownedTier[f][c[2]]
    BY <1>0, <1>1, <2>2 DEF ProgressionTypeOK
  <2>4. CASE f # e
    BY <1>3, <2>1, <2>3, <2>4
  <2>5. CASE f = e
    <3>1. Rank(c) < profile'[f].prestige <=> Rank(c) < profile[f].prestige \/ Rank(c) = Rank(d)
      BY <1>0, <1>2, <1>3, <2>2, <2>5
    <3>2. Rank(c) = Rank(d) <=> c = d
      BY RankIsOne
    <3>3. c[2] = d[2] => (c[1] <= d[1] <=> Rank(c) <= Rank(d))
      BY TiersRise
    <3>4. Rank(d) = profile[f].prestige
      BY <1>0, <2>5
    <3>5. c \in redeemed'[f] <=> Rank(c) < profile'[f].prestige
      BY <2>1, <2>3, <2>5, <3>1, <3>2
    <3>6. CASE c[2] = d[2]
      BY <2>2, <2>3, <2>5, <3>1, <3>3, <3>4, <3>5, <3>6
    <3>7. CASE c[2] # d[2]
      BY <2>1, <2>3, <2>5, <3>1, <3>2, <3>5, <3>7
    <3>. QED
      BY <3>6, <3>7
  <2>. QED
    BY <2>4, <2>5
<1>. QED
  BY <1>6, <1>7, <1>8, <1>9, <1>10 DEF ProgressionIInv

LEMMA NextProgression == ProgressionIInv /\ [ProgressionNext]_progressionVars => ProgressionIInv'
<1>. SUFFICES ASSUME ProgressionIInv, [ProgressionNext]_progressionVars PROVE ProgressionIInv'
  OBVIOUS
<1>1. CASE ConvertProfileXp
  BY <1>1, ConvertKeeps
<1>2. ASSUME NEW m \in Game, NEW team \in SUBSET Earner, NEW worth \in {RoundXp, KillXp},
             NEW points \in [team -> 0..Points], SettleProfiles(m, team, points, worth)
      PROVE  ProgressionIInv'
  BY <1>2, SettleKeeps
<1>3. ASSUME NEW e \in Earner, NEW d \in Medal, Redeem(e, d) PROVE ProgressionIInv'
  BY <1>3, RedeemKeeps
<1>4. CASE UNCHANGED progressionVars
  BY <1>4 DEF progressionVars, ProgressionIInv, ProgressionTypeOK, RowsFit, NothingYet, Rewarded, Receipts, MedalShape,
              Has, Lowest, Reached
<1>. QED
  BY <1>1, <1>2, <1>3, <1>4 DEF ProgressionNext

THEOREM ProgressionInvariant == ProgressionSpec => []ProgressionIInv
BY InitProgression, NextProgression, PTL DEF ProgressionSpec

\* Profiles, ledger, rewards and medals have their types in every reachable
\* state (ProgressionTypeOK).
THEOREM ProgressionTypes == ProgressionSpec => []ProgressionTypeOK
<1>1. ProgressionIInv => ProgressionTypeOK
  BY DEF ProgressionIInv
<1>. QED
  BY <1>1, ProgressionInvariant, PTL

\* Every level a player has reached since entering has its reward, in every
\* prestige and once, and a match rewards one level of a player
\* (LevelsRewardedOnce): for every cap of a match that is no more than a level
\* takes, and any number of levels and medals.
THEOREM LevelsAreRewardedOnce == ProgressionSpec => []LevelsRewardedOnce
<1>1. ASSUME ProgressionIInv PROVE LevelsRewardedOnce
  <2>1. Rewarded /\ Receipts /\ (converted => \A e \in Earner : Valid(profile[e]))
    BY <1>1 DEF ProgressionIInv, RowsFit
  <2>2. TopLevel \in Nat /\ Cardinality(Medal) \in Nat
    BY ProgressionAssumption, MedalFinite, FS_CardinalityType
  <2>3. \A e \in Earner, n \in 0..Cardinality(Medal), l \in 1..TopLevel :
          Has(e, n, l) <=> l > Lowest(e, n) /\ l <= Reached(e, n)
    BY <2>1, <2>2 DEF Rewarded
  <2>. QED
    BY <2>1, <2>3 DEF LevelsRewardedOnce, Receipts
<1>. QED
  BY <1>1, ProgressionInvariant, PTL

\* The next medal of a player always finds the tier before it
\* (MedalsInOrder), for every plan of tiers and years.
THEOREM MedalsAreInOrder == ProgressionSpec => []MedalsInOrder
<1>1. ASSUME ProgressionIInv, NEW e \in Earner, NEW d \in Medal, Rank(d) = profile[e].prestige
      PROVE  ownedTier[e][d[2]] = d[1] - 1
  <2>0. ProgressionTypeOK /\ MedalShape
    BY <1>1 DEF ProgressionIInv
  <2>1. d[1] \in 1..MaxTier /\ d[2] \in 1..Years /\ d[1] <= Tiers[d[2]] /\ Rank(d) \in Nat /\ MaxTier \in Nat
    BY MedalParts, MedalFinite, ProgressionAssumption
  <2>2. ownedTier[e][d[2]] \in 0..MaxTier
    BY <2>0, <2>1 DEF ProgressionTypeOK
  <2>3. ownedTier[e][d[2]] < d[1]
    <3>1. ~(d[1] <= ownedTier[e][d[2]])
      BY <1>1, <2>0, <2>1 DEF MedalShape
    <3>. QED
      BY <2>1, <2>2, <3>1
  <2>4. CASE d[1] = 1
    BY <2>2, <2>3, <2>4
  <2>5. CASE d[1] # 1
    <3>. DEFINE c == <<d[1] - 1, d[2]>>
    <3>1. c[1] = d[1] - 1 /\ c[2] = d[2]
      OBVIOUS
    <3>2. c \in Medal
      <4>1. Tiers[d[2]] \in 1..MaxTier
        BY <2>1, ProgressionAssumption
      <4>2. d[1] - 1 \in 1..MaxTier /\ d[1] - 1 <= Tiers[d[2]]
        BY <2>1, <2>5, <4>1
      <4>. QED
        BY <2>1, <4>2 DEF Medal
    <3>. HIDE DEF c
    <3>3. Rank(c) < Rank(d)
      <4>1. Earlier(c, d)
        BY <2>1, <3>1 DEF Earlier
      <4>. QED
        BY <3>2, <4>1, RankOrder
    <3>4. c[1] <= ownedTier[e][c[2]]
      BY <1>1, <2>0, <3>2, <3>3 DEF MedalShape
    <3>. QED
      BY <2>1, <2>2, <2>3, <3>1, <3>4
  <2>. QED
    BY <2>4, <2>5
<1>2. ASSUME ProgressionIInv PROVE MedalsInOrder
  <2>1. \A e \in Earner : redeemed[e] = {d \in Medal : Rank(d) < profile[e].prestige}
    BY <1>2 DEF ProgressionIInv, ProgressionTypeOK, MedalShape
  <2>. QED
    BY <1>1, <1>2, <2>1 DEF MedalsInOrder
<1>. QED
  BY <1>2, ProgressionInvariant, PTL

LEMMA WorthFits ==
  ASSUME NEW p \in ProfileRow, Valid(p)
  PROVE  Worth(p) \in Nat /\ Worth(p) = Lesser(Worth(p) + 0, Full)
<1>. DEFINE base == (p.level - 1) * PerLevel  last == (TopLevel - 1) * PerLevel
<1>1. /\ PerLevel \in Nat \ {0} /\ TopLevel \in Nat \ {0, 1}
      /\ p.level \in 1..TopLevel /\ p.xp \in 0..(PerLevel - 1)
  BY RowTypes, ProgressionAssumption DEF Valid
<1>2. base \in Nat /\ last \in Nat /\ base <= last
  BY <1>1, Products, Grows
<1>3. TopLevel * PerLevel = last + PerLevel
  <2>1. ((TopLevel - 1) + 1) * PerLevel = last + 1 * PerLevel
    BY <1>1, Distributes
  <2>. QED
    BY <1>1, <2>1
<1>4. Worth(p) = base + p.xp /\ Full = last + PerLevel - 1
  BY <1>1, <1>2, <1>3 DEF Worth, Full
<1>. HIDE DEF base, last
<1>. QED
  BY <1>1, <1>2, <1>4 DEF Lesser

\* The two ways in which a step leaves no receipt, or one, for a player.
LEMMA NothingPaid == ASSUME NEW e, ~\E r \in xpLedger' \ xpLedger : r.player = e PROVE Paid(e, 0)
BY DEF Paid

LEMMA Unmoved ==
  ASSUME ProgressionTypeOK, RowsFit, converted, NEW e \in Earner, profile'[e] = profile[e]
  PROVE  KeepsXp(e, 0)
BY WorthFits, RowTypes DEF RowsFit, KeepsXp

LEMMA StepKeepsXp ==
  ProgressionIInv /\ ProgressionNext => \A e \in Earner : \E x \in 0..MatchCap : Paid(e, x) /\ KeepsXp(e, x)
<1>. SUFFICES ASSUME ProgressionIInv, ProgressionNext, NEW e \in Earner
              PROVE  \E x \in 0..MatchCap : Paid(e, x) /\ KeepsXp(e, x)
  OBVIOUS
<1>0. 0 \in 0..MatchCap /\ ProgressionTypeOK /\ RowsFit
  BY ProgressionAssumption DEF ProgressionIInv
<1>1. CASE ConvertProfileXp
  <2>1. ~converted /\ xpLedger' = xpLedger /\ profile'[e] = Converted(profile[e])
    BY <1>1 DEF ConvertProfileXp
  <2>2. profile[e] \in ProfileRow /\ profile[e].reserve = 0
    BY <1>0, <2>1, RowTypes DEF RowsFit, NothingYet
  <2>3. Worth(profile'[e]) + profile'[e].reserve = Worth(profile[e]) + profile[e].reserve
    BY <2>1, <2>2, ConvertedFits
  <2>4. Paid(e, 0)
    BY <2>1, NothingPaid
  <2>5. KeepsXp(e, 0)
    BY <2>1, <2>3 DEF KeepsXp
  <2>. QED
    BY <1>0, <2>4, <2>5
<1>2. ASSUME NEW m \in Game, NEW team \in SUBSET Earner, NEW worth \in {RoundXp, KillXp},
             NEW points \in [team -> 0..Points], SettleProfiles(m, team, points, worth)
      PROVE  \E x \in 0..MatchCap : Paid(e, x) /\ KeepsXp(e, x)
  <2>. DEFINE x(f) == MatchXp(points[f], worth)  earns(f) == Earns(m, team, points, worth, f)
              receipt(f) == [player |-> f, match |-> m, xp |-> x(f)]
  <2>1. Settled(m, team, points, worth, e)
    BY <1>2, SettledProfile
  <2>2. converted /\ xpLedger' = xpLedger \cup {receipt(f) : f \in {g \in Earner : earns(g)}}
    BY <1>2 DEF SettleProfiles, Earns
  <2>3. \A f : receipt(f).player = f /\ receipt(f).match = m /\ receipt(f).xp = x(f)
    OBVIOUS
  <2>. HIDE DEF receipt
  <2>4. CASE earns(e)
    <3>1. receipt(e) \in xpLedger' \ xpLedger
      BY <2>2, <2>3, <2>4 DEF Earns
    <3>2. Paid(e, x(e))
      BY <2>3, <3>1 DEF Paid
    <3>3. x(e) \in 0..MatchCap /\ KeepsXp(e, x(e))
      BY <2>1, <2>2, <2>4, ProgressionAssumption DEF Settled, KeepsXp
    <3>. QED
      BY <3>2, <3>3
  <2>5. CASE ~earns(e)
    <3>1. ~\E r \in xpLedger' \ xpLedger : r.player = e
      <4>. HIDE DEF earns
      <4>. QED
        BY <2>2, <2>3, <2>5
    <3>2. profile'[e] = profile[e]
      BY <2>1, <2>5 DEF Settled
    <3>. QED
      BY <1>0, <2>2, <3>1, <3>2, NothingPaid, Unmoved
  <2>. QED
    BY <2>4, <2>5
<1>3. ASSUME NEW f \in Earner, NEW d \in Medal, Redeem(f, d)
      PROVE  \E x \in 0..MatchCap : Paid(e, x) /\ KeepsXp(e, x)
  <2>1. /\ converted /\ profile[f].level = TopLevel /\ xpLedger' = xpLedger
        /\ profile' = [profile EXCEPT ![f] = Renewed(f)]
    BY <1>3 DEF Redeem, Renewed
  <2>2. Paid(e, 0)
    BY <2>1, NothingPaid
  <2>3. CASE e = f
    <3>1. profile'[e] = Renewed(e)
      BY <1>0, <2>1, <2>3 DEF ProgressionTypeOK
    <3>2. LET q == Renewed(e) IN
          q.reserve = 0 /\ q.prestige = profile[e].prestige + 1 /\ Worth(q) = Lesser(profile[e].reserve, Full)
      BY <1>0, RenewedFits
    <3>3. profile[e].prestige \in Nat
      BY <1>0, RowTypes
    <3>4. KeepsXp(e, 0)
      BY <2>1, <2>3, <3>1, <3>2, <3>3 DEF KeepsXp
    <3>. QED
      BY <1>0, <2>2, <3>4
  <2>4. CASE e # f
    <3>1. profile'[e] = profile[e]
      BY <1>0, <2>1, <2>4 DEF ProgressionTypeOK
    <3>. QED
      BY <1>0, <2>1, <2>2, <3>1, Unmoved
  <2>. QED
    BY <2>3, <2>4
<1>. QED
  BY <1>1, <1>2, <1>3 DEF ProgressionNext

\* No XP is lost or made up where levels are crossed (XpIsConserved), for every
\* XP a level takes, every cap that is no more, and every old XP.
THEOREM XpIsKept == ProgressionSpec => XpIsConserved
<1>. DEFINE Conserved == \A e \in Earner : \E x \in 0..MatchCap : Paid(e, x) /\ KeepsXp(e, x)
<1>1. ProgressionIInv /\ [ProgressionNext]_progressionVars => [Conserved]_progressionVars
  BY StepKeepsXp
<1>. QED
  BY <1>1, ProgressionInvariant, PTL DEF ProgressionSpec, XpIsConserved

-----------------------------------------------------------------------------
(* The services together.                                                  *)

\* Each service is as its module says, since the others leave its variables alone.
LEMMA ServicesApart ==
  Spec => /\ DeathmatchSpec /\ PartiesSpec /\ TradingSpec /\ DemosSpec /\ PluginSpec
          /\ ProgressionSpec
<1>1. Init => /\ DeathmatchInit /\ PartiesInit /\ TradingInit /\ DemosInit /\ PluginInit
              /\ ProgressionInit
  BY DEF Init
<1>2. [Next]_vars => /\ [DeathmatchNext]_deathmatchVars /\ [PartiesNext]_partyVars
                     /\ [TradingNext]_tradingVars /\ [DemosNext]_demoVars /\ [PluginNext]_pluginVars
                     /\ [ProgressionNext]_progressionVars
  BY DEF Next, vars
<1> QED
  BY <1>1, <1>2, PTL DEF Spec, DeathmatchSpec, PartiesSpec, TradingSpec, DemosSpec, PluginSpec, ProgressionSpec

\* One of the services is looked at.
Chosen == service \in {"deathmatch", "parties", "trading", "demos", "plugin", "progression"}

\* Whatever service is looked at, its variables have their types in every
\* reachable state (ServicesTypeOK).
THEOREM ServicesTypes == Spec => []ServicesTypeOK
<1>1. DeathmatchTypeOK /\ PartiesTypeOK /\ TradingTypeOK /\ DemosTypeOK /\ PluginTypeOK
      /\ ProgressionTypeOK /\ Chosen => ServicesTypeOK
  BY DEF ServicesTypeOK, Chosen
<1>2. Init => Chosen
  BY DEF Init, Chosen
<1>3. Chosen /\ [Next]_vars => Chosen'
  BY DEF Next, vars, Chosen
<1>4. Spec => []Chosen
  BY <1>2, <1>3, PTL DEF Spec
<1> QED
  BY <1>1, <1>4, ServicesApart, DeathmatchTypes, PartiesTypes, TradingTypes, DemosTypes, PluginTypes,
     ProgressionTypes, PTL
=============================================================================
