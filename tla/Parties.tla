------------------------------ MODULE Parties ------------------------------
(***************************************************************************)
(* Parties in Redis (redis-party-service.ts).  A party and the pointers of *)
(* its members are changed by Lua scripts, each atomic; getForPlayer and   *)
(* invite read them first with commands of their own.  The queue holds the *)
(* roster of a party while party:<id>:ticket exists.                       *)
(***************************************************************************)
EXTENDS Integers, FiniteSets

LOCAL INSTANCE FiniteSetsExt

CONSTANTS
  Friend,      \* players
  Party,       \* party ids
  Invite,      \* invite ids
  Reader,      \* requests that read before they write
  PartySize    \* 5 in the code

ASSUME PartyAssumption ==
  /\ PartySize \in Nat \ {0}
  /\ "none" \notin Party \cup Friend \cup Invite

VARIABLES
  party,        \* per id party:<id>: whether it exists, its leader, members, who is ready,
                \* and how many more rows of its list each member has than one
  partyOf,      \* per player player:<id>:party
  invite,       \* per id party:invite:<id>
  queued,       \* per party the roster under party:<id>:ticket, {} without one
  reader,       \* per reader how far it is
  strayed       \* players whose pointer was deleted while they were members

partyVars == <<party, partyOf, invite, queued, reader, strayed>>

OneRow == [p \in Friend |-> 0]
NoParty == [made |-> FALSE, leader |-> "none", members |-> {}, ready |-> {}, more |-> OneRow]
NoInvite == [to |-> "none", party |-> "none"]
NotReading == [pc |-> "idle", player |-> "none", party |-> "none", guest |-> "none"]

PartiesInit ==
  /\ party = [g \in Party |-> NoParty]
  /\ partyOf = [p \in Friend |-> "none"]
  /\ invite = [i \in Invite |-> NoInvite]
  /\ queued = [g \in Party |-> {}]
  /\ reader = [r \in Reader |-> NotReading]
  /\ strayed = {}

Exists(g) == g # "none" /\ party[g].members # {}

\* #party.members, where a player may be listed more than once.
Rows(g) == Cardinality(party[g].members) + MapThenSumSet(LAMBDA p : party[g].more[p], Friend)

-----------------------------------------------------------------------------
(* The scripts.                                                            *)

\* CREATE_SCRIPT: the party the player points at, or a new one of his own.
CreateParty(p, g) ==
  /\ ~Exists(partyOf[p]) /\ ~party[g].made
  /\ party' = [party EXCEPT ![g] = [made |-> TRUE, leader |-> p, members |-> {p}, ready |-> {p},
                                      more |-> OneRow]]
  /\ partyOf' = [partyOf EXCEPT ![p] = g]
  /\ UNCHANGED <<invite, queued, reader, strayed>>

\* A row of p is inserted, which is not ready: a second one if p is listed already.
Insert(old, p) ==
  [old EXCEPT !.members = @ \cup {p}, !.ready = @ \ {p},
                !.more = IF p \in old.members THEN [old.more EXCEPT ![p] = @ + 1] ELSE @]

\* Mutant: ACCEPT_SCRIPT does not look for a party of the player's own.
AcceptInviteMutant(i) ==
  LET p == invite[i].to  g == invite[i].party IN
  /\ invite[i] # NoInvite /\ queued[g] = {}
  /\ Exists(g) /\ Rows(g) < PartySize
  /\ party' = [party EXCEPT ![g] = Insert(@, p)]
  /\ partyOf' = [partyOf EXCEPT ![p] = g]
  /\ invite' = [invite EXCEPT ![i] = NoInvite]
  /\ UNCHANGED <<queued, reader, strayed>>

\* ACCEPT_SCRIPT: it asks for a pointer of the player and not whether the roster
\* has him, so one whose pointer was deleted is listed once more.
AcceptInvite(i) ==
  LET p == invite[i].to  g == invite[i].party IN
  /\ invite[i] # NoInvite
  /\ partyOf[p] = "none" /\ queued[g] = {}
  /\ Exists(g) /\ Rows(g) < PartySize
  /\ party' = [party EXCEPT ![g] = Insert(@, p)]
  /\ partyOf' = [partyOf EXCEPT ![p] = g]
  /\ invite' = [invite EXCEPT ![i] = NoInvite]
  /\ UNCHANGED <<queued, reader, strayed>>

\* What READY, TRANSFER and the queue ask of the player's party.
MayChange(p) ==
  /\ partyOf[p] # "none" /\ queued[partyOf[p]] = {}
  /\ Exists(partyOf[p])

SetReady(p, ready) ==
  LET g == partyOf[p] IN
  /\ MayChange(p) /\ p \in party[g].members
  /\ party' = [party EXCEPT ![g].ready = IF ready THEN @ \cup {p} ELSE @ \ {p}]
  /\ UNCHANGED <<partyOf, invite, queued, reader, strayed>>

TransferLeader(p, q) ==
  LET g == partyOf[p] IN
  /\ MayChange(p) /\ party[g].leader = p /\ q \in party[g].members
  /\ party' = [party EXCEPT ![g].leader = q]
  /\ UNCHANGED <<partyOf, invite, queued, reader, strayed>>

\* LEAVE_SCRIPT: the lead passes to one who stays, and the last one to leave
\* deletes the party.  Where the party is missing only the pointer goes.
LeaveParty(p) ==
  LET g == partyOf[p]
      remaining == party[g].members \ {p} IN
  /\ g # "none" /\ queued[g] = {}
  /\ partyOf' = [partyOf EXCEPT ![p] = "none"]
  /\ \/ /\ remaining = {}
        /\ party' = [party EXCEPT ![g] = [NoParty EXCEPT !.made = party[g].made]]
     \/ \E next \in remaining :
          /\ party[g].leader # p => next = party[g].leader
          /\ party' = [party EXCEPT ![g] = [made |-> TRUE, leader |-> next, members |-> remaining,
                                            ready |-> party[g].ready \ {p},
                                            more |-> [party[g].more EXCEPT ![p] = 0]]]
  /\ UNCHANGED <<invite, queued, reader, strayed>>

-----------------------------------------------------------------------------
(* getForPlayer, and invite, which starts with it.                         *)

\* The pointer is read: for the player's own page, or to invite a guest.
ReadPointer(r, p, guest) ==
  /\ reader[r].pc = "idle" /\ partyOf[p] # "none"
  /\ reader' = [reader EXCEPT ![r] = [pc |-> "fetch", player |-> p, party |-> partyOf[p], guest |-> guest]]
  /\ UNCHANGED <<party, partyOf, invite, queued, strayed>>

\* The party is read.
ReadParty(r) ==
  /\ reader[r].pc = "fetch"
  /\ reader' = [reader EXCEPT ![r] =
       IF ~Exists(@.party) THEN [@ EXCEPT !.pc = "repair"]
       ELSE IF @.guest = "none" THEN NotReading
       ELSE [@ EXCEPT !.pc = "invite"]]
  /\ UNCHANGED <<party, partyOf, invite, queued, strayed>>

\* A pointer to a party that is gone is deleted, whatever it says by now.
RepairPointer(r) ==
  LET p == reader[r].player IN
  /\ reader[r].pc = "repair"
  /\ partyOf' = [partyOf EXCEPT ![p] = "none"]
  /\ strayed' = IF Exists(partyOf[p]) THEN strayed \cup {p} ELSE strayed
  /\ reader' = [reader EXCEPT ![r] = NotReading]
  /\ UNCHANGED <<party, invite, queued>>

\* INVITE_SCRIPT: it checks the party the player leads now, and writes the
\* invite for the party that was read; a pointer to no party is deleted.
SendInvite(r, i) ==
  LET p == reader[r].player  guest == reader[r].guest  g == partyOf[p] IN
  /\ reader[r].pc = "invite"
  /\ \/ /\ Exists(g) /\ party[g].leader = p
        /\ Rows(g) < PartySize
        /\ guest \notin party[g].members /\ partyOf[guest] = "none"
        /\ invite[i] = NoInvite
        /\ invite' = [invite EXCEPT ![i] = [to |-> guest, party |-> reader[r].party]]
     \/ UNCHANGED invite
  /\ partyOf' = IF Exists(g) THEN partyOf ELSE [partyOf EXCEPT ![p] = "none"]
  /\ reader' = [reader EXCEPT ![r] = NotReading]
  /\ UNCHANGED <<party, queued, strayed>>

InviteLapses(i) ==
  /\ invite[i] # NoInvite
  /\ invite' = [invite EXCEPT ![i] = NoInvite]
  /\ UNCHANGED <<party, partyOf, queued, reader, strayed>>

-----------------------------------------------------------------------------
(* The queue (RedisQueue): its join script takes the roster from the party *)
(* of a leader whose members are all ready.                                *)

QueueParty(p) ==
  LET g == partyOf[p] IN
  /\ MayChange(p) /\ party[g].leader = p
  /\ party[g].members \subseteq party[g].ready
  /\ queued' = [queued EXCEPT ![g] = party[g].members]
  /\ UNCHANGED <<party, partyOf, invite, reader, strayed>>

UnqueueParty(g) ==
  /\ queued[g] # {}
  /\ queued' = [queued EXCEPT ![g] = {}]
  /\ UNCHANGED <<party, partyOf, invite, reader, strayed>>

PartiesNext ==
  \/ \E p \in Friend :
       \/ \E g \in Party : CreateParty(p, g)
       \/ \E ready \in BOOLEAN : SetReady(p, ready)
       \/ \E q \in Friend : TransferLeader(p, q)
       \/ LeaveParty(p) \/ QueueParty(p)
       \/ \E r \in Reader, guest \in Friend \cup {"none"} : ReadPointer(r, p, guest)
  \/ \E r \in Reader :
       \/ ReadParty(r) \/ RepairPointer(r)
       \/ \E i \in Invite : SendInvite(r, i)
  \/ \E i \in Invite : AcceptInvite(i) \/ InviteLapses(i)
  \/ \E g \in Party : UnqueueParty(g)

PartiesSpec == PartiesInit /\ [][PartiesNext]_partyVars

-----------------------------------------------------------------------------
Reading ==
  [pc : {"fetch", "repair"}, player : Friend, party : Party, guest : Friend \cup {"none"}]
    \cup [pc : {"invite"}, player : Friend, party : Party, guest : Friend]

Entry == [made : BOOLEAN, leader : Friend \cup {"none"}, members : SUBSET Friend,
          ready : SUBSET Friend, more : [Friend -> Nat]]

PartiesTypeOK ==
  /\ party \in [Party -> Entry]
  /\ partyOf \in [Friend -> Party \cup {"none"}]
  /\ invite \in [Invite -> {NoInvite} \cup [to : Friend, party : Party]]
  /\ queued \in [Party -> SUBSET Friend]
  /\ reader \in [Reader -> {NotReading} \cup Reading]
  /\ strayed \subseteq Friend

\* A party that exists is led by one of its members.
LedByAMember == \A g \in Party : Exists(g) => party[g].leader \in party[g].members

\* A player is a member of the party he points at and of no other.
PointersAgree == \A p \in Friend \ strayed, g \in Party : p \in party[g].members <=> partyOf[p] = g

\* No pointer leads to a party that is missing or has lost the player.
PointersLead == \A p \in Friend : partyOf[p] # "none" => p \in party[partyOf[p]].members

\* Nobody is listed twice but one whose pointer was deleted.
ListedOnce == \A p \in Friend \ strayed, g \in Party : party[g].more[p] = 0

\* The roster in the queue is the roster of the party.
QueuedTogether == \A g \in Party : queued[g] \in {{}, party[g].members}

\* Parties, pointers and queue entries agree through all interleavings of the
\* scripts, and no pointer dangles, so that the scripts' own repairs (37, 147)
\* have nothing to do.  Left out are players whose pointer getForPlayer has
\* deleted while it already led to a new party: they stay on that party's roster
\* and can found or join another, or be listed twice (redis-party-service.ts:241).
PartiesAgree == LedByAMember /\ PointersAgree /\ PointersLead /\ ListedOnce /\ QueuedTogether
=============================================================================
