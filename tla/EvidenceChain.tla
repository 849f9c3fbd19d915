---------------------------- MODULE EvidenceChain ----------------------------
(***************************************************************************)
(* The evidence log in Postgres: a hash chain whose appendEntry reads all  *)
(* the entries, takes the latest as the one to link to, and stores the new *)
(* entry under an id of its own, with nothing between the two calls that   *)
(* keeps another append out.  A hash is modelled by the id of the entry it *)
(* is of.                                                                  *)
(***************************************************************************)
EXTENDS Naturals

CONSTANTS Writers,     \* invocations that append, at most one entry each
          EntryIds,    \* random UUIDs; their order is the order of the ids
          MaxTime,     \* bound: the clock's last reading
          Unlinked     \* no previousHash; the id of no entry

ASSUME ChainAssumption ==
  /\ EntryIds \subseteq Nat
  /\ Unlinked \notin EntryIds \cup Writers
  /\ MaxTime \in Nat

VARIABLES log,        \* log[i]: the entry stored under id i
          tail,       \* tail[w]: the entry w's appendEntry links to
          stamp,      \* stamp[w]: occurredAtIso of w's entry
          now,        \* the clock
          appending,  \* writers between appendEntry's two calls
          orderly     \* no two appends overlapped, each stamped last

chainVars == <<log, tail, stamp, now, appending, orderly>>

Entry ==
  [ by : Writers, at : 0..MaxTime, previous : EntryIds \cup {Unlinked} ]

NoEntry == [by |-> Unlinked, at |-> 0, previous |-> Unlinked]

ChainTypeOK ==
  /\ log \in [EntryIds -> Entry \cup {NoEntry}]
  /\ tail \in [Writers -> EntryIds \cup {Unlinked}]
  /\ stamp \in [Writers -> 0..MaxTime]
  /\ now \in 0..MaxTime
  /\ appending \subseteq Writers
  /\ orderly \in BOOLEAN

ChainInit ==
  /\ log = [i \in EntryIds |-> NoEntry]
  /\ tail = [w \in Writers |-> Unlinked]
  /\ stamp = [w \in Writers |-> 0]
  /\ now = 0
  /\ appending = {}
  /\ orderly = TRUE

Stored == {i \in EntryIds : log[i] # NoEntry}

(* The order of the sorted list: a stable sort by occurredAtIso of what    *)
(* the store returns by id.                                                *)
Before(i, j) ==
  \/ log[i].at < log[j].at
  \/ log[i].at = log[j].at /\ i < j

(* existingEntries.at(-1).                                                 *)
IsTail(t) ==
  \/ t = Unlinked /\ Stored = {}
  \/ t \in Stored /\ \A i \in Stored : i = t \/ Before(i, t)

(* clock.nowIso(): time may have passed since it was read last.            *)
TakeStamp(w) ==
  /\ now' \in {now, now + 1} \cap 0..MaxTime
  /\ stamp' = [stamp EXCEPT ![w] = now']

(* appendEntry, the list call.                                             *)
ListEntries(w) ==
  /\ \E t \in EntryIds \cup {Unlinked} : IsTail(t) /\ tail' = [tail EXCEPT ![w] = t]
  /\ appending' = appending \cup {w}
  /\ orderly' = (orderly /\ appending = {} /\ \A i \in Stored : log[i].at < stamp[w])

(* Bug: the previous entry is read and not passed on.                      *)
UpsertUnlinked(w) ==
  /\ \E i \in EntryIds \ Stored :
       log' = [log EXCEPT ![i] = [by |-> w, at |-> stamp[w], previous |-> Unlinked]]
  /\ appending' = appending \ {w}

(* appendEntry, the upsert under a fresh id.                               *)
UpsertEntry(w) ==
  /\ \E i \in EntryIds \ Stored :
       log' = [log EXCEPT ![i] = [by |-> w, at |-> stamp[w], previous |-> tail[w]]]
  /\ appending' = appending \ {w}

(* The append fails, or its process stops, between the two calls.          *)
AbandonAppend(w) == appending' = appending \ {w}

(* w's entry is stored.                                                    *)
EvidencedBy(w) == \E i \in Stored : log[i].by = w

-----------------------------------------------------------------------------

(* verifyEvidenceChainV1 over the sorted list, one entry at a time: the    *)
(* first has no previous hash, every other one the hash of the entry just  *)
(* before it.                                                              *)
LinkVerifies(i) ==
  IF \A j \in Stored : ~Before(j, i)
    THEN log[i].previous = Unlinked
    ELSE /\ log[i].previous \in Stored
         /\ Before(log[i].previous, i)
         /\ \A j \in Stored : Before(j, i) => j = log[i].previous \/ Before(j, log[i].previous)

ChainVerifies == \A i \in Stored : LinkVerifies(i)
=============================================================================
