-------------------------------- MODULE SyncLog --------------------------------
(***************************************************************************)
(* The log of encrypted changes of one account (appendSyncChanges,         *)
(* getSyncChanges): devices push batches, retry them, and read pages from  *)
(* a cursor of their own.                                                  *)
(*                                                                         *)
(* A push is one statement that takes the sequence ids of its rows as it   *)
(* goes; its rows appear together when it commits.  Ids are therefore      *)
(* not handed out in the order in which rows appear, and an id whose row   *)
(* was a duplicate, or whose statement failed, is used by no row.          *)
(***************************************************************************)
EXTENDS Integers, FiniteSets, FiniteSetsExt

CONSTANTS
  LogDevices,   \* approved devices of the account
  Revisions,    \* revisions of objects: (object_type, client_object_id, revision)
  LogRequests,  \* handlers that may run at the same time
  PageLimit,    \* what a reader asks for at most
  MaxSequence   \* bound: sequence ids that are handed out

ASSUME PageAssumption == PageLimit \in Nat \ {0} /\ MaxSequence \in Nat

VARIABLES
  member,     \* devices that are still approved
  sequence,   \* the last sequence id that was handed out
  log,        \* sync_change: committed rows
  logRequest, \* the handlers
  reader      \* each device: its cursor, what it has got, and what it has missed

syncLogVars == <<member, sequence, log, logRequest, reader>>

-----------------------------------------------------------------------------
(* Types *)

Change == [id : 1 .. MaxSequence, revision : Revisions, source : LogDevices]
LogIdle == [op |-> "idle"]
LogRequest ==
  [op : {"push"}, device : LogDevices, todo : SUBSET Revisions, rows : SUBSET Change,
   waiting : SUBSET Change]
    \cup [op : {"read"}, device : LogDevices] \cup {LogIdle}

\* missed: ids that were in flight when a page brought the cursor past them.
\* conflicts: ids that were shown as conflicting.
Reader == [cursor : 0 .. MaxSequence, got : SUBSET (1 .. MaxSequence),
           missed : SUBSET (1 .. MaxSequence), conflicts : SUBSET (1 .. MaxSequence)]

SyncLogTypeOK ==
  /\ member \in SUBSET LogDevices
  /\ sequence \in 0 .. MaxSequence
  /\ log \in SUBSET Change
  /\ logRequest \in [LogRequests -> LogRequest]
  /\ reader \in [LogDevices -> Reader]

SyncLogInit ==
  /\ member = LogDevices
  /\ sequence = 0
  /\ log = {}
  /\ logRequest = [r \in LogRequests |-> LogIdle]
  /\ reader = [d \in LogDevices |-> [cursor |-> 0, got |-> {}, missed |-> {}, conflicts |-> {}]]

Pushing(r) == logRequest[r].op = "push"

\* Rows that have an id, and those of them that are entered under their key.
InFlight == UNION {logRequest[r].rows : r \in {q \in LogRequests : Pushing(q)}}
Entered == UNION {logRequest[r].rows \ logRequest[r].waiting :
                    r \in {q \in LogRequests : Pushing(q)}}

\* sync_change_device_revision_key
Same(row, rev, d) == row.revision = rev /\ row.source = d

\* Faulty variant of Clash: only the later rows are looked at.
ClashBefore(row, rows) ==
  \E other \in rows :
    other.revision = row.revision /\ other.source # row.source /\ other.id > row.id

\* The same revision of the same object, written by another device.
Clash(row, rows) ==
  \E other \in rows : other.revision = row.revision /\ other.source # row.source

-----------------------------------------------------------------------------
(* Pushes *)

\* assertApprovedSyncDevice: the statement that follows checks nothing more.
BeginPush(r, d, revs) ==
  /\ logRequest[r] = LogIdle
  /\ d \in member
  /\ revs # {}
  /\ logRequest' = [logRequest EXCEPT ![r] =
       [op |-> "push", device |-> d, todo |-> revs, rows |-> {}, waiting |-> {}]]
  /\ UNCHANGED <<member, sequence, log, reader>>

\* One row: its id is taken before its key is looked up.
PushRow(r, rev) ==
  LET push == logRequest[r]
      row == [id |-> sequence + 1, revision |-> rev, source |-> push.device]
  IN  /\ Pushing(r)
      /\ push.waiting = {}
      /\ rev \in push.todo
      /\ sequence < MaxSequence
      /\ sequence' = sequence + 1
      /\ logRequest' = [logRequest EXCEPT ![r] =
           [push EXCEPT !.todo = push.todo \ {rev}, !.rows = push.rows \cup {row},
                       !.waiting = {row}]]
      /\ UNCHANGED <<member, log, reader>>

\* A committed row with this key leaves it out and loses its id; one that another
\* statement has entered is waited for.
EnterRow(r, row) ==
  LET push == logRequest[r]
      known == \E old \in log : Same(old, row.revision, row.source)
  IN  /\ Pushing(r)
      /\ row \in push.waiting
      /\ ~\E old \in Entered : Same(old, row.revision, row.source)
      /\ logRequest' = [logRequest EXCEPT ![r] =
           [push EXCEPT !.waiting = {},
                       !.rows = IF known THEN push.rows \ {row} ELSE push.rows]]
      /\ UNCHANGED <<member, sequence, log, reader>>

CommitPush(r) ==
  /\ Pushing(r)
  /\ logRequest[r].todo = {} /\ logRequest[r].waiting = {}
  /\ log' = log \cup logRequest[r].rows
  /\ logRequest' = [logRequest EXCEPT ![r] = LogIdle]
  /\ UNCHANGED <<member, sequence, reader>>

\* The statement fails, also as the victim of a deadlock, or the function is
\* killed: its client sends the batch again or gives up.
FailLogRequest(r) ==
  /\ logRequest[r] # LogIdle
  /\ logRequest' = [logRequest EXCEPT ![r] = LogIdle]
  /\ UNCHANGED <<member, sequence, log, reader>>

-----------------------------------------------------------------------------
(* Reads *)

BeginRead(r, d) ==
  /\ logRequest[r] = LogIdle
  /\ d \in member
  /\ logRequest' = [logRequest EXCEPT ![r] = [op |-> "read", device |-> d]]
  /\ UNCHANGED <<member, sequence, log, reader>>

\* Faulty variant of Page: LIMIT without ORDER BY.
AnyPage(after) ==
  LET newer == {row \in log : row.id > after}
  IN  CHOOSE page \in SUBSET newer :
        /\ Cardinality(page) <= PageLimit
        /\ newer # {} => (page # {} /\ Max({row.id : row \in page}) = Max({row.id : row \in newer}))

\* The rows after a cursor, in the order of their ids.
Page(after) ==
  LET newer == {row \in log : row.id > after}
  IN  {row \in newer : Cardinality({old \in newer : old.id < row.id}) < PageLimit}

\* The cursor that the page ends with is the client's next one.
Read(r) ==
  LET d == logRequest[r].device
      seen == reader[d]
      page == Page(seen.cursor)
      ids == {row.id : row \in page}
      next == Max(ids \cup {seen.cursor})
  IN  /\ logRequest[r].op = "read"
      /\ reader' = [reader EXCEPT ![d] =
           [cursor |-> next,
            got |-> seen.got \cup ids,
            missed |-> seen.missed \cup {row.id : row \in {w \in InFlight : w.id <= next}},
            conflicts |-> seen.conflicts \cup {row.id : row \in {w \in page : Clash(w, log)}}]]
      /\ logRequest' = [logRequest EXCEPT ![r] = LogIdle]
      /\ UNCHANGED <<member, sequence, log>>

LoseDevice(d) ==
  /\ d \in member
  /\ member' = member \ {d}
  /\ UNCHANGED <<sequence, log, logRequest, reader>>

SyncLogNext ==
  \/ \E r \in LogRequests :
       \/ \E d \in LogDevices, revs \in SUBSET Revisions : BeginPush(r, d, revs)
       \/ \E rev \in Revisions : PushRow(r, rev)
       \/ Pushing(r) /\ \E row \in logRequest[r].waiting : EnterRow(r, row)
       \/ CommitPush(r)
       \/ \E d \in LogDevices : BeginRead(r, d)
       \/ Read(r)
       \/ FailLogRequest(r)
  \/ \E d \in LogDevices : LoseDevice(d)

SyncLogSpec == SyncLogInit /\ [][SyncLogNext]_syncLogVars

-----------------------------------------------------------------------------
(* Properties *)

\* A reader that follows its cursor gets every change up to it, except those that
\* had their id and were not committed when a page went past them.
MissedWasInFlight ==
  \A d \in LogDevices : \A row \in log :
    row.id <= reader[d].cursor => row.id \in reader[d].got \cup reader[d].missed

\* A device that has got two versions of one revision was told of the conflict,
\* although the push that made it may have been answered without one.
ConflictsAreTold ==
  \A d \in LogDevices : \A row, other \in log :
    /\ row.revision = other.revision /\ row.source # other.source
    /\ {row.id, other.id} \subseteq reader[d].got
    => {row.id, other.id} \cap reader[d].conflicts # {}

=============================================================================
