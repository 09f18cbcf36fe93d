------------------------------ MODULE RowEdits ------------------------------
(***************************************************************************)
(* A cell that is edited in place, as the domains and the DNS servers are  *)
(* switched on and off and a domain's status is chosen: the row changes at *)
(* once, the request follows, and an error puts the old value back.  The   *)
(* list is fetched anew meanwhile, and other users edit the same row.      *)
(***************************************************************************)
EXTENDS Naturals, Sequences, SequencesExt

CONSTANTS
  Values,       (* What the cell can hold.                                 *)
  MaxChanges    (* Bound: edits, fetches and changes by others.            *)

VARIABLES
  stored,       (* The value in the database.                              *)
  cell,         (* The value on the screen.                                *)
  patches,      (* Edits under way: [want, prev, stored].                  *)
  reloads,      (* Fetches under way: [value, read, stale, clean].         *)
  reasons,      (* History: why it may differ from stored.                 *)
  changes

rowVars == <<stored, cell, patches, reloads, reasons, changes>>

RowTypeOK ==
  /\ stored \in Values /\ cell \in Values
  /\ patches \in Seq([want : Values, prev : Values, stored : BOOLEAN])
  /\ reloads \in Seq([value : Values, read : BOOLEAN, stale : BOOLEAN, clean : BOOLEAN])
  /\ reasons \subseteq {"overlap", "lost", "race", "others"}
  /\ changes \in 0..MaxChanges

RowInit ==
  /\ stored \in Values
  /\ cell = stored
  /\ patches = <<>>
  /\ reloads = <<>>
  /\ reasons = {}
  /\ changes = 0

(* What is read by now is not what it will be.                             *)
Soiled(requests) == [i \in DOMAIN requests |-> [requests[i] EXCEPT !.clean = FALSE]]

Change ==
  /\ changes < MaxChanges
  /\ changes' = changes + 1
-----------------------------------------------------------------------------
(* handleToggle, handleStatusChange: the value of before is kept for the   *)
(* way back.                                                               *)
EditCell(v) ==
  /\ Change
  /\ v # cell
  /\ cell' = v
  /\ patches' = Append(patches, [want |-> v, prev |-> cell, stored |-> FALSE])
  /\ reloads' = Soiled(reloads)
  /\ reasons' = IF patches = <<>> THEN reasons ELSE reasons \cup {"overlap"}
  /\ UNCHANGED stored

(* Edits reach the server in any order.                                    *)
PatchArrives(i) ==
  /\ i \in DOMAIN patches /\ ~patches[i].stored
  /\ stored' = patches[i].want
  /\ patches' = [patches EXCEPT ![i].stored = TRUE]
  /\ UNCHANGED <<cell, reloads, reasons, changes>>

PatchSucceeds(i) ==
  /\ i \in DOMAIN patches /\ patches[i].stored
  /\ patches' = RemoveAt(patches, i)
  /\ UNCHANGED <<stored, cell, reloads, reasons, changes>>

NoRollback(i) == patches' = RemoveAt(patches, i) /\ UNCHANGED cell

Rollback(i) ==
  /\ cell' = patches[i].prev
  /\ patches' = RemoveAt(patches, i)

(* An error, or an answer that never comes although the value was stored.  *)
PatchFails(i) ==
  /\ i \in DOMAIN patches
  /\ Rollback(i)
  /\ reasons' = IF patches[i].stored THEN reasons \cup {"lost"} ELSE reasons
  /\ UNCHANGED <<stored, reloads, changes>>

(* Another user, or another tab.                                           *)
OthersEdit(v) ==
  /\ Change
  /\ v # stored
  /\ stored' = v
  /\ reasons' = reasons \cup {"others"}
  /\ reloads' = Soiled(reloads)
  /\ UNCHANGED <<cell, patches>>
-----------------------------------------------------------------------------
(* The fetch effect: a newer fetch makes the older ones stale.             *)
Reload ==
  /\ Change
  /\ reloads' = Append([i \in DOMAIN reloads |-> [reloads[i] EXCEPT !.stale = TRUE]],
                       [value |-> stored, read |-> FALSE, stale |-> FALSE, clean |-> FALSE])
  /\ UNCHANGED <<stored, cell, patches, reasons>>

ReloadReads(i) ==
  /\ i \in DOMAIN reloads /\ ~reloads[i].read
  /\ reloads' = [reloads EXCEPT ![i].value = stored, ![i].read = TRUE,
                                ![i].clean = (patches = <<>>)]
  /\ UNCHANGED <<stored, cell, patches, reasons, changes>>

Taken(i) == ~reloads[i].stale

ReloadAnswers(i) ==
  /\ i \in DOMAIN reloads /\ reloads[i].read
  /\ reloads' = RemoveAt(reloads, i)
  /\ IF Taken(i)
     THEN /\ cell' = reloads[i].value
          /\ reasons' = IF reloads[i].clean THEN {} ELSE reasons \cup {"race"}
     ELSE UNCHANGED <<cell, reasons>>
  /\ UNCHANGED <<stored, patches, changes>>
-----------------------------------------------------------------------------
RowNext ==
  \/ \E v \in Values : EditCell(v) \/ OthersEdit(v)
  \/ \E i \in DOMAIN patches : PatchArrives(i) \/ PatchSucceeds(i) \/ PatchFails(i)
  \/ Reload
  \/ \E i \in DOMAIN reloads : ReloadReads(i) \/ ReloadAnswers(i)

RowSpec == RowInit /\ [][RowNext]_rowVars
-----------------------------------------------------------------------------
(* When nothing is under way the row shows what is stored, unless one of   *)
(* four things has happened since the last undisturbed fetch: two edits at *)
(* once, an edit whose answer was lost, a fetch that crossed an edit, or   *)
(* an edit by somebody else.                                               *)
RowIsTrue ==
  patches = <<>> /\ reloads = <<>> /\ reasons = {} => cell = stored
-----------------------------------------------------------------------------
(* Why: a clean answer is what is stored, and stays so until it is shown;  *)
(* and while nothing has interfered, there is at most one edit, of which   *)
(* the screen has the new value and the way back is what was stored.       *)
CleanReads ==
  \A i \in DOMAIN reloads :
    reloads[i].clean => patches = <<>> /\ reloads[i].value = stored

OneEditAtMost ==
  reasons = {} =>
    \/ patches = <<>> /\ cell = stored
    \/ /\ Len(patches) = 1
       /\ cell = patches[1].want
       /\ stored = IF patches[1].stored THEN patches[1].want ELSE patches[1].prev

RowInvariant == RowTypeOK /\ CleanReads /\ OneEditAtMost
=============================================================================
