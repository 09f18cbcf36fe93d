-------------------------- MODULE NotificationBell --------------------------
(***************************************************************************)
(* The bell: a badge that is counted down at once when a notification is   *)
(* opened or dismissed and set by a poll every POLL_MS.  Requests are best *)
(* effort: what fails is left to the next poll.  Answers may overtake each *)
(* other.                                                                  *)
(***************************************************************************)
EXTENDS Naturals, Sequences, FiniteSets, SequencesExt

CONSTANTS
  Notes,        (* Notifications.                                          *)
  MaxPolls,     (* Bound: polls under way at once.                         *)
  MaxEvents     (* Bound: events that are not polls, failures included.    *)

ASSUME BellConstants ==
  IsFiniteSet(Notes) /\ MaxPolls \in Nat /\ MaxEvents \in Nat

VARIABLES
  notes,        (* The table: "absent", "unread" or "read".                *)
  badge,
  dropdown,     (* The list is open.                                       *)
  items,        (* The list: notifications, and whether they were unread.  *)
  polls,        (* Counts under way: [counted, value].                     *)
  asking,       (* The list has been asked for.                            *)
  writes,       (* Other requests under way: [kind, note, items].          *)
  events

bellVars == <<notes, badge, dropdown, items, polls, asking, writes, events>>

Item == Notes \X BOOLEAN
Unread == Cardinality({n \in Notes : notes[n] = "unread"})

BellTypeOK ==
  /\ notes \in [Notes -> {"absent", "unread", "read"}]
  /\ badge \in 0..Cardinality(Notes)
  /\ dropdown \in BOOLEAN /\ asking \in BOOLEAN
  /\ items \subseteq Item
  /\ polls \in Seq([counted : BOOLEAN, value : 0..Cardinality(Notes)])
  /\ Len(polls) <= MaxPolls
  /\ writes \subseteq [kind : {"read", "delete", "clear"}, note : Notes, items : SUBSET Item]
  /\ events \in 0..MaxEvents

BellInit ==
  /\ notes = [n \in Notes |-> "absent"]
  /\ badge = 0
  /\ dropdown = FALSE
  /\ items = {}
  /\ polls = <<>>
  /\ asking = FALSE
  /\ writes = {}
  /\ events = 0

Event ==
  /\ events < MaxEvents
  /\ events' = events + 1

Write(kind, n, old) == [kind |-> kind, note |-> n, items |-> old]
CountDown(item) == IF item[2] /\ badge > 0 THEN badge - 1 ELSE badge
-----------------------------------------------------------------------------
(* The notifier, and the same user in another tab.                         *)
NoteArrives(n) ==
  /\ Event
  /\ notes[n] = "absent"
  /\ notes' = [notes EXCEPT ![n] = "unread"]
  /\ UNCHANGED <<badge, dropdown, items, polls, asking, writes>>

ReadElsewhere(n) ==
  /\ Event
  /\ notes[n] = "unread"
  /\ notes' = [notes EXCEPT ![n] = "read"]
  /\ UNCHANGED <<badge, dropdown, items, polls, asking, writes>>
-----------------------------------------------------------------------------
(* refreshCount, at once and then every POLL_MS.                           *)
MayPoll == Len(polls) < MaxPolls
PollsOnce == MayPoll /\ events = 0

Polls == MayPoll

Sent(requests) == Append(requests, [counted |-> FALSE, value |-> 0])

Poll ==
  /\ Polls
  /\ polls' = Sent(polls)
  /\ UNCHANGED <<notes, badge, dropdown, items, asking, writes, events>>

Count(i) ==
  /\ i \in DOMAIN polls /\ ~polls[i].counted
  /\ polls' = [polls EXCEPT ![i] = [counted |-> TRUE, value |-> Unread]]
  /\ UNCHANGED <<notes, badge, dropdown, items, asking, writes, events>>

PollAnswers(i) ==
  /\ i \in DOMAIN polls /\ polls[i].counted
  /\ badge' = polls[i].value
  /\ polls' = RemoveAt(polls, i)
  /\ UNCHANGED <<notes, dropdown, items, asking, writes, events>>

PollFails(i) ==
  /\ Event
  /\ i \in DOMAIN polls
  /\ polls' = RemoveAt(polls, i)
  /\ UNCHANGED <<notes, badge, dropdown, items, asking, writes>>
-----------------------------------------------------------------------------
(* The list. *)

ToggleOpen ==
  /\ Event
  /\ dropdown' = ~dropdown
  /\ asking' = (asking \/ ~dropdown)
  /\ UNCHANGED <<notes, badge, items, polls, writes>>

(* Or the request fails, and the items stay as they were.                  *)
ListAnswers ==
  /\ asking
  /\ asking' = FALSE
  /\ items' \in {items, {<<n, notes[n] = "unread">> : n \in {m \in Notes : notes[m] # "absent"}}}
  /\ UNCHANGED <<notes, badge, dropdown, polls, writes, events>>

HandleClick(item) ==
  /\ Event
  /\ dropdown /\ item \in items
  /\ dropdown' = FALSE
  /\ badge' = CountDown(item)
  /\ writes' = IF item[2] THEN writes \cup {Write("read", item[1], {})} ELSE writes
  /\ UNCHANGED <<notes, items, polls, asking>>

HandleDelete(item) ==
  /\ Event
  /\ dropdown /\ item \in items
  /\ items' = {other \in items : other[1] # item[1]}
  /\ badge' = CountDown(item)
  /\ writes' = writes \cup {Write("delete", item[1], {})}
  /\ UNCHANGED <<notes, dropdown, polls, asking>>

HandleClearAll ==
  /\ Event
  /\ dropdown /\ items # {}
  /\ items' = {}
  /\ badge' = 0
  /\ writes' = writes \cup {Write("clear", CHOOSE n \in Notes : TRUE, items)}
  /\ UNCHANGED <<notes, dropdown, polls, asking>>

Written(w) ==
  [n \in Notes |->
     CASE w.kind = "read" /\ n = w.note /\ notes[n] = "unread" -> "read"
       [] w.kind = "delete" /\ n = w.note -> "absent"
       [] w.kind = "clear" -> "absent"
       [] OTHER -> notes[n]]

WriteArrives(w) ==
  /\ w \in writes
  /\ writes' = writes \ {w}
  /\ notes' = Written(w)
  /\ UNCHANGED <<badge, dropdown, items, polls, asking, events>>

(* Or only its answer is lost.  A clear that fails does something about it.*)
WriteFails(w) ==
  /\ Event
  /\ w \in writes
  /\ w.kind = "clear" => MayPoll
  /\ writes' = writes \ {w}
  /\ IF w.kind = "clear"
     THEN items' = w.items /\ polls' = Sent(polls)
     ELSE UNCHANGED <<items, polls>>
  /\ notes' \in {notes, Written(w)}
  /\ UNCHANGED <<badge, dropdown, asking>>
-----------------------------------------------------------------------------
BellAnswers ==
  \/ \E i \in DOMAIN polls : Count(i) \/ PollAnswers(i)
  \/ ListAnswers
  \/ \E w \in writes : WriteArrives(w)

BellNext ==
  \/ \E n \in Notes : NoteArrives(n) \/ ReadElsewhere(n)
  \/ Poll \/ ToggleOpen
  \/ \E item \in items : HandleClick(item) \/ HandleDelete(item)
  \/ HandleClearAll
  \/ BellAnswers
  \/ \E i \in DOMAIN polls : PollFails(i)
  \/ \E w \in writes : WriteFails(w)

(* The interval goes on, and requests are answered.                        *)
BellFairness == WF_bellVars(Poll) /\ WF_bellVars(BellAnswers)
BellSpec == BellInit /\ [][BellNext]_bellVars /\ BellFairness
-----------------------------------------------------------------------------
(* "The badge will self-correct on the next poll": once nothing happens    *)
(* but polls, it comes to be what the table says, and stays so.            *)
BadgeCorrects == <>[](badge = Unread)
=============================================================================
