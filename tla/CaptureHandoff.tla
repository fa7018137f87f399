--------------------------- MODULE CaptureHandoff ---------------------------
(***************************************************************************)
(* A note captured in Mem becomes an ingested event and a task of the      *)
(* operator's task list, on behalf of a chat that recovered its mission    *)
(* from an authenticated journal (spiral_live_journal, spiral_chat_handoff, *)
(* mem_capture_action_bridge).  Several chats may carry out the same       *)
(* capture; people edit the task meanwhile; every call may raise.          *)
(***************************************************************************)
EXTENDS Integers, Sequences, FiniteSets

CONSTANTS
    Chats,
    Captures,     \* notes: [kind, offset, portable, authority]
    TaskIds,
    MaxEntries, MaxReruns   \* bounds on the journal and on chats started again

VARIABLES
    journal,      \* the mission's journal: corrections and checkpoints
    anchored,     \* the head its owner preserved elsewhere: the journal up to it
    capture,      \* the note
    chat,         \* what each chat has done
    ingested,     \* the capture's event is in the database
    native,       \* tasks at the provider
    stored,       \* continuations in the durable store
    overlapped,   \* history: a task appeared between a search and its creation
    reruns

captureVars == <<journal, anchored, capture, chat, ingested, native, stored, overlapped, reruns>>

-----------------------------------------------------------------------------
(* build_capture, make_ticktick_task and verify_ticktick_readback.         *)
\* An action has a title; a weekday other than today's is its day.
HasTitle(c) == c.kind = "action"
DueDay(c) == IF c.kind = "action" /\ c.offset \in 1..6 THEN c.offset ELSE 0

\* The ingest call is made for what may leave its confines.
Portable(c) == c.portable

NewTask(c, id) ==
    [id |-> id, correlated |-> TRUE, due |-> DueDay(c), allDay |-> DueDay(c) > 0, active |-> TRUE]

ReadbackVerified(c, t) ==
    /\ t.correlated /\ t.active
    /\ t.due = DueDay(c) /\ t.allDay = (DueDay(c) > 0)

-----------------------------------------------------------------------------
Fresh == [at |-> "idle", head |-> <<>>, task |-> "none", seen |-> {}]

CaptureInit ==
    /\ journal = <<"mission">> /\ anchored = <<"mission">>
    /\ capture \in Captures
    /\ chat = [h \in Chats |-> Fresh]
    /\ ingested = FALSE /\ native = {} /\ stored = {}
    /\ overlapped = FALSE /\ reruns = 0

\* The mission goes on: its writer appends and preserves the head afterwards.
JournalGrows ==
    /\ Len(journal) < MaxEntries
    /\ \E entry \in {"correction", "checkpoint"} : journal' = Append(journal, entry)
    /\ UNCHANGED <<anchored, capture, chat, ingested, native, stored, overlapped, reruns>>

HeadPreserved ==
    /\ anchored # journal /\ anchored' = journal
    /\ UNCHANGED <<journal, capture, chat, ingested, native, stored, overlapped, reruns>>

Goes(h, at) == chat' = [chat EXCEPT ![h].at = at]

\* The cursor of a history is its last checkpoint's, and none before the first.
CursorOf(history) ==
    CHOOSE n \in 0..Len(history) :
        /\ n > 0 => history[n] = "checkpoint"
        /\ \A k \in (n + 1)..Len(history) : history[k] # "checkpoint"

\* The history of a mission, its first entry included.
Recoverable(history) == history # <<>> /\ history[1] = "mission"

\* The recovered history is bound to the task of a kernel of its own, with its
\* corrections applied, and the kernel begins.
Resumed(history) == [at |-> "begun", head |-> history, task |-> "none", seen |-> {}]

\* Under the shared lock no writer appends.
OpenChat(h) ==
    /\ chat[h] = Fresh
    /\ Recoverable(journal) /\ journal = anchored
    /\ chat' = [chat EXCEPT ![h] = Resumed(journal)]
    /\ UNCHANGED <<journal, anchored, capture, ingested, native, stored, overlapped, reruns>>

\* The event's external id holds the version of the note: once is enough.
Ingest(h) ==
    /\ chat[h].at = "begun" /\ Portable(capture) /\ "ingest" \in capture.authority
    /\ ingested' = TRUE
    /\ Goes(h, "ingested")
    /\ UNCHANGED <<journal, anchored, capture, native, stored, overlapped, reruns>>

\* Nothing to do at the task list, or no authority for it.
OwnerStatus(c) == IF HasTitle(c) THEN "TASK_AUTHORITY_REQUIRED" ELSE "NO_DATE_ONLY_TASK"

\* What is stored: the cursor the chat recovered with the owner's status, or
\* with the task.  (Mission, note, ingestion and key are the behaviour's own.)
PartialResult(h) ==
    [cursor |-> CursorOf(chat[h].head), owner |-> OwnerStatus(capture), task |-> "none"]
BoundedResult(h) ==
    [cursor |-> CursorOf(chat[h].head), owner |-> "none", task |-> chat[h].task]

\* The ingestion alone is recorded and persisted.
PersistPartial(h) ==
    /\ chat[h].at = "ingested"
    /\ ~HasTitle(capture) \/ "task" \notin capture.authority
    /\ stored' = stored \cup {PartialResult(h)}
    /\ Goes(h, "noted")
    /\ UNCHANGED <<journal, anchored, capture, ingested, native, overlapped, reruns>>

\* It is read back, and the kernel stays where it is.
PartialHandoff(h) ==
    /\ chat[h].at = "noted" /\ PartialResult(h) \in stored
    /\ Goes(h, "partial")
    /\ UNCHANGED <<journal, anchored, capture, ingested, native, stored, overlapped, reruns>>

\* Mutant of Found: the search looks only at tasks nobody has touched.
FoundUntouched == {t \in native : ReadbackVerified(capture, t)}

\* find_tasks by the key of the capture.
Found == native

Search(h) ==
    /\ chat[h].at = "ingested" /\ HasTitle(capture) /\ "task" \in capture.authority
    /\ Cardinality(Found) <= 1
    /\ IF Found = {}
       THEN chat' = [chat EXCEPT ![h].at = "absent", ![h].seen = {t.id : t \in native}]
       ELSE \E t \in Found : chat' = [chat EXCEPT ![h].at = "created", ![h].task = t.id]
    /\ UNCHANGED <<journal, anchored, capture, ingested, native, stored, overlapped, reruns>>

CreateTask(h, id) ==
    /\ chat[h].at = "absent"
    /\ id \notin {t.id : t \in native}
    /\ native' = native \cup {NewTask(capture, id)}
    /\ overlapped' = (overlapped \/ {t.id : t \in native} # chat[h].seen)
    /\ chat' = [chat EXCEPT ![h].at = "created", ![h].task = id]
    /\ UNCHANGED <<journal, anchored, capture, ingested, stored, reruns>>

\* People finish the task or move it to another day.
PersonEdits(t) ==
    /\ t.active
    /\ native' \in {(native \ {t}) \cup {[t EXCEPT !.active = FALSE]},
                    (native \ {t}) \cup {[t EXCEPT !.due = 7, !.allDay = TRUE]}}
    /\ UNCHANGED <<journal, anchored, capture, chat, ingested, stored, overlapped, reruns>>

\* The provider's object is read twice, and verified each time.
Reread(h, from, to) ==
    /\ chat[h].at = from
    /\ \E t \in native : t.id = chat[h].task /\ ReadbackVerified(capture, t)
    /\ Goes(h, to)
    /\ UNCHANGED <<journal, anchored, capture, ingested, native, stored, overlapped, reruns>>

PersistContinuation(h) ==
    /\ chat[h].at = "reread"
    /\ stored' = stored \cup {BoundedResult(h)}
    /\ Goes(h, "persisted")
    /\ UNCHANGED <<journal, anchored, capture, ingested, native, overlapped, reruns>>

CompleteHandoff(h) ==
    /\ chat[h].at = "persisted" /\ BoundedResult(h) \in stored
    /\ chat' = [chat EXCEPT ![h].at = "complete"]
    /\ UNCHANGED <<journal, anchored, capture, ingested, native, stored, overlapped, reruns>>

\* A refusal or an exception anywhere blocks the kernel; the provider may have
\* created the task all the same.
HandoffRaises(h) ==
    /\ chat[h].at \notin {"idle", "partial", "complete", "blocked"}
    /\ chat' = [chat EXCEPT ![h].at = "blocked"]
    /\ UNCHANGED <<journal, anchored, capture, ingested, native, stored, overlapped, reruns>>

\* The capture is carried out again in a kernel of its own.
RunAgain(h) ==
    /\ chat[h].at \in {"blocked", "partial", "complete"} /\ reruns < MaxReruns
    /\ chat' = [chat EXCEPT ![h] = Fresh]
    /\ reruns' = reruns + 1
    /\ UNCHANGED <<journal, anchored, capture, ingested, native, stored, overlapped>>

CaptureNext ==
    \/ JournalGrows \/ HeadPreserved
    \/ \E h \in Chats :
         \/ OpenChat(h) \/ Ingest(h) \/ PersistPartial(h) \/ PartialHandoff(h) \/ Search(h)
         \/ \E id \in TaskIds : CreateTask(h, id)
         \/ Reread(h, "created", "recorded") \/ Reread(h, "recorded", "reread")
         \/ PersistContinuation(h) \/ CompleteHandoff(h) \/ HandoffRaises(h) \/ RunAgain(h)
    \/ \E t \in native : PersonEdits(t)

CaptureSpec == CaptureInit /\ [][CaptureNext]_captureVars

-----------------------------------------------------------------------------
\* A stored result names what there is, and a cursor the journal had.
TellsTheTruth(c) ==
    /\ ingested
    /\ c.task # "none" => \E t \in native : t.id = c.task
    /\ \E n \in 1..Len(anchored) : c.cursor = CursorOf(SubSeq(anchored, 1, n))

\* However often a capture is carried out again, by however many chats, some of
\* which are blocked halfway: a second task appears only when one was created
\* between another chat's search and its creation.  Whatever is stored tells the
\* truth: the event was ingested, the task named was at the task list, and the
\* cursor is one that the journal had at an anchored head.  A handoff that
\* reported its end has stored the result it reported, and the history it goes
\* by is still the beginning of the anchored journal
\* (execute_recovered_capture_in_apex, execute_authorized_capture).
HandoffsAreReal ==
    /\ Cardinality(native) > 1 => overlapped
    /\ \A c \in stored : TellsTheTruth(c)
    /\ \A h \in Chats :
         /\ chat[h].at # "idle" => chat[h].head = SubSeq(anchored, 1, Len(chat[h].head))
         /\ chat[h].at = "partial" => PartialResult(h) \in stored
         /\ chat[h].at = "complete" => BoundedResult(h) \in stored
=============================================================================
