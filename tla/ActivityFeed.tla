---------------------------- MODULE ActivityFeed -----------------------------
(***************************************************************************)
(* The live activity feed of one session: hooks stamp an event and send    *)
(* it, the core keeps its log, sessions.getActivity assembles the newest   *)
(* `limit` logs into items (ipc-server.ts), and the webview asks again     *)
(* with the cursor of its last answer and merges what comes back           *)
(* (inbound-sessions.js, activity-merge.js).                               *)
(***************************************************************************)
EXTENDS Integers, FiniteSets, SequencesExt

CONSTANTS
  Call,         \* tool calls; each has a PreToolUse and a PostToolUse
  Prompt,       \* events that are items of their own
  Anonymous,    \* the calls whose hooks carry no tool_use_id
  Window,       \* the limit of sessions.getActivity
  MaxFlying,    \* bound: events on their way from a hook to the core
  MaxTime,      \* bound: instants
  MaxAsked      \* bound: requests of the webview

VARIABLES
  now,
  flying,       \* events stamped and sent, not yet logged
  logs,         \* logs of the session, in order of arrival
  asked,        \* request lines to the core, oldest first
  answers,      \* answer lines to the webview, oldest first
  feed,         \* State.sessionView.sessionActivity
  since,        \* State.sessionView.activitySince, 0 for none
  fresh,        \* the last answer shows the log as it is
  requests      \* requests sent so far

vars == <<now, flying, logs, asked, answers, feed, since, fresh, requests>>

-----------------------------------------------------------------------------
(* Events and items.  An item has the id of the log it was made from.      *)
Event == (Call \X {"pre", "post"}) \cup (Prompt \X {"prompt"})
Log == [id : Event, ts : 1 .. MaxTime]
Item == [id : Event, status : {"said", "running", "completed", "joined"},
         ts : 1 .. MaxTime, upd : 1 .. MaxTime]

SourceOf(id) == id[1]
Phase(id) == id[2]
Arrived(w, id) == \E i \in DOMAIN w : w[i].id = id
Sent(id) == Arrived(logs, id) \/ \E l \in flying : l.id = id

(* Of the logs w: getLogs sorts by descending timestamp, stably, and cuts;  *)
(* the caller reverses.  So the logs of one instant come latest arrival    *)
(* first, and the cut keeps the earliest of them.                          *)
Newer(w, i, j) == w[i].ts > w[j].ts \/ (w[i].ts = w[j].ts /\ i < j)

Newest(w, n) ==
  {i \in DOMAIN w : Cardinality({j \in DOMAIN w : Newer(w, j, i)}) < n}

Chronological(w, I) == [k \in 1 .. Cardinality(I) |->
  w[CHOOSE i \in I : Cardinality({j \in I : Newer(w, i, j)}) = k - 1]]

(* A completion goes to the first running item that matches: by execution  *)
(* id if both have one, else by tool name (one tool here).                 *)
Fits(id, end) ==
  SourceOf(id) \notin Anonymous /\ SourceOf(end) \notin Anonymous =>
    SourceOf(id) = SourceOf(end)

Matches(item, l) == item.status = "running" /\ Fits(item.id, l.id)

ItemOf(l, status) == [id |-> l.id, status |-> status, ts |-> l.ts, upd |-> l.ts]

(* One entry for each log, in the order of the items; a completion that    *)
(* found its call has joined it, and is no item itself.                    *)
Assemble(items, l) ==
  LET open == {i \in DOMAIN items : Matches(items[i], l)}
      first == CHOOSE i \in open : \A j \in open : i <= j
  IN CASE Phase(l.id) = "prompt" -> Append(items, ItemOf(l, "said"))
       [] Phase(l.id) = "pre" -> Append(items, ItemOf(l, "running"))
       [] OTHER -> IF open = {} THEN Append(items, ItemOf(l, "completed"))
                   ELSE Append([items EXCEPT ![first] = [@ EXCEPT !.status = "completed",
                                                                  !.upd = l.ts]],
                               ItemOf(l, "joined"))

Assembled(s) ==
  LET upTo[k \in 0 .. Len(s)] ==
        IF k = 0 THEN <<>> ELSE Assemble(upTo[k - 1], s[k])
  IN  upTo[Len(s)]

Activity(w) ==
  {i \in Range(Assembled(Chronological(w, Newest(w, Window)))) : i.status # "joined"}

(* Broken: an item is as old as its first log.                             *)
VisibleByStart(items, s) == {i \in items : i.ts >= s}

(* The inclusive cursor, over when an item last changed.                   *)
Visible(items, s) == {i \in items : i.upd >= s}

Cursor(items) == IF items = {} THEN 0
                 ELSE CHOOSE t \in {i.upd : i \in items} : \A i \in items : i.upd <= t

(* mergeActivity: by id, the copy that changed last.                       *)
Merge(held, incoming) ==
  {i \in incoming : \A h \in held : h.id = i.id => i.upd >= h.upd} \cup
  {h \in held : \A i \in incoming : i.id = h.id => i.upd < h.upd}

-----------------------------------------------------------------------------
Init ==
  /\ now = 1 /\ flying = {} /\ logs = <<>>
  /\ asked = <<>> /\ answers = <<>> /\ requests = 0
  /\ feed = {} /\ since = 0 /\ fresh = TRUE

Tick ==
  /\ now < MaxTime
  /\ now' = now + 1
  /\ UNCHANGED <<flying, logs, asked, answers, feed, since, fresh, requests>>

(* The hook script or the native hook stamps the event when it fires.      *)
Fire(id) ==
  /\ ~Sent(id) /\ Cardinality(flying) < MaxFlying
  /\ Phase(id) = "post" => Sent(<<SourceOf(id), "pre">>)
  /\ flying' = flying \cup {[id |-> id, ts |-> now]}
  /\ UNCHANGED <<now, logs, asked, answers, feed, since, fresh, requests>>

(* addLog keeps the producer's timestamp.                                  *)
AddLog(l) ==
  /\ l \in flying
  /\ flying' = flying \ {l}
  /\ logs' = Append(logs, l)
  /\ fresh' = FALSE
  /\ UNCHANGED <<now, asked, answers, feed, since, requests>>

Send(s) ==
  /\ requests < MaxAsked
  /\ requests' = requests + 1
  /\ asked' = Append(asked, s)
  /\ UNCHANGED <<now, flying, logs, answers, feed, since, fresh>>

(* The two-second poll, and a click on the Activity tab.                   *)
Poll == Send(since)
SwitchTab == Send(0)

GetActivity ==
  /\ asked # <<>>
  /\ answers' = Append(answers,
       [since |-> Head(asked), items |-> Visible(Activity(logs), Head(asked)),
        next |-> Cursor(Activity(logs)), upTo |-> Len(logs)])
  /\ asked' = Tail(asked)
  /\ UNCHANGED <<now, flying, logs, feed, since, fresh, requests>>

SessionActivity ==
  /\ answers # <<>>
  /\ LET a == Head(answers) IN
     /\ feed' = IF a.since # 0 THEN Merge(feed, a.items) ELSE a.items
     /\ since' = IF a.next # 0 THEN a.next ELSE since
     /\ fresh' = (a.upTo = Len(logs))
  /\ answers' = Tail(answers)
  /\ UNCHANGED <<now, flying, logs, asked, requests>>

Next ==
  \/ Tick
  \/ \E id \in Event : Fire(id)
  \/ \E l \in flying : AddLog(l)
  \/ Poll
  \/ SwitchTab
  \/ GetActivity
  \/ SessionActivity

Spec == Init /\ [][Next]_vars

-----------------------------------------------------------------------------
TypeOK ==
  /\ now \in 1 .. MaxTime /\ since \in 0 .. MaxTime
  /\ flying \subseteq Log /\ Range(logs) \subseteq Log
  /\ feed \subseteq Item /\ fresh \in BOOLEAN /\ requests \in 0 .. MaxAsked

(* A call is whole when its logs arrived in the order of their timestamps  *)
(* and the window still holds them; only for these does a cursor lose      *)
(* nothing.  A call without an id may take, and give up, another's end.    *)
InTime(w, id) == \A i \in DOMAIN w :
  w[i].id = id => \A j \in 1 .. i - 1 : w[j].ts <= w[i].ts

Held(w, id) == \E i \in Newest(w, Window) : w[i].id = id

Whole(w, x) == \A id \in {e \in Event : SourceOf(e) = x} :
  Arrived(w, id) => InTime(w, id) /\ Held(w, id)

Comparable(w, i) ==
  /\ Whole(w, SourceOf(i.id))
  /\ Anonymous # {} => \A c \in Call : Whole(w, c)

(* What a sequence of increments leaves in the webview agrees with what    *)
(* the core would answer in full: whatever instants events share, however  *)
(* polls, tab switches and events interleave, and though a completion      *)
(* changes an item far older than the cursor.                              *)
FeedAgrees ==
  fresh => \A i \in Activity(logs) : Comparable(logs, i) => i \in feed

(* No tool call is listed twice (ipc-server.ts on why the window is        *)
(* assembled whole: a call "would be re-emitted under the PostToolUse's id *)
(* as a duplicate", or "reported as still running forever").               *)
NoCallTwice == \A i, j \in feed :
  SourceOf(i.id) = SourceOf(j.id) /\ SourceOf(i.id) \notin Anonymous => i = j
=============================================================================
