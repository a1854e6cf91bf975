------------------------------ MODULE PanelLink ------------------------------
(***************************************************************************)
(* The list of pending file changes on its way from the core to the        *)
(* webview: events and the reply to the panel's fetch share one pipe, the  *)
(* panel (panel.ts) queues what it sends until the webview reports ready,  *)
(* and the webview (api/inbound-core.js, inbound-changes.js) applies what  *)
(* it receives to State.fileChanges.                                       *)
(*                                                                         *)
(* One fetch runs at a time, and a core started again finds the changes    *)
(* its predecessor had (both are bounds of this model).  Log, stats and    *)
(* session events travel the same way and are left out, and so are         *)
(* State.connected and versions other than a new change's first.           *)
(***************************************************************************)
EXTENDS Integers, FiniteSets, SequencesExt

CONSTANTS
  Change,
  NoId,        \* the id of a message that has none
  MaxOpens,    \* bound: panels opened, refreshes, and edits of changes
  MaxExits     \* bound: exits of the core

VARIABLES
  pending,     \* the core's pending changes
  known,       \* the ids ever given
  work,        \* handlers of the core at an await: <<what it does, the change>>
  coreUp,
  pipe,        \* lines the core wrote and the bridge has not read
  panel,       \* "none", "loading" (_webviewReady is false), "ready"
  queue,       \* _messageQueue
  fetch,       \* the _sendInitData in progress
  posted,      \* messages posted, not yet handled by the webview
  rows,        \* the ids in State.fileChanges
  opens, exits,
  told,        \* history: the webview handled an init
  crossed,     \* history: an event passed a queued message or the init
  missed       \* history: changes that left unannounced, or were announced
               \* as pending after they left, and not in a reply since

core == <<pending, known, coreUp, exits, work, missed>>
webview == <<rows, told>>
vars == <<core, pipe, panel, queue, fetch, posted, webview, opens, crossed>>

Event == [type : {"tracked", "kept", "version"}, id : Change \cup {NoId}]
Init0(snap) == [type |-> "init", rows |-> snap]
Resolving == {c \in Change : <<"resolve", c>> \in work}
NoFetch == [stage |-> "none", flush |-> FALSE, snap |-> {}]

-----------------------------------------------------------------------------
Init ==
  /\ pending \in SUBSET Change /\ known = pending
  /\ coreUp = TRUE
  /\ pipe = <<>> /\ panel = "none" /\ queue = <<>> /\ fetch = NoFetch
  /\ posted = <<>> /\ rows = {}
  /\ opens = 0 /\ exits = 0
  /\ work = {} /\ missed = {}
  /\ told = FALSE /\ crossed = FALSE

-----------------------------------------------------------------------------
(* The core.  What it says is written to the pipe.                         *)
Says(q) ==
  /\ pipe' = pipe \o q
  /\ UNCHANGED <<coreUp, exits, panel, queue, fetch, posted, webview, crossed>>

Tracked(c) == [type |-> "tracked", id |-> c]

(* A tracked change is announced, then so is the version recorded for it,  *)
(* as a fileChange without an id.                                          *)
Track(c) ==
  /\ coreUp /\ c \notin known
  /\ pending' = pending \cup {c}
  /\ known' = known \cup {c}
  /\ Says(<<Tracked(c), [type |-> "version", id |-> NoId]>>)
  /\ UNCHANGED <<work, missed, opens>>

(* Its content or a hunk of it changes; the change is to be saved, and     *)
(* then announced again.                                                   *)
Edit(c) ==
  /\ coreUp /\ c \in pending /\ <<"edit", c>> \notin work
  /\ opens < MaxOpens
  /\ opens' = opens + 1
  /\ work' = work \cup {<<"edit", c>>}
  /\ Says(<<>>)
  /\ UNCHANGED <<pending, known, missed>>

(* It is announced whatever became of it meanwhile.                        *)
Edited(c) ==
  /\ coreUp /\ <<"edit", c>> \in work
  /\ work' = work \ {<<"edit", c>>}
  /\ Says(<<Tracked(c)>>)
  /\ missed' = missed \cup ({c} \ pending)
  /\ UNCHANGED <<pending, known, opens>>

(* Kept or reverted: the change leaves the map, and two file operations    *)
(* are awaited (archiveResolvedChange).                                    *)
Resolve(c) ==
  /\ coreUp /\ c \in pending
  /\ pending' = pending \ {c}
  /\ work' = work \cup {<<"resolve", c>>}
  /\ Says(<<>>)
  /\ UNCHANGED <<known, missed, opens>>

Resolved(c) ==
  /\ coreUp /\ <<"resolve", c>> \in work
  /\ work' = work \ {<<"resolve", c>>}
  /\ Says(<<[type |-> "kept", id |-> c]>>)
  /\ UNCHANGED <<pending, known, missed, opens>>

(* A file operation fails: nothing is announced.                           *)
Fails(w) ==
  /\ coreUp /\ w \in work
  /\ work' = work \ {w}
  /\ missed' = IF w[1] = "resolve" THEN missed \cup {w[2]} ELSE missed
  /\ Says(<<>>)
  /\ UNCHANGED <<pending, known, opens>>

(* deleteChange, clearChanges: the core forwards nothing of it.            *)
Delete(c) ==
  /\ coreUp /\ c \in pending
  /\ pending' = pending \ {c}
  /\ missed' = missed \cup {c}
  /\ Says(<<>>)
  /\ UNCHANGED <<known, work, opens>>

(* The changes of which a message says something.                          *)
Concerned(q) ==
  {c \in Change : \E i \in DOMAIN q :
     q[i].type = "init" \/ (q[i].type \in {"tracked", "kept", "version"} /\ q[i].id = c)}

(* getPendingChanges.  What was missed is in the reply, and stays so       *)
(* unless something said of it before is still on its way.                 *)
Answer ==
  /\ coreUp /\ fetch.stage = "asked"
  /\ fetch' = [fetch EXCEPT !.stage = "answered"]
  /\ pipe' = Append(pipe, Init0(pending))
  /\ missed' = missed \cap (Concerned(pipe) \cup Concerned(queue))
  /\ UNCHANGED <<pending, known, coreUp, exits, work, panel, queue, posted, webview, opens,
                 crossed>>

-----------------------------------------------------------------------------
(* _sendMessage: the queue and the posted messages after it.               *)
Sent(m) ==
  IF panel = "loading"
  THEN /\ queue' = Append(queue, m) /\ posted' = posted
  ELSE /\ posted' = Append(posted, m) /\ queue' = queue

(* The process's exit event, and the panel's handler of it.  What the core *)
(* wrote before may still be in the pipe; what it was at is not announced. *)
Exit ==
  /\ coreUp /\ exits < MaxExits
  /\ coreUp' = FALSE
  /\ exits' = exits + 1
  /\ work' = {} /\ missed' = missed \cup Resolving
  /\ IF panel = "none" THEN UNCHANGED <<queue, posted>> ELSE Sent([type |-> "core-status"])
  /\ UNCHANGED <<pending, known, pipe, panel, fetch, webview, opens, crossed>>

(* A reply to a request of a panel that is gone resolves nothing.          *)
Unclaimed(lines) ==
  [i \in DOMAIN lines |->
     IF lines[i].type = "init" THEN [type |-> "unclaimed"] ELSE lines[i]]

(* The bridge reads a line: an event goes to the panel that subscribed, a  *)
(* reply resolves the fetch that waits for it.                             *)
ReadLine ==
  /\ pipe # <<>>
  /\ pipe' = Tail(pipe)
  /\ LET m == Head(pipe) IN
     \/ /\ m.type = "init"
        /\ fetch' = IF fetch.stage = "answered"
                    THEN [fetch EXCEPT !.stage = "have", !.snap = m.rows] ELSE fetch
        /\ UNCHANGED <<queue, posted, crossed>>
     \/ /\ m.type = "unclaimed" \/ (m.type # "init" /\ panel = "none")
        /\ UNCHANGED <<fetch, queue, posted, crossed>>
     \/ /\ m.type \notin {"init", "unclaimed"} /\ panel # "none"
        /\ Sent(m)
        /\ crossed' = (crossed \/ fetch.stage = "have" \/ (panel = "ready" /\ queue # <<>>))
        /\ UNCHANGED fetch
  /\ UNCHANGED <<core, panel, webview, opens>>

-----------------------------------------------------------------------------
OpenPanel ==
  /\ panel = "none" /\ opens < MaxOpens
  /\ opens' = opens + 1
  /\ panel' = "loading"
  /\ rows' = {} /\ told' = FALSE /\ crossed' = FALSE
  /\ UNCHANGED <<core, pipe, queue, fetch, posted>>

(* _sendInitData: start the core if it is not running (which may fail: s   *)
(* is FALSE), then ask.  With flush, the queue follows.                    *)
SendInitData(s, flush) ==
  /\ fetch.stage = "none"
  /\ coreUp' = (coreUp \/ s)
  /\ ~coreUp /\ s => pipe = <<>>
  /\ fetch' = [NoFetch EXCEPT !.stage = IF coreUp' THEN "asked" ELSE "failed",
                              !.flush = flush]
  /\ UNCHANGED <<pending, known, exits, work, missed, pipe, queue, posted, webview, crossed>>

WebviewReady(s) ==
  /\ panel = "loading"
  /\ panel' = "ready"
  /\ SendInitData(s, TRUE)
  /\ UNCHANGED opens

Refresh(s) ==
  /\ panel # "none" /\ opens < MaxOpens
  /\ opens' = opens + 1
  /\ SendInitData(s, FALSE)
  /\ UNCHANGED panel

(* A request the core died on times out.                                   *)
FetchFails ==
  /\ fetch.stage \in {"asked", "answered"} /\ ~coreUp /\ pipe = <<>>
  /\ fetch' = [fetch EXCEPT !.stage = "failed"]
  /\ UNCHANGED <<core, pipe, panel, queue, posted, webview, opens, crossed>>

(* Broken: the queue is emptied from its end.                              *)
FlushedBackwards(q) == Reverse(q)

(* _flushMessageQueue                                                      *)
Flushed(q) == q

(* The fetch is over: the init if it succeeded, then the queue.            *)
FetchEnds ==
  /\ fetch.stage \in {"have", "failed"}
  /\ LET init == IF fetch.stage = "have" THEN <<Init0(fetch.snap)>> ELSE <<>> IN
     IF panel = "loading"
     THEN /\ queue' = queue \o init /\ posted' = posted
     ELSE /\ posted' = posted \o init \o (IF fetch.flush THEN Flushed(queue) ELSE <<>>)
          /\ queue' = IF fetch.flush THEN <<>> ELSE queue
  /\ fetch' = NoFetch
  /\ UNCHANGED <<core, pipe, panel, webview, opens, crossed>>

(* dispose(): what a fetch still in progress sends goes to a dead panel.   *)
Dispose ==
  /\ panel # "none"
  /\ panel' = "none" /\ queue' = <<>> /\ posted' = <<>>
  /\ fetch' = NoFetch
  /\ pipe' = Unclaimed(pipe)
  /\ UNCHANGED <<core, webview, opens, crossed>>

-----------------------------------------------------------------------------
(* The webview handles a message.  A version has no id either, so a second *)
(* one takes the first one's row.                                          *)
Applied(m) ==
  CASE m.type = "init" -> m.rows
    [] m.type = "kept" -> rows \ {m.id}
    [] m.type = "core-status" -> rows
    [] OTHER -> rows \cup {m.id}

Handle ==
  /\ posted # <<>>
  /\ LET m == Head(posted) IN
     /\ rows' = Applied(m)
     /\ told' = (told \/ m.type = "init")
  /\ posted' = Tail(posted)
  /\ UNCHANGED <<core, pipe, panel, queue, fetch, opens, crossed>>

Next ==
  \/ \E c \in Change : Track(c) \/ Edit(c) \/ Edited(c) \/ Resolve(c) \/ Resolved(c) \/ Delete(c)
  \/ \E w \in work : Fails(w)
  \/ Answer \/ Exit \/ ReadLine
  \/ OpenPanel \/ FetchFails \/ FetchEnds \/ Dispose
  \/ \E s \in BOOLEAN : WebviewReady(s) \/ Refresh(s)
  \/ Handle

Spec == Init /\ [][Next]_vars

-----------------------------------------------------------------------------
TypeOK ==
  /\ pending \subseteq known /\ known \subseteq Change /\ coreUp \in BOOLEAN
  /\ \A i \in DOMAIN pipe :
       pipe[i].type \in {"init", "unclaimed"} \/ pipe[i] \in Event
  /\ panel \in {"none", "loading", "ready"}
  /\ fetch.stage \in {"none", "asked", "answered", "have", "failed"}
  /\ rows \subseteq Change \cup {NoId} /\ missed \subseteq known
  /\ work \subseteq {"edit", "resolve"} \X known
  /\ opens \in 0 .. MaxOpens /\ exits \in 0 .. MaxExits
  /\ told \in BOOLEAN /\ crossed \in BOOLEAN

Settled ==
  /\ panel = "ready" /\ told /\ ~crossed
  /\ pipe = <<>> /\ queue = <<>> /\ posted = <<>> /\ fetch = NoFetch
  /\ Resolving = {}

(* Whatever was queued, fetched, refreshed, edited or restarted meanwhile, *)
(* the changes the webview lists in the end are the core's pending ones,   *)
(* when no event passed a queued message or the init.  A change that left  *)
(* unannounced (deleted, or its archiving failed or was cut short), or was *)
(* announced again after it had left, may be listed wrongly, but only      *)
(* until the next reply.                                                   *)
ListAgrees == Settled => \A c \in Change \ missed : c \in rows <=> c \in pending

(* The number the dashboard shows as pending changes is the number of      *)
(* pending changes (protocol/src/log.ts: "Pending file changes count").    *)
CountIsPending == Settled => Cardinality(rows) = Cardinality(pending)
=============================================================================
