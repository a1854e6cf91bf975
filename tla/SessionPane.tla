----------------------------- MODULE SessionPane -----------------------------
(***************************************************************************)
(* The detail pane of the Sessions view (views/sessions.js,                *)
(* views/sessions/*.js) and the answers it is drawn from.  A click changes *)
(* the selection or the tab, draws at once what State holds and asks for   *)
(* more; an answer lands in State some time later, and only some answers   *)
(* draw.  Contents are reduced to the sessions they are of.                *)
(*                                                                         *)
(* The Tools tab is left out: it draws the session record, found by id;    *)
(* and so are the tool executions of that record among the activity.       *)
(***************************************************************************)
EXTENDS Integers, SequencesExt

CONSTANTS
  Session, None,
  Logged,       \* the sessions the core retains logs of
  Delivered,    \* the sessions something was injected into
  MaxClicks,    \* bound: clicks and polls
  MaxRefusals   \* bound: requests the core rejects

VARIABLES
  selected, tab,      \* State.sessionView.selectedSession, activeTab
  feed, since,        \* sessionActivity, activitySince (the session it is of)
  sessionLogs,
  injections,         \* State.injectionsView
  transcript,         \* State.transcriptView
  pane,               \* what is drawn
  resident,           \* sessions the core holds in memory
  open,               \* unanswered requests, in the order sent
  answers,            \* answers on their way to the webview
  clicks, refusals,
  overtaken,          \* history: an answer left before an earlier request's
  strayed             \* history: sessions whose activity arrived under this one

view == <<selected, tab, feed, since, sessionLogs, injections, transcript, pane>>
vars == <<view, resident, open, answers, clicks, refusals, overtaken, strayed>>

Tab == {"activity", "logs", "injected", "transcript"}
Kind == {"activity", "logs", "injections", "transcript"}
Pane == [tab : Tab, sess : Session \cup {None}, waits : BOOLEAN, of : SUBSET Session]
Slice == [sess : Session \cup {None}, of : SUBSET Session, loading : BOOLEAN]

Ask(k, s, d) == [kind |-> k, sess |-> s, delta |-> d]

-----------------------------------------------------------------------------
(* renderInjectedTab.                                                      *)
Injected(s, v) ==
  [tab |-> "injected", sess |-> s, waits |-> v.loading /\ v.sess = s,
   of |-> IF v.sess = s THEN v.of ELSE {}]

(* What a tab draws and what it asks for, given the slices before and      *)
(* after.  An empty list of logs counts as not loaded.                     *)
Asked(t, s, f, l, inj, inj1, tr, tr1) ==
  [pane |-> CASE t = "injected" -> Injected(s, inj1)
              [] t = "activity" -> [tab |-> t, sess |-> s, waits |-> FALSE, of |-> f]
              [] t = "logs" -> [tab |-> t, sess |-> s, waits |-> l = {}, of |-> l]
              [] OTHER -> [tab |-> t, sess |-> s, waits |-> tr1 # tr, of |-> tr1.of],
   injections |-> inj1, transcript |-> tr1,
   asks |-> (IF inj1 # inj THEN <<Ask("injections", s, FALSE)>> ELSE <<>>)
            \o (IF tr1 # tr THEN <<Ask("transcript", s, FALSE)>> ELSE <<>>)
            \o (IF t = "logs" /\ l = {} THEN <<Ask("logs", s, FALSE)>> ELSE <<>>)]

(* Broken: a slice is asked for only while there is none.                  *)
RenderedOnce(t, s, f, l, inj, tr) ==
  LET reset == [sess |-> s, of |-> {}, loading |-> TRUE]
      inj1 == IF t = "injected" /\ inj.sess = None THEN reset ELSE inj
      tr1 == IF t = "transcript" /\ tr.sess = None THEN reset ELSE tr
  IN Asked(t, s, f, l, inj, inj1, tr, tr1)

(* renderTabContent: a slice of another session is reset and asked for.    *)
Rendered(t, s, f, l, inj, tr) ==
  LET reset == [sess |-> s, of |-> {}, loading |-> TRUE]
      inj1 == IF t = "injected" /\ inj.sess # s THEN reset ELSE inj
      tr1 == IF t = "transcript" /\ tr.sess # s THEN reset ELSE tr
  IN Asked(t, s, f, l, inj, inj1, tr, tr1)

Draw(r, more) ==
  /\ pane' = r.pane
  /\ injections' = r.injections
  /\ transcript' = r.transcript
  /\ open' = open \o r.asks \o more

Undrawn(more) == open' = open \o more /\ UNCHANGED <<pane, injections, transcript>>

-----------------------------------------------------------------------------
NoSlice == [sess |-> None, of |-> {}, loading |-> FALSE]

Init ==
  /\ selected = None /\ tab = "activity" /\ feed = {} /\ since = None
  /\ sessionLogs = {} /\ injections = NoSlice /\ transcript = NoSlice
  /\ pane = [tab |-> "activity", sess |-> None, waits |-> FALSE, of |-> {}]
  /\ resident \in SUBSET Session
  /\ open = <<>> /\ answers = <<>> /\ clicks = 0 /\ refusals = 0
  /\ overtaken = FALSE /\ strayed = {}

Click ==
  /\ clicks < MaxClicks
  /\ clicks' = clicks + 1
  /\ UNCHANGED <<resident, answers, refusals, overtaken>>

(* selectSession: the session that is shown already is not drawn again;    *)
(* its feed is updated with nothing, which leaves what is there.           *)
SelectSession(s) ==
  LET more == <<Ask("activity", s, FALSE), Ask("logs", s, FALSE)>>
      shown == s = selected /\ tab = "activity"
  IN /\ Click
     /\ selected' = s /\ tab' = "activity"
     /\ feed' = {} /\ sessionLogs' = {} /\ since' = None
     /\ strayed' = IF shown THEN strayed ELSE {}
     /\ IF shown
        THEN Undrawn(more)
        ELSE Draw(Rendered("activity", s, {}, {}, injections, transcript), more)

(* switchTab: draws only if the tab changes.                               *)
SwitchTab(t) ==
  LET more == CASE t = "logs" -> <<Ask("logs", selected, FALSE)>>
                [] t = "activity" -> <<Ask("activity", selected, FALSE)>>
                [] OTHER -> <<>>
  IN /\ selected # None
     /\ Click
     /\ tab' = t
     /\ IF t # tab
        THEN Draw(Rendered(t, selected, feed, sessionLogs, injections, transcript), more)
        ELSE Undrawn(more)
     /\ UNCHANGED <<selected, feed, since, sessionLogs, strayed>>

(* The two-second poll of a session that is active.                        *)
Poll ==
  /\ selected # None
  /\ Click
  /\ Undrawn(<<Ask("activity", selected, since # None)>>)
  /\ UNCHANGED <<selected, tab, feed, since, sessionLogs, strayed>>

-----------------------------------------------------------------------------
(* The core: logs are in memory and so are resident sessions; the          *)
(* delivery log, a transcript and other sessions are read from disk.       *)
Immediate(r) == r.kind = "logs" \/ (r.kind = "activity" /\ r.sess \in resident)

Reply(r) ==
  [kind |-> r.kind, sess |-> r.sess, delta |-> r.delta,
   of |-> CASE r.kind = "logs" -> {r.sess} \cap Logged
            [] r.kind = "injections" -> {r.sess} \cap Delivered
            [] OTHER -> {r.sess}]

Answer(i) ==
  LET r == open[i] IN
  /\ Immediate(r) => \A j \in 1 .. i - 1 : ~Immediate(open[j])
  /\ answers' = Append(answers, Reply(r))
  /\ open' = RemoveAt(open, i)
  /\ resident' = IF r.kind = "activity" THEN resident \cup {r.sess} ELSE resident
  /\ overtaken' = (overtaken \/ i > 1)
  /\ UNCHANGED <<view, clicks, refusals, strayed>>

(* A rejected request.  Only the injections handler answers it; the others *)
(* leave the rejection to the message loop.                                *)
Refuse(i) ==
  LET r == open[i] IN
  /\ refusals < MaxRefusals
  /\ refusals' = refusals + 1
  /\ answers' = IF r.kind = "injections"
                THEN Append(answers, [kind |-> r.kind, sess |-> r.sess,
                                      delta |-> FALSE, of |-> {}])
                ELSE answers
  /\ open' = RemoveAt(open, i)
  /\ UNCHANGED <<view, resident, clicks, overtaken, strayed>>

-----------------------------------------------------------------------------
(* The answers.  None but the injections name the session they are for.    *)
Receive(k) ==
  /\ answers # <<>> /\ Head(answers).kind = k
  /\ answers' = Tail(answers)
  /\ UNCHANGED <<selected, tab, resident, clicks, refusals, overtaken>>

(* updateActivityFeed: what is drawn stays, and what is not yet is added;  *)
(* the feed is drawn anew when there is none, or when the items are fewer  *)
(* or the turns others than those drawn.                                   *)
UpdateActivityFeed(f) ==
  /\ \E anew \in IF pane.of = {} THEN {TRUE} ELSE BOOLEAN :
       pane' = [pane EXCEPT !.of = IF anew THEN f ELSE @ \cup f]
  /\ UNCHANGED <<injections, transcript, open>>

SessionActivity ==
  /\ Receive("activity")
  /\ LET a == Head(answers) IN
     /\ feed' = IF a.delta THEN feed \cup a.of ELSE a.of
     /\ since' = a.sess
     /\ strayed' = strayed \cup ({a.sess} \ {selected})
  /\ IF tab = "activity" /\ selected # None
     THEN UpdateActivityFeed(feed')
     ELSE Undrawn(<<>>)
  /\ UNCHANGED sessionLogs

SessionLogs ==
  /\ Receive("logs")
  /\ sessionLogs' = Head(answers).of
  /\ IF tab = "logs"
     THEN Draw(Rendered(tab, selected, feed, sessionLogs', injections, transcript), <<>>)
     ELSE Undrawn(<<>>)
  /\ UNCHANGED <<feed, since, strayed>>

(* Nothing is drawn: the view's subscription looks at the counts only.     *)
ContextInjections ==
  /\ Receive("injections")
  /\ injections' = [sess |-> Head(answers).sess, of |-> Head(answers).of, loading |-> FALSE]
  /\ UNCHANGED <<feed, since, sessionLogs, transcript, pane, open, strayed>>

TranscriptPage ==
  /\ Receive("transcript")
  /\ LET t == [transcript EXCEPT !.of = Head(answers).of, !.loading = FALSE] IN
     IF tab = "transcript"
     THEN Draw(Rendered(tab, selected, feed, sessionLogs, injections, t), <<>>)
     ELSE transcript' = t /\ UNCHANGED <<pane, injections, open>>
  /\ UNCHANGED <<feed, since, sessionLogs, strayed>>

Next ==
  \/ \E s \in Session : SelectSession(s)
  \/ \E t \in Tab : SwitchTab(t)
  \/ Poll
  \/ \E i \in DOMAIN open : Answer(i) \/ Refuse(i)
  \/ SessionActivity
  \/ SessionLogs
  \/ ContextInjections
  \/ TranscriptPage

Spec == Init /\ [][Next]_vars

-----------------------------------------------------------------------------
TypeOK ==
  /\ selected \in Session \cup {None} /\ since \in Session \cup {None}
  /\ tab \in Tab /\ feed \subseteq Session /\ sessionLogs \subseteq Session
  /\ injections \in Slice /\ transcript \in Slice /\ pane \in Pane
  /\ resident \subseteq Session /\ strayed \subseteq Session
  /\ \A i \in DOMAIN open : open[i].kind \in Kind
  /\ clicks \in 0 .. MaxClicks /\ refusals \in 0 .. MaxRefusals

Settled == open = <<>> /\ answers = <<>> /\ ~overtaken /\ refusals = 0

(* What the pane attributes to a session is of that session.  It is so of  *)
(* what was injected, though its answers come in any order and for         *)
(* sessions left long ago.  It is so of logs and transcript once all that  *)
(* was asked is answered, in the order asked.  Among the activity there    *)
(* may be rows of another session, but only of one whose answer arrived    *)
(* after this one was selected: what was drawn before never stays.  And    *)
(* these are not in State once all is answered, so that a tab that is left *)
(* and entered again has the session's own.                                *)
ShownIsSelected ==
  /\ pane.sess = selected
  /\ pane.tab = "injected" => pane.of \subseteq {selected}
  /\ pane.tab = "activity" => pane.of \subseteq {selected} \cup strayed
  /\ Settled => /\ feed \cup sessionLogs \subseteq {selected}
                /\ pane.tab # "activity" => pane.of \subseteq {selected}

=============================================================================
