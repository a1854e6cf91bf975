--------------------------- MODULE ContextDelivery ---------------------------
(***************************************************************************)
(* Context handed to sessions through files: the one staged for the next   *)
(* session (memory/staged-context.ts), and the ones armed for the next     *)
(* prompt of a session or pinned to all of them (context/armed-store.ts).  *)
(* The core puts a payload in place by a rename; the hook scripts          *)
(* inspector-context.sh and inspector-prompt-context.sh read it, remove it *)
(* if it is one-shot, and print it.                                        *)
(***************************************************************************)
EXTENDS Integers, Sequences, FiniteSets

CONSTANTS
  Session,
  MaxPayloads,  \* bound: payloads staged or armed
  MaxHooks,     \* bound: hook processes
  MaxTime       \* bound: the clock; a payload is good for one tick

VARIABLES
  clock,
  slots,        \* the payload in each file, or 0
  expires,      \* when each payload expires
  hooks,        \* hook processes at work
  begun,
  delivered     \* history: the payloads printed

vars == <<clock, slots, expires, hooks, begun, delivered>>

-----------------------------------------------------------------------------
Payload == DOMAIN expires
Slot == {<<"next">>} \cup ({"now", "pinned"} \X Session)

OneShot(slot) == slot[1] # "pinned"

(* stageContext and armContext: what was there is replaced.                *)
Arms(slot) ==
  /\ Len(expires) < MaxPayloads
  /\ expires' = Append(expires, clock + 1)
  /\ slots' = [slots EXCEPT ![slot] = Len(expires')]
  /\ UNCHANGED <<clock, hooks, begun, delivered>>

(* clearStagedContext and disarmContext.                                   *)
Disarms(slot) ==
  /\ slots[slot] # 0
  /\ slots' = [slots EXCEPT ![slot] = 0]
  /\ UNCHANGED <<clock, expires, hooks, begun, delivered>>

(* readStagedContext and readArmed: what the panel shows as armed.         *)
Live(p) == p # 0 /\ clock < expires[p]
Armed(slot) == Live(slots[slot])

Tick ==
  /\ clock < MaxTime
  /\ clock' = clock + 1
  /\ UNCHANGED <<slots, expires, hooks, begun, delivered>>

-----------------------------------------------------------------------------
(* Broken: printed, and only then removed.                                 *)
StepsPrintFirst(slot) == IF OneShot(slot) THEN <<"print", "remove">> ELSE <<"print">>

(* What a hook does with a file it has read.                               *)
Steps(slot) == IF OneShot(slot) THEN <<"remove", "print">> ELSE <<"print">>

(* The files a hook goes through: SessionStart and UserPromptSubmit.       *)
Visits(s) == {<< <<"next">> >>, << <<"now", s>>, <<"pinned", s>> >>}

Starts(s) ==
  /\ begun < MaxHooks
  /\ begun' = begun + 1
  /\ \E visit \in Visits(s) :
       hooks' = hooks \cup {[id |-> begun, left |-> visit, held |-> 0, steps |-> <<>>]}
  /\ UNCHANGED <<clock, slots, expires, delivered>>

Goes(h, new) ==
  hooks' = (hooks \ {h}) \cup (IF new.left = <<>> THEN {} ELSE {new})

Onward(h) == [h EXCEPT !.left = Tail(@), !.held = 0, !.steps = <<>>]

Reads(h) ==
  /\ h \in hooks /\ h.held = 0
  /\ LET slot == Head(h.left)
     IN Goes(h, IF slots[slot] = 0 THEN Onward(h)
                ELSE [h EXCEPT !.held = slots[slot], !.steps = Steps(slot)])
  /\ UNCHANGED <<clock, slots, expires, begun, delivered>>

After(h) == IF Tail(h.steps) = <<>> THEN Onward(h) ELSE [h EXCEPT !.steps = Tail(@)]

(* rm -f: whatever is in the file by now.                                  *)
Removes(h) ==
  /\ h \in hooks /\ h.held # 0 /\ Head(h.steps) = "remove"
  /\ slots' = [slots EXCEPT ![Head(h.left)] = 0]
  /\ Goes(h, After(h))
  /\ UNCHANGED <<clock, expires, begun, delivered>>

(* Printed if it has not expired; the prompt hook decides that here and    *)
(* prints at its end.                                                      *)
Prints(h) ==
  /\ h \in hooks /\ h.held # 0 /\ Head(h.steps) = "print"
  /\ delivered' = IF Live(h.held) THEN delivered \cup {h.held} ELSE delivered
  /\ Goes(h, After(h))
  /\ UNCHANGED <<clock, slots, expires, begun>>

Dies(h) ==
  /\ h \in hooks
  /\ hooks' = hooks \ {h}
  /\ UNCHANGED <<clock, slots, expires, begun, delivered>>

Init ==
  /\ clock = 0 /\ slots = [s \in Slot |-> 0] /\ expires = <<>>
  /\ hooks = {} /\ begun = 0 /\ delivered = {}

Next ==
  \/ \E slot \in Slot : Arms(slot) \/ Disarms(slot)
  \/ Tick
  \/ \E s \in Session : Starts(s)
  \/ \E h \in hooks : Reads(h) \/ Removes(h) \/ Prints(h) \/ Dies(h)

Spec == Init /\ [][Next]_vars

-----------------------------------------------------------------------------
TypeOK ==
  /\ clock \in 0 .. MaxTime /\ slots \in [Slot -> 0 .. Len(expires)]
  /\ delivered \subseteq Payload
  /\ \A h \in hooks : h.held \in 0 .. Len(expires) /\ h.left # <<>>

(* One-shot: once a payload has been printed no hook reads it any more,    *)
(* even when the hook that printed it died there.  Only hooks that had     *)
(* read it by then can print it again.                                     *)
SpentStaysSpent ==
  \A slot \in Slot : OneShot(slot) => slots[slot] \notin delivered

=============================================================================
