----------------------------- MODULE ContextTray -----------------------------
(***************************************************************************)
(* The context tray (context/tray-store.ts and the tray methods of         *)
(* ipc-server.ts): each operation reads the whole file, changes what it    *)
(* read and writes it back through a temporary file, whose name all the    *)
(* operations of one process share.                                        *)
(***************************************************************************)
EXTENDS Integers, Sequences, FiniteSets, SequencesExt, Arrays

CONSTANTS
  Item,
  MaxOps,       \* bound: operations
  MaxCrashes    \* bound: crashes of the core

VARIABLES
  target, temp, \* the inode each name leads to, 0 for none
  inodes,       \* what is in each inode
  ops,          \* operations under way
  begun, crashes,
  expected,     \* history: the trays that the operations done amount to
  overlapped    \* history: two operations were under way at once

vars == <<target, temp, inodes, ops, begun, crashes, expected, overlapped>>

-----------------------------------------------------------------------------
(* The items in their order, and which of them are edited.                 *)
Tray == [items : Seq(Item), edited : SUBSET Item]
Empty == [items |-> <<>>, edited |-> {}]
Fragment == [items |-> <<>>]                     \* no JSON

Ids(tray) == Range(tray.items)
Without(tray, i) ==
  [items |-> Filter(tray.items, Ids(tray) \ {i}), edited |-> tray.edited \ {i}]

(* addItem, removeItem, updateItem, resetItem, reorderItems and clearTray. *)
(* What a reorder does not name keeps its place behind what it names.      *)
Change == [kind : {"add", "remove", "update", "reset", "front"}, item : Item]
            \cup [kind : {"clear"}]

Allowed(tray, c) ==
  \/ c.kind \in {"clear", "remove", "front"}
  \/ c.kind = "add" /\ c.item \notin UNION {Ids(t) : t \in expected}
  \/ c.kind \in {"update", "reset"} /\ c.item \in Ids(tray)

Changed(tray, c) ==
  CASE c.kind = "add"    -> [tray EXCEPT !.items = Append(@, c.item)]
    [] c.kind = "remove" -> Without(tray, c.item)
    [] c.kind = "update" -> [tray EXCEPT !.edited = @ \cup {c.item}]
    [] c.kind = "reset"  -> [tray EXCEPT !.edited = @ \ {c.item}]
    [] c.kind = "front"  ->
         IF c.item \notin Ids(tray) THEN tray
         ELSE [Without(tray, c.item) EXCEPT !.items = <<c.item>> \o @, !.edited = tray.edited]
    [] c.kind = "clear"  -> Empty

(* readTray: no file, or one that does not parse, is an empty tray.        *)
Read ==
  IF target = 0 \/ inodes[target] = Fragment THEN Empty ELSE inodes[target]

(* A request arrives: it reads the tray, and answers an error at once when *)
(* the change is refused.                                                  *)
Begins(c) ==
  /\ begun < MaxOps
  /\ Allowed(Read, c)
  /\ begun' = begun + 1
  /\ ops' = ops \cup {[id |-> begun, step |-> "open", tray |-> Changed(Read, c), inode |-> 0]}
  /\ overlapped' = (overlapped \/ ops # {})
  /\ expected' = expected \cup {Changed(Read, c)}
  /\ UNCHANGED <<target, temp, inodes, crashes>>

Goes(o, new) == ops' = (ops \ {o}) \cup {new}

(* Broken: the file itself is written.                                     *)
OpenedDirect == [name |-> target, inPlace |-> TRUE]

(* writeFile opens the temporary file, new or the one that is there.       *)
Opened == [name |-> temp, inPlace |-> FALSE]

Opens(o) ==
  /\ o \in ops /\ o.step = "open"
  /\ LET n == IF Opened.name = 0 THEN Len(inodes) + 1 ELSE Opened.name
     IN /\ inodes' = IF n > Len(inodes) THEN Append(inodes, Fragment)
                     ELSE [inodes EXCEPT ![n] = Fragment]
        /\ Goes(o, [o EXCEPT !.step = "write", !.inode = n])
        /\ IF Opened.inPlace THEN target' = n /\ temp' = temp
           ELSE temp' = n /\ target' = target
  /\ UNCHANGED <<begun, crashes, expected, overlapped>>

(* The bytes: over another operation's the file is one tray or neither.    *)
Writes(o) ==
  /\ o \in ops /\ o.step = "write"
  /\ \/ inodes' = [inodes EXCEPT ![o.inode] = o.tray]
     \/ inodes[o.inode] # Fragment /\ inodes' = [inodes EXCEPT ![o.inode] = Fragment]
  /\ Goes(o, [o EXCEPT !.step = "rename"])
  /\ UNCHANGED <<target, temp, begun, crashes, expected, overlapped>>

(* rename fails when another operation has taken the temporary file.       *)
Renames(o) ==
  /\ o \in ops /\ o.step = "rename"
  /\ IF temp # 0 THEN target' = temp /\ temp' = 0 ELSE UNCHANGED <<target, temp>>
  /\ ops' = ops \ {o}
  /\ expected' = IF Cardinality(ops) = 1 THEN {o.tray} ELSE expected
  /\ UNCHANGED <<inodes, begun, crashes, overlapped>>

(* The core is killed; the next one has another name for its temporaries.  *)
Crashes ==
  /\ crashes < MaxCrashes
  /\ crashes' = crashes + 1
  /\ ops' = {} /\ temp' = 0
  /\ UNCHANGED <<target, inodes, begun, expected, overlapped>>

Init ==
  /\ target = 0 /\ temp = 0 /\ inodes = <<>> /\ ops = {}
  /\ begun = 0 /\ crashes = 0 /\ expected = {Empty} /\ overlapped = FALSE

Next ==
  \/ \E c \in Change : Begins(c)
  \/ \E o \in ops : Opens(o) \/ Writes(o) \/ Renames(o)
  \/ Crashes

Spec == Init /\ [][Next]_vars

-----------------------------------------------------------------------------
TypeOK ==
  /\ target \in 0 .. Len(inodes) /\ temp \in 0 .. Len(inodes)
  /\ \A n \in DOMAIN inodes : inodes[n] \in Tray \cup {Fragment}
  /\ \A o \in ops : o.step \in {"open", "write", "rename"} /\ o.inode \in 0 .. Len(inodes)
  /\ Cardinality(ops) <= MaxOps

(* As long as requests come one at a time the tray is what the operations  *)
(* made of it, before or after the one under way, wherever the core is     *)
(* killed.                                                                 *)
TrayIsSerial == overlapped \/ Read \in expected

=============================================================================
