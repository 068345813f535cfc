----------------------------- MODULE KeypadCommands -----------------------------
(***************************************************************************)
(* The serial vocabulary of the keypad controller: a command line as       *)
(* processCommand splits it into tokens, and the kinds of reply lines.     *)
(***************************************************************************)
EXTENDS Integers, Sequences

CONSTANTS
  KeyCount,     \* kKeyCount
  Commands      \* the command lines the host may send

Keys == 0 .. (KeyCount - 1)
Idle == -1

(* Tokens of a line: the verb, how many tokens there are, the key the      *)
(* second one names (Idle if it names none) and the third one's toInt().   *)
Verb    == {"press", "hold", "release", "status", "help", "list", "unknown", "blank"}
Command == [verb : Verb, count : 0 .. 4, key : Keys \cup {Idle}, ms : Int]

(* "text" stands for the lines of the banner, of help and of list.         *)
Reply == {"OK: pressing", "OK", "OK: nothing to release", "ERR", "Status:", "text"}

ASSUME CommandAssumption ==
  /\ KeyCount \in Nat
  /\ Commands \subseteq Command

(* startKeyPress is called only for a line that names a key.               *)
Starts(c) == c.verb \in {"press", "hold"} /\ c.count >= 2 /\ c.key # Idle
Rejected(c) ==
  \/ c.verb = "unknown"
  \/ c.verb \in {"press", "hold"} /\ ~Starts(c)
================================================================================
