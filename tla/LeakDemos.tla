----------------------------- MODULE LeakDemos -----------------------------
(***************************************************************************)
(* memory_leak_demo.cpp and leak_demo_with_sleep.cpp: programs that leak   *)
(* on purpose, for a leak checker to find, and announce what they leak.    *)
(* A scenario is written as the instructions of it that touch the heap,    *)
(* and the actions execute them.                                           *)
(*                                                                         *)
(* A place is <<v>>, a local variable, or <<v, f>>, the field f of the     *)
(* block that v points to.  The counts of the loops are those of the code. *)
(* The names differ from those of BlockLayout, with which this module is   *)
(* extended where both are proved about.                                   *)
(***************************************************************************)
EXTENDS Naturals, Sequences, FiniteSets

CONSTANTS
  nullptr,      \* nullptr
  MaxCalls   \* bound: the number of scenarios that are called

\* Blocks are numbers, and no block is at nullptr.
ASSUME DemoAssumption == MaxCalls \in Nat /\ nullptr \notin Nat

VARIABLES
  live,      \* the blocks that are allocated
  fields,    \* fields[b]: the pointers stored in block b; the blocks allocated
             \* so far are 1 .. Len(fields)
  locals,    \* the pointers among the local variables
  scene,     \* the scenario that is executed, or "none"
  ip,        \* the number of its instructions that are done
  before,    \* the blocks that were live when it was called
  calls      \* the number of calls so far

heap == <<live, fields, locals>>
demoVars == <<heap, scene, ip, before, calls>>

-----------------------------------------------------------------------------
\* The scenarios

New(p)       == [do |-> "new", to |-> p, sub |-> {}]
NewWith(p, f) == [do |-> "new", to |-> p, sub |-> {f}] \* its constructor allocates, too
Link(p, q)   == [do |-> "link", to |-> p, from |-> q]
Forget(p)    == [do |-> "forget", to |-> p]            \* set to nullptr, or out of scope
Delete(p)    == [do |-> "delete", to |-> p]

\* n turns of a loop, the i-th of them body[i]: len instructions.
Loop(n, len, body) ==
  [j \in 1 .. n * len |-> body[(j - 1) \div len + 1][((j - 1) % len) + 1]]

Element(i) == <<"pointers", i>>

SimpleMemoryLeak == <<New(<<"leaked_int">>), New(<<"leaked_array">>), New(<<"leaked_string">>)>>

ArrayMemoryLeak ==
  LET body == [i \in 1 .. 10 |-> <<New(<<"leaked_doubles">>), Forget(<<"leaked_doubles">>)>>] IN Loop(10, 2, body)

ObjectMemoryLeak ==
  LET body == [i \in 1 .. 5 |-> <<NewWith(<<"obj">>, "data"), Forget(<<"obj">>)>>] IN Loop(5, 2, body)

\* One pointer too many.
HalfSlip(n) == n \div 2 + 1

\* Half of the size of the vector, rounded down.
Half(n) == n \div 2

\* The vector's own memory goes with the vector.
PartialMemoryLeak ==
  LET fill == [i \in 1 .. 20 |-> <<New(Element(i))>>]
      free == [i \in 1 .. Half(20) |-> <<Delete(Element(i)), Forget(Element(i))>>]
  IN <<New(<<"pointers">>)>> \o Loop(20, 1, fill) \o Loop(Half(20), 2, free) \o <<Delete(<<"pointers">>)>>

CircularReferenceleak ==
  <<New(<<"node1">>), New(<<"node2">>), New(<<"node3">>),
    Link(<<"node1", "next">>, <<"node2">>), Link(<<"node2", "next">>, <<"node3">>),
    Link(<<"node3", "next">>, <<"node1">>), Link(<<"node1", "prev">>, <<"node3">>),
    Link(<<"node2", "prev">>, <<"node1">>), Link(<<"node3", "prev">>, <<"node2">>)>>

\* The array of pointers goes before what it points to.
SleepingPartialLeakSlip ==
  LET fill == [i \in 1 .. 20 |-> <<New(Element(i))>>]
      free == [i \in 1 .. 10 |-> <<Delete(Element(i))>>]
  IN <<New(<<"pointers">>)>> \o Loop(20, 1, fill) \o <<Delete(<<"pointers">>)>> \o Loop(10, 1, free)

\* The array of pointers is released after half of what it points to.
SleepingPartialLeak ==
  LET fill == [i \in 1 .. 20 |-> <<New(Element(i))>>]
      free == [i \in 1 .. 10 |-> <<Delete(Element(i))>>]
  IN <<New(<<"pointers">>)>> \o Loop(20, 1, fill) \o Loop(10, 1, free) \o <<Delete(<<"pointers">>)>>

\* main() of leak_demo_with_sleep.cpp, up to its sleep: leaked_memory and
\* pointers are still in scope.
SleepingMain ==
  LET arrays  == [i \in 1 .. 10 |-> <<New(<<"array">>), Forget(<<"array">>)>>]
      objects == [i \in 1 .. 5 |-> <<NewWith(<<"obj">>, "data"), Forget(<<"obj">>)>>]
  IN <<New(<<"leaked_memory">>)>> \o Loop(10, 2, arrays) \o Loop(5, 2, objects) \o SleepingPartialLeak

Script ==
  [simple |-> SimpleMemoryLeak, array |-> ArrayMemoryLeak, object |-> ObjectMemoryLeak,
   partial |-> PartialMemoryLeak, circular |-> CircularReferenceleak, sleeping |-> SleepingMain]

-----------------------------------------------------------------------------
\* Their execution

DemoInit ==
  /\ live = {} /\ fields = <<>> /\ locals = <<>>
  /\ scene = "none" /\ ip = 0 /\ before = {} /\ calls = 0

\* main() of memory_leak_demo.cpp calls scenarios one after another, all but one
\* of them commented out; the other program is all that runs of it.
Call ==
  /\ scene = "none"
  /\ \E s \in DOMAIN Script :
       /\ calls < MaxCalls
       /\ s = "sleeping" => calls = 0
       /\ calls' = IF s = "sleeping" THEN MaxCalls ELSE calls + 1
       /\ scene' = s
  /\ ip' = 0
  /\ before' = live
  /\ UNCHANGED heap

Value(p) == IF Len(p) = 1 THEN locals[p[1]] ELSE fields[locals[p[1]]][p[2]]

\* f, with the pointer b at x.
With(f, x, b) == [y \in DOMAIN f \cup {x} |-> IF y = x THEN b ELSE f[y]]

\* The pointer b is stored at p, where the contents of the blocks are fs.
StoreIn(fs, p, b) ==
  IF Len(p) = 1
  THEN locals' = With(locals, p[1], b) /\ fields' = fs
  ELSE fields' = [fs EXCEPT ![locals[p[1]]] = With(@, p[2], b)] /\ UNCHANGED locals

Step(op) ==
  /\ scene # "none" /\ ip < Len(Script[scene])
  /\ Script[scene][ip + 1].do = op
  /\ ip' = ip + 1
  /\ UNCHANGED <<scene, before, calls>>

To == Script[scene][ip + 1].to

Allocate ==
  /\ Step("new")
  /\ LET b == Len(fields) + 1
         sub == Script[scene][ip + 1].sub
     IN /\ live' = live \cup (b .. b + Cardinality(sub))
        /\ StoreIn([c \in 1 .. b + Cardinality(sub) |->
                      IF c < b THEN fields[c] ELSE IF c = b THEN [f \in sub |-> b + 1] ELSE <<>>], To, b)

SetPointer == Step("link") /\ StoreIn(fields, To, Value(Script[scene][ip + 1].from)) /\ UNCHANGED live
SetNull    == Step("forget") /\ StoreIn(fields, To, nullptr) /\ UNCHANGED live
Deallocate == Step("delete") /\ live' = live \ {Value(To)} /\ UNCHANGED <<fields, locals>>

\* The locals go out of scope.
Return ==
  /\ scene # "none" /\ ip = Len(Script[scene])
  /\ scene' = "none" /\ locals' = <<>>
  /\ UNCHANGED <<live, fields, ip, before, calls>>

Ended == scene = "none" /\ calls = MaxCalls /\ UNCHANGED demoVars

DemoNext == Call \/ Allocate \/ SetPointer \/ SetNull \/ Deallocate \/ Return \/ Ended

DemoSpec == DemoInit /\ [][DemoNext]_demoVars

-----------------------------------------------------------------------------
\* Properties

Pointers(f) == {f[x] : x \in DOMAIN f}

\* The blocks of lv that can be reached from the variables ls, when fs is what
\* the blocks contain.
Reach(ls, fs, lv) ==
  LET reach[n \in 0 .. Len(fs)] ==
        IF n = 0 THEN Pointers(ls) \cap lv
        ELSE UNION {{b} \cup (Pointers(fs[b]) \cap lv) : b \in reach[n - 1]}
  IN reach[Len(fs)]

\* The live blocks that can be reached from the local variables.
Reachable == Reach(locals, fields, live)

\* What the programs say they leave behind, in blocks: an int, an array and a
\* string (its text counted with it); 10 arrays; 5 objects with what they own; the rest of
\* 20 after one half is released; a cycle of 3 nodes; and for the program that
\* sleeps 10 arrays, 5 objects with their data, and 10 ints.
Announced ==
  [simple |-> 3, array |-> 10, object |-> 10, partial |-> 20 - 20 \div 2,
   circular |-> 3, sleeping |-> 10 + 10 + 10]

\* At the end of a scenario what a leak checker reports as new, blocks to which
\* no pointer leads, is as many as it has announced: a local does not hide any
\* of them, and the cycle does not keep itself alive.  While the other program
\* sleeps the int of its first scenario is still in the hands of main().
LeaksAsAnnounced ==
  [][scene # "none" /\ scene' = "none" =>
       LET lost == IF scene = "sleeping" THEN live \ Reachable ELSE (live \ Reachable)'
       IN Cardinality(lost \ before) = Announced[scene]]_demoVars

\* Only blocks that are live are written to and released: no block is released
\* twice, and the array of pointers is not used after it is released.
OnlyLiveBlocks ==
  scene # "none" /\ ip < Len(Script[scene]) =>
    /\ Len(To) = 2 => locals[To[1]] \in live
    /\ Script[scene][ip + 1].do = "delete" => Value(To) \in live
=============================================================================
