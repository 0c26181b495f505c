---------------------------- MODULE Automaton ----------------------------
(***************************************************************************)
(* buildAutomaton of automaton.go: the Aho-Corasick machine over the rule  *)
(* anchors.  insert grows a trie byte by byte, link turns it into a table  *)
(* that has a transition for every byte, level by level.                   *)
(*                                                                         *)
(* States are numbers, 0 the root and, in the table, "no edge yet".  The   *)
(* code has no variable word: it names the bytes that lead to a state.     *)
(***************************************************************************)
EXTENDS Integers, Sequences, FiniteSets

CONSTANTS
  AnchorLists,   \* what Build may pass: sequences of anchors, of rules in order
  Bytes,         \* the alphabet
  MaxStates      \* 1 << 16 in the code, whose state ids are uint16

Anchor == [text : Seq(Bytes), rule : Nat]

ASSUME AnchorsAssumption ==
  /\ AnchorLists \subseteq Seq(Anchor)
  /\ \A l \in AnchorLists : \A i \in 1 .. Len(l) : l[i].text # <<>>
  /\ MaxStates \in Nat \ {0}

\* An uppercase letter of the alphabet has its lowercase letter there, and the
\* other way round.
asciiUpper(c) == IF c \in 97 .. 122 THEN c - 32 ELSE c
asciiLower(c) == IF c \in 65 .. 90 THEN c + 32 ELSE c

ASSUME BytesAssumption ==
  /\ Bytes \subseteq 0 .. 255
  /\ \A c \in Bytes : asciiUpper(c) \in Bytes /\ asciiLower(c) \in Bytes

lowerASCII(s) == [i \in 1 .. Len(s) |-> asciiLower(s[i])]

VARIABLES
  anchors,  \* the anchors, as the rules spell them
  fold,     \* foldAnchorCase
  pc,       \* "insert", "link", "ready" or "failed"
  a, k,     \* insert: which anchor, and how many of its bytes are in
  state,    \* insert: the state they lead to
  states,   \* the number of states
  next,     \* state -> byte -> state
  out,      \* state -> the outputs that end there
  word,     \* state -> the bytes that lead to it
  fail,     \* link: state -> the state of its longest proper suffix
  queue,    \* link: the states reached, in order
  i         \* link: how many of them are done

tableVars == <<states, next, out, word>>
insertVars == <<a, k, state>>
linkVars == <<fail, queue, i>>
vars == <<anchors, fold, pc, insertVars, tableVars, linkVars>>

States == 0 .. states - 1
Folded(c) == IF fold THEN asciiLower(c) ELSE c

NoEdges == [c \in Bytes |-> 0]
Grown(f, v) == [s \in 0 .. states |-> IF s < states THEN f[s] ELSE v]

\* anchorsOf lowers the anchors it hands on when the case is folded.
Inserted(j) == IF fold THEN lowerASCII(anchors[j].text) ELSE anchors[j].text

Init ==
  /\ anchors \in AnchorLists
  /\ fold \in BOOLEAN
  /\ pc = "insert"
  /\ a = 1 /\ k = 0 /\ state = 0
  /\ states = 1
  /\ next = [s \in {0} |-> NoEdges]
  /\ out = [s \in {0} |-> <<>>]
  /\ word = [s \in {0} |-> <<>>]
  /\ fail = [s \in {0} |-> 0]
  /\ queue = <<>> /\ i = 0

NextByte == Inserted(a)[k + 1]
Inserting == pc = "insert" /\ a <= Len(anchors)

FollowEdge ==
  /\ Inserting /\ k < Len(Inserted(a))
  /\ next[state][NextByte] # 0
  /\ state' = next[state][NextByte]
  /\ k' = k + 1
  /\ UNCHANGED <<anchors, fold, pc, a, tableVars, linkVars>>

\* A folded edge is entered under both of its letters.
OneLetter(c) == {c}
Letters(c) == IF fold THEN {c, asciiUpper(c)} ELSE {c}

RoomForOne == states <= MaxStates
HasRoom == states < MaxStates

\* The numbers of states, and the lengths of anchors, are uint16.
Uint16(n) == n % MaxStates

\* addState appends a row to the table, and insert points the edge at it.
AddState ==
  /\ Inserting /\ k < Len(Inserted(a))
  /\ next[state][NextByte] = 0
  /\ HasRoom
  /\ next' = [Grown(next, NoEdges) EXCEPT ![state] =
                [c \in Bytes |-> IF c \in Letters(NextByte) THEN Uint16(states) ELSE @[c]]]
  /\ out' = Grown(out, <<>>)
  /\ word' = Grown(word, Append(word[state], NextByte))
  /\ states' = states + 1
  /\ state' = Uint16(states)
  /\ k' = k + 1
  /\ UNCHANGED <<anchors, fold, pc, a, linkVars>>

TooManyStates ==
  /\ Inserting /\ k < Len(Inserted(a))
  /\ next[state][NextByte] = 0
  /\ ~HasRoom
  /\ pc' = "failed"
  /\ UNCHANGED <<anchors, fold, insertVars, tableVars, linkVars>>

Output(j) == [rule |-> anchors[j].rule, length |-> Uint16(Len(anchors[j].text))]

EndAnchor ==
  /\ Inserting /\ k = Len(Inserted(a))
  /\ out' = [out EXCEPT ![state] = Append(@, Output(a))]
  /\ a' = a + 1 /\ k' = 0 /\ state' = 0
  /\ UNCHANGED <<anchors, fold, pc, states, next, word, linkVars>>

(***************************************************************************)
(* The bytes of a state's row are looked at in ascending order: its        *)
(* children are queued in the order of the first byte that leads to them.  *)
(***************************************************************************)
Children(s) == {next[s][c] : c \in Bytes} \ {0}
FirstByte(s, t) ==
  CHOOSE c \in Bytes : next[s][c] = t /\ \A d \in Bytes : next[s][d] = t => c <= d

\* The elements of T, each once, in the order of their keys.
InOrderOf(T, key) ==
  [j \in 1 .. Cardinality(T) |->
     CHOOSE t \in T : Cardinality({u \in T : key[u] < key[t]}) = j - 1]

ByFirstByte(s, T) == InOrderOf(T, [t \in T |-> FirstByte(s, t)])

Requeued == {}
Queued == {queue[j] : j \in 1 .. Len(queue)}

StartLink ==
  /\ pc = "insert" /\ a > Len(anchors)
  /\ pc' = "link"
  /\ fail' = [s \in States |-> 0]
  /\ queue' = ByFirstByte(0, Children(0))
  /\ i' = 0
  /\ UNCHANGED <<anchors, fold, insertVars, tableVars>>

OwnOutputs(s) == out[s]
AllOutputs(s) == out[s] \o out[fail[s]]

RootRow(s) == next[0]
FailRow(s) == next[fail[s]]

NewFail(s, t) == FailRow(s)[FirstByte(s, t)]

LinkState ==
  /\ pc = "link" /\ i < Len(queue)
  /\ LET s == queue[i + 1]
         fresh == Children(s) \ Queued
     IN  /\ out' = [out EXCEPT ![s] = AllOutputs(s)]
         /\ next' = [next EXCEPT ![s] =
                       [c \in Bytes |-> IF @[c] = 0 THEN FailRow(s)[c] ELSE @[c]]]
         /\ fail' = [t \in States |-> IF t \in fresh THEN NewFail(s, t) ELSE fail[t]]
         /\ queue' = queue \o ByFirstByte(s, fresh)
  /\ i' = i + 1
  /\ UNCHANGED <<anchors, fold, pc, insertVars, states, word>>

\* freeze only repacks the outputs, and marks the bytes that leave the root.
Freeze ==
  /\ pc = "link" /\ i = Len(queue)
  /\ pc' = "ready"
  /\ UNCHANGED <<anchors, fold, insertVars, tableVars, linkVars>>

Build ==
  \/ FollowEdge \/ AddState \/ TooManyStates \/ EndAnchor
  \/ StartLink \/ LinkState \/ Freeze

Terminated == pc \in {"ready", "failed"} /\ UNCHANGED vars

Next == Build \/ Terminated

Spec == Init /\ [][Next]_vars
-----------------------------------------------------------------------------
\* The table has one row and one list of outputs for each state.  (Scan goes
\* on from "ready" and adds two phases.)
TypeOK ==
  /\ anchors \in AnchorLists /\ fold \in BOOLEAN
  /\ pc \in {"insert", "link", "ready", "failed", "scan", "scanned"}
  /\ a \in 1 .. Len(anchors) + 1
  /\ k \in Nat
  /\ Inserting => k <= Len(Inserted(a))
  /\ states \in 1 .. MaxStates
  /\ state \in States
  /\ next \in [States -> [Bytes -> States]]
  /\ out \in [States -> Seq([rule : Nat, length : Nat])]
  /\ word \in [States -> Seq(Bytes)]
  /\ DOMAIN fail \subseteq States /\ \A s \in DOMAIN fail : fail[s] \in States
  /\ queue \in Seq(States)
  /\ i \in 0 .. Len(queue)

Words == {word[s] : s \in States}
IsSuffix(u, v) ==
  Len(u) <= Len(v) /\ \A j \in 1 .. Len(u) : u[j] = v[Len(v) - Len(u) + j]

\* The state of the longest suffix of v that is a word of the trie.
LongestSuffix(s, v) ==
  /\ s \in States /\ IsSuffix(word[s], v)
  /\ \A t \in States : IsSuffix(word[t], v) => Len(word[t]) <= Len(word[s])

SameWord(u, v) == Len(u) = Len(v) /\ IsSuffix(u, v)
Prefix(j, n) == [m \in 1 .. n |-> Inserted(j)[m]]

\* Before link: the states are the prefixes of the anchors inserted so far, one
\* each, and an edge leads from a prefix to the next under every casing of the
\* byte.  No anchor is lost behind another that shares its bytes.
TrieIsExact ==
  pc = "insert" =>
    /\ \A s, t \in States : s # t => ~SameWord(word[s], word[t])
    /\ \A s \in States : s # 0 =>
         \E j \in 1 .. Len(anchors) : \E n \in 1 .. Len(Inserted(j)) :
           (j < a \/ (j = a /\ n <= k)) /\ word[s] = Prefix(j, n)
    /\ \A s \in States : \A c \in Bytes :
         IF next[s][c] # 0
         THEN word[next[s][c]] = Append(word[s], Folded(c))
         ELSE \A t \in States : ~SameWord(word[t], Append(word[s], Folded(c)))
    /\ \A j \in 1 .. a - 1 : \E s \in States :
         word[s] = Inserted(j) /\ \E n \in 1 .. Len(out[s]) : out[s][n] = Output(j)

\* Linked rows are complete: under every byte the table leads to the longest
\* suffix, of what was read, that an anchor starts with.  Every state keeps that
\* through the rows of later levels that overwrite the trie.
MovesToLongestSuffix ==
  pc \in {"link", "ready"} =>
    \A s \in {0} \cup {queue[j] : j \in 1 .. i} : \A c \in Bytes :
      LongestSuffix(next[s][c], Append(word[s], Folded(c)))

Ending(s) == {m \in 1 .. Len(anchors) : IsSuffix(Inserted(m), word[s])}
OutputsEnding(s) ==
  /\ Len(out[s]) = Cardinality(Ending(s))
  /\ \A j \in Ending(s) :
       Cardinality({n \in 1 .. Len(out[s]) :
                      out[s][n] = [rule |-> anchors[j].rule, length |-> Len(Inserted(j))]})
         = Cardinality({m \in Ending(s) :
                      /\ anchors[m].rule = anchors[j].rule
                      /\ Len(Inserted(m)) = Len(Inserted(j))})

\* A state outputs the anchors that end where it ends, each as often as the
\* rules list it, also those it has only as the suffix of another anchor.
OutputsAreSuffixes == pc = "ready" => \A s \in States : OutputsEnding(s)

\* A linked row leads back up the trie, and a folded edge twice to one child:
\* link still visits every state once, so it ends, with no state left out.
EachStateOnce ==
  /\ pc \in {"link", "ready"} => \A m, n \in 1 .. Len(queue) : queue[m] = queue[n] => m = n
  /\ pc = "ready" => Queued = States \ {0}
=============================================================================
