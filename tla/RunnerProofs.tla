----------------------------- MODULE RunnerProofs -----------------------------
(***************************************************************************)
(* Proofs about the runner, for outputs of any length and every way to cut *)
(* them into writes: what has been told and what is still to be told are   *)
(* always the lines that the command writes.                               *)
(***************************************************************************)
EXTENDS Runner, FoldLemmas, TLAPS

Line == Seq(Atoms)
Event == [type : StdoutTypes \cup {"stderr"}, raw : Line]
Acc == [finalPayload : Line, progressLast : Line, stderrLines : Seq(Line), events : Seq(Event)]
Cut == [lines : Seq(Line), rest : Line]
NoCut == [lines |-> <<>>, rest |-> <<>>]

(* The steps of the folds, as functions.                                   *)
SplitStep(acc, a) ==
    IF a = Newline THEN [lines |-> Append(acc.lines, acc.rest), rest |-> <<>>]
    ELSE [acc EXCEPT !.rest = Append(@, a)]
SplitG == [p \in Cut \X Atoms |-> SplitStep(p[1], p[2])]

LEMMA AtomsTyped == Newline \in Atoms /\ Atom("error", 0, 0) \in Atoms /\ Atom("redacted", 0, 0) \in Atoms
BY DEF Newline, Atom, Atoms

LEMMA SplitIsFold == IsFold(Cut, Atoms, SplitG, NoCut)
<1>1. NoCut \in Cut
  BY DEF NoCut, Cut, Line
<1>2. ASSUME NEW c \in Cut, NEW a \in Atoms PROVE SplitStep(c, a) \in Cut
  <2>1. c.lines \in Seq(Line) /\ c.rest \in Line /\ c = [lines |-> c.lines, rest |-> c.rest]
    BY DEF Cut
  <2>2. Append(c.lines, c.rest) \in Seq(Line) /\ Append(c.rest, a) \in Line /\ <<>> \in Line
    BY <2>1 DEF Line
  <2> QED BY <2>1, <2>2 DEF SplitStep, Cut
<1> QED BY <1>1, <1>2 DEF IsFold, SplitG

LEMMA SplitFold ==
    ASSUME NEW data \in Line
    PROVE  Split(data) = FoldOf(SplitG, NoCut, data)
<1> DEFINE Rule(h) == h = [I \in SUBSET DOMAIN data |->
                             IF I = {} THEN NoCut ELSE SplitStep(h[I \ {Max(I)}], data[Max(I)])]
           f == CHOOSE h : Rule(h)
<1>1. PICK h \in [SUBSET DOMAIN data -> Cut] : FoldRule(SplitG, NoCut, data, h)
  BY SplitIsFold, FoldExists DEF Line
<1>2. Rule(h)
  <2>1. ASSUME NEW I \in SUBSET DOMAIN data, I # {}
        PROVE  SplitG[<<h[I \ {Max(I)}], data[Max(I)]>>] = SplitStep(h[I \ {Max(I)}], data[Max(I)])
    <3>1. data[Max(I)] \in Atoms /\ h[I \ {Max(I)}] \in Cut
      BY <2>1, FoldPositions DEF Line
    <3> QED BY <3>1 DEF SplitG
  <2> QED BY <1>1, <2>1 DEF FoldRule
<1>3. Rule(f)
  BY <1>2
<1>4. Split(data) = f[DOMAIN data]
  BY DEF Split, FoldLeft, MapThenFoldSet, SplitStep, NoCut
<1> HIDE DEF f
<1>5. Recurs(f, Cut, SplitG, NoCut, data)
  <2>1. ASSUME NEW I \in SUBSET DOMAIN data, I # {}, f[I \ {Max(I)}] \in Cut
        PROVE  f[I] = SplitG[<<f[I \ {Max(I)}], data[Max(I)]>>]
    <3>1. data[Max(I)] \in Atoms
      BY <2>1, FoldPositions DEF Line
    <3> QED BY <1>3, <2>1, <3>1 DEF SplitG
  <2>2. f[{}] = NoCut
    BY <1>3
  <2> QED BY <2>1, <2>2 DEF Recurs
<1> QED BY <1>4, <1>5, SplitIsFold, FoldOfRecurs DEF Line
-----------------------------------------------------------------------------
LEMMA EventTypeTyped == \A line : EventType(line) \in StdoutTypes
BY DEF EventType, StdoutTypes

LEMMA RedactTyped == \A line \in Line : Redact(line) \in Line
<1>1. <<Atom("redacted", 0, 0)>> \in Line
  BY AtomsTyped DEF Line
<1> QED BY <1>1 DEF Redact

LEMMA OnEventTyped ==
    ASSUME NEW acc \in Acc, NEW type \in StdoutTypes \cup {"stderr"}, NEW raw \in Line
    PROVE  /\ OnEvent(acc, type, raw) \in Acc
           /\ OnEvent(acc, type, raw) =
                [finalPayload |-> acc.finalPayload, progressLast |-> acc.progressLast,
                 stderrLines |-> acc.stderrLines,
                 events |-> Append(acc.events, [type |-> type, raw |-> raw])]
<1>1. [type |-> type, raw |-> raw] \in Event
  BY DEF Event
<1>2. Append(acc.events, [type |-> type, raw |-> raw]) \in Seq(Event)
  BY <1>1 DEF Acc
<1>3. acc = [finalPayload |-> acc.finalPayload, progressLast |-> acc.progressLast,
             stderrLines |-> acc.stderrLines, events |-> acc.events]
  BY DEF Acc
<1>4. OnEvent(acc, type, raw) =
        [finalPayload |-> acc.finalPayload, progressLast |-> acc.progressLast,
         stderrLines |-> acc.stderrLines,
         events |-> Append(acc.events, [type |-> type, raw |-> raw])]
  BY <1>3, SMTT(30) DEF OnEvent
<1> QED BY <1>2, <1>4 DEF Acc

LEMMA HandleStdoutTyped ==
    ASSUME NEW acc \in Acc, NEW line \in Line
    PROVE  HandleStdout(acc, line) \in Acc
<1> DEFINE noted == CASE EventType(line) = "progress" -> [acc EXCEPT !.progressLast = line]
                      [] EventType(line) = "stdout_json" -> [acc EXCEPT !.finalPayload = line]
                      [] OTHER -> acc
<1>1. noted \in Acc
  BY DEF Acc
<1> HIDE DEF noted
<1>2. OnEvent(noted, EventType(line), line) \in Acc
  BY <1>1, EventTypeTyped, OnEventTyped
<1> QED BY <1>2 DEF HandleStdout, noted

LEMMA HandleStderrTyped ==
    ASSUME NEW acc \in Acc, NEW line \in Line
    PROVE  HandleStderr(acc, line) \in Acc
<1> DEFINE noted == [acc EXCEPT !.stderrLines = Append(@, Redact(line))]
<1>1. noted \in Acc
  <2>1. Append(acc.stderrLines, Redact(line)) \in Seq(Line)
    BY RedactTyped DEF Acc
  <2> QED BY <2>1 DEF Acc
<1> HIDE DEF noted
<1>2. OnEvent(noted, "stderr", Redact(line)) \in Acc
  BY <1>1, RedactTyped, OnEventTyped
<1> QED BY <1>2 DEF HandleStderr, noted

StdoutG == [p \in Acc \X Line |-> HandleStdout(p[1], p[2])]
StderrG == [p \in Acc \X Line |-> HandleStderr(p[1], p[2])]

LEMMA StdoutFold ==
    ASSUME NEW acc \in Acc, NEW lines \in Seq(Line)
    PROVE  /\ IsFold(Acc, Line, StdoutG, acc)
           /\ FoldLeft(HandleStdout, acc, lines) = FoldOf(StdoutG, acc, lines)
<1> DEFINE Rule(h) == h = [I \in SUBSET DOMAIN lines |->
                             IF I = {} THEN acc ELSE HandleStdout(h[I \ {Max(I)}], lines[Max(I)])]
           f == CHOOSE h : Rule(h)
<1>0. IsFold(Acc, Line, StdoutG, acc)
  BY HandleStdoutTyped DEF IsFold, StdoutG
<1>1. PICK h \in [SUBSET DOMAIN lines -> Acc] : FoldRule(StdoutG, acc, lines, h)
  BY <1>0, FoldExists
<1>2. Rule(h)
  <2>1. ASSUME NEW I \in SUBSET DOMAIN lines, I # {}
        PROVE  StdoutG[<<h[I \ {Max(I)}], lines[Max(I)]>>] = HandleStdout(h[I \ {Max(I)}], lines[Max(I)])
    <3>1. lines[Max(I)] \in Line /\ h[I \ {Max(I)}] \in Acc
      BY <2>1, FoldPositions
    <3> QED BY <3>1 DEF StdoutG
  <2> QED BY <1>1, <2>1 DEF FoldRule
<1>3. Rule(f)
  BY <1>2
<1>4. FoldLeft(HandleStdout, acc, lines) = f[DOMAIN lines]
  BY DEF FoldLeft, MapThenFoldSet
<1> HIDE DEF f
<1>5. Recurs(f, Acc, StdoutG, acc, lines)
  <2>1. ASSUME NEW I \in SUBSET DOMAIN lines, I # {}, f[I \ {Max(I)}] \in Acc
        PROVE  f[I] = StdoutG[<<f[I \ {Max(I)}], lines[Max(I)]>>]
    <3>1. lines[Max(I)] \in Line
      BY <2>1, FoldPositions
    <3> QED BY <1>3, <2>1, <3>1 DEF StdoutG
  <2>2. f[{}] = acc
    BY <1>3
  <2> QED BY <2>1, <2>2 DEF Recurs
<1> QED BY <1>0, <1>4, <1>5, FoldOfRecurs

LEMMA StderrFold ==
    ASSUME NEW acc \in Acc, NEW lines \in Seq(Line)
    PROVE  /\ IsFold(Acc, Line, StderrG, acc)
           /\ FoldLeft(HandleStderr, acc, lines) = FoldOf(StderrG, acc, lines)
<1> DEFINE Rule(h) == h = [I \in SUBSET DOMAIN lines |->
                             IF I = {} THEN acc ELSE HandleStderr(h[I \ {Max(I)}], lines[Max(I)])]
           f == CHOOSE h : Rule(h)
<1>0. IsFold(Acc, Line, StderrG, acc)
  BY HandleStderrTyped DEF IsFold, StderrG
<1>1. PICK h \in [SUBSET DOMAIN lines -> Acc] : FoldRule(StderrG, acc, lines, h)
  BY <1>0, FoldExists
<1>2. Rule(h)
  <2>1. ASSUME NEW I \in SUBSET DOMAIN lines, I # {}
        PROVE  StderrG[<<h[I \ {Max(I)}], lines[Max(I)]>>] = HandleStderr(h[I \ {Max(I)}], lines[Max(I)])
    <3>1. lines[Max(I)] \in Line /\ h[I \ {Max(I)}] \in Acc
      BY <2>1, FoldPositions
    <3> QED BY <3>1 DEF StderrG
  <2> QED BY <1>1, <2>1 DEF FoldRule
<1>3. Rule(f)
  BY <1>2
<1>4. FoldLeft(HandleStderr, acc, lines) = f[DOMAIN lines]
  BY DEF FoldLeft, MapThenFoldSet
<1> HIDE DEF f
<1>5. Recurs(f, Acc, StderrG, acc, lines)
  <2>1. ASSUME NEW I \in SUBSET DOMAIN lines, I # {}, f[I \ {Max(I)}] \in Acc
        PROVE  f[I] = StderrG[<<f[I \ {Max(I)}], lines[Max(I)]>>]
    <3>1. lines[Max(I)] \in Line
      BY <2>1, FoldPositions
    <3> QED BY <1>3, <2>1, <3>1 DEF StderrG
  <2>2. f[{}] = acc
    BY <1>3
  <2> QED BY <2>1, <2>2 DEF Recurs
<1> QED BY <1>0, <1>4, <1>5, FoldOfRecurs

(* What Keep keeps of a sequence of elements of B.                         *)
KeepStep(kept, x, S) == IF x \in S THEN Append(kept, x) ELSE kept
KeepG(B, S) == [p \in Seq(B) \X B |-> KeepStep(p[1], p[2], S)]

LEMMA KeepFold ==
    ASSUME NEW B, NEW S, NEW s \in Seq(B)
    PROVE  /\ IsFold(Seq(B), B, KeepG(B, S), <<>>)
           /\ Keep(s, S) = FoldOf(KeepG(B, S), <<>>, s)
<1> DEFINE Rule(h) == h = [I \in SUBSET DOMAIN s |->
                             IF I = {} THEN <<>> ELSE KeepStep(h[I \ {Max(I)}], s[Max(I)], S)]
           f == CHOOSE h : Rule(h)
<1>0. IsFold(Seq(B), B, KeepG(B, S), <<>>)
  <2>1. <<>> \in Seq(B) /\ \A k \in Seq(B), x \in B : KeepStep(k, x, S) \in Seq(B)
    BY DEF KeepStep
  <2> QED BY <2>1 DEF IsFold, KeepG
<1>1. PICK h \in [SUBSET DOMAIN s -> Seq(B)] : FoldRule(KeepG(B, S), <<>>, s, h)
  BY <1>0, FoldExists
<1>2. Rule(h)
  <2>1. ASSUME NEW I \in SUBSET DOMAIN s, I # {}
        PROVE  KeepG(B, S)[<<h[I \ {Max(I)}], s[Max(I)]>>] = KeepStep(h[I \ {Max(I)}], s[Max(I)], S)
    <3>1. s[Max(I)] \in B /\ h[I \ {Max(I)}] \in Seq(B)
      BY <2>1, FoldPositions
    <3> QED BY <3>1 DEF KeepG
  <2> QED BY <1>1, <2>1 DEF FoldRule
<1>3. Rule(f)
  BY <1>2
<1>4. Keep(s, S) = f[DOMAIN s]
  BY DEF Keep, FoldLeft, MapThenFoldSet, KeepStep
<1> HIDE DEF f
<1>5. Recurs(f, Seq(B), KeepG(B, S), <<>>, s)
  <2>1. ASSUME NEW I \in SUBSET DOMAIN s, I # {}, f[I \ {Max(I)}] \in Seq(B)
        PROVE  f[I] = KeepG(B, S)[<<f[I \ {Max(I)}], s[Max(I)]>>]
    <3>1. s[Max(I)] \in B
      BY <2>1, FoldPositions
    <3> QED BY <1>3, <2>1, <3>1 DEF KeepG
  <2>2. f[{}] = <<>>
    BY <1>3
  <2> QED BY <2>1, <2>2 DEF Recurs
<1> QED BY <1>0, <1>4, <1>5, FoldOfRecurs

(* The text of a sequence of lines, each with its newline.                 *)
ScriptLine == [kind : StdoutKinds \cup StderrKinds, id : Nat]
TextOf(ls) == FoldLeft(LAMBDA acc, line : acc \o Append(Spelling(line), Newline), <<>>, ls)
TextStep(acc, line) == acc \o Append(Spelling(line), Newline)
TextG == [p \in Line \X ScriptLine |-> TextStep(p[1], p[2])]

LEMMA SpellingTyped == \A line \in ScriptLine : Spelling(line) \in Line
<1>1. ASSUME NEW line \in ScriptLine PROVE Spelling(line) \in Line
  <2>1. Atom(line.kind, line.id, 1) \in Atoms /\ Atom(line.kind, line.id, 2) \in Atoms
    BY DEF Atom, Atoms, ScriptLine
  <2> QED BY <2>1 DEF Spelling, Line
<1> QED BY <1>1

LEMMA TextFold ==
    ASSUME NEW ls \in Seq(ScriptLine)
    PROVE  /\ IsFold(Line, ScriptLine, TextG, <<>>)
           /\ TextOf(ls) = FoldOf(TextG, <<>>, ls)
<1> DEFINE Rule(h) == h = [I \in SUBSET DOMAIN ls |->
                             IF I = {} THEN <<>> ELSE TextStep(h[I \ {Max(I)}], ls[Max(I)])]
           f == CHOOSE h : Rule(h)
<1>0. IsFold(Line, ScriptLine, TextG, <<>>)
  <2>1. ASSUME NEW k \in Line, NEW l \in ScriptLine PROVE TextStep(k, l) \in Line
    <3>1. Append(Spelling(l), Newline) \in Line
      BY SpellingTyped, AtomsTyped DEF Line
    <3> QED BY <3>1 DEF TextStep, Line
  <2>2. <<>> \in Line
    BY DEF Line
  <2> QED BY <2>1, <2>2 DEF IsFold, TextG
<1>1. PICK h \in [SUBSET DOMAIN ls -> Line] : FoldRule(TextG, <<>>, ls, h)
  BY <1>0, FoldExists
<1>2. Rule(h)
  <2>1. ASSUME NEW I \in SUBSET DOMAIN ls, I # {}
        PROVE  TextG[<<h[I \ {Max(I)}], ls[Max(I)]>>] = TextStep(h[I \ {Max(I)}], ls[Max(I)])
    <3>1. ls[Max(I)] \in ScriptLine /\ h[I \ {Max(I)}] \in Line
      BY <2>1, FoldPositions
    <3> QED BY <3>1 DEF TextG
  <2> QED BY <1>1, <2>1 DEF FoldRule
<1>3. Rule(f)
  BY <1>2
<1>4. TextOf(ls) = f[DOMAIN ls]
  BY DEF TextOf, FoldLeft, MapThenFoldSet, TextStep
<1> HIDE DEF f
<1>5. Recurs(f, Line, TextG, <<>>, ls)
  <2>1. ASSUME NEW I \in SUBSET DOMAIN ls, I # {}, f[I \ {Max(I)}] \in Line
        PROVE  f[I] = TextG[<<f[I \ {Max(I)}], ls[Max(I)]>>]
    <3>1. ls[Max(I)] \in ScriptLine
      BY <2>1, FoldPositions
    <3> QED BY <1>3, <2>1, <3>1 DEF TextG
  <2>2. f[{}] = <<>>
    BY <1>3
  <2> QED BY <2>1, <2>2 DEF Recurs
<1> QED BY <1>0, <1>4, <1>5, FoldOfRecurs
-----------------------------------------------------------------------------
(* Each fold starts with its base and takes one element at a time.         *)
LEMMA SplitLaws ==
    /\ Split(<<>>) = NoCut
    /\ \A t \in Line, a \in Atoms :
         Split(t) \in Cut /\ Split(Append(t, a)) = SplitStep(Split(t), a)
<1>1. Split(<<>>) = NoCut
  <2>1. PICK e \in Line : e = <<>>
    <3>1. <<>> \in Line
      BY DEF Line
    <3> QED BY <3>1, Zenon
  <2>2. Split(e) = FoldOf(SplitG, NoCut, e) /\ FoldOf(SplitG, NoCut, <<>>) = NoCut
    BY SplitFold, SplitIsFold, FoldOfEmpty
  <2> QED BY <2>1, <2>2
<1>2. ASSUME NEW t \in Line, NEW a \in Atoms
      PROVE  Split(t) \in Cut /\ Split(Append(t, a)) = SplitStep(Split(t), a)
  <2>1. PICK u \in Line : u = Append(t, a)
    <3>1. Append(t, a) \in Line
      BY DEF Line
    <3> QED BY <3>1, Zenon
  <2>2. Split(t) = FoldOf(SplitG, NoCut, t) /\ Split(u) = FoldOf(SplitG, NoCut, u)
    BY SplitFold
  <2>3. /\ FoldOf(SplitG, NoCut, t) \in Cut
        /\ FoldOf(SplitG, NoCut, Append(t, a)) = SplitG[<<FoldOf(SplitG, NoCut, t), a>>]
    BY SplitIsFold, FoldOfAppend DEF Line
  <2> QED BY <2>1, <2>2, <2>3 DEF SplitG
<1> QED BY <1>1, <1>2

LEMMA SplitTyped == \A t \in Line : Split(t) \in Cut
BY SplitFold, SplitIsFold, FoldOfTyped DEF Line

LEMMA KeepLaws ==
    ASSUME NEW B, NEW S
    PROVE  /\ Keep(<<>>, S) = <<>>
           /\ \A s \in Seq(B) : Keep(s, S) \in Seq(B)
           /\ \A s \in Seq(B), x \in B : Keep(Append(s, x), S) = KeepStep(Keep(s, S), x, S)
<1>1. Keep(<<>>, S) = <<>>
  <2>1. PICK e \in Seq(B) : e = <<>>
    <3>1. <<>> \in Seq(B)
      OBVIOUS
    <3> QED BY <3>1, Zenon
  <2>2. Keep(e, S) = FoldOf(KeepG(B, S), <<>>, e) /\ FoldOf(KeepG(B, S), <<>>, <<>>) = <<>>
    BY KeepFold, FoldOfEmpty
  <2> QED BY <2>1, <2>2
<1>2. ASSUME NEW s \in Seq(B) PROVE Keep(s, S) \in Seq(B)
  BY KeepFold, FoldOfTyped
<1>3. ASSUME NEW s \in Seq(B), NEW x \in B
      PROVE  Keep(Append(s, x), S) = KeepStep(Keep(s, S), x, S)
  <2>1. PICK u \in Seq(B) : u = Append(s, x)
    <3>1. Append(s, x) \in Seq(B)
      OBVIOUS
    <3> QED BY <3>1, Zenon
  <2>2. /\ IsFold(Seq(B), B, KeepG(B, S), <<>>) /\ Keep(s, S) = FoldOf(KeepG(B, S), <<>>, s)
        /\ Keep(u, S) = FoldOf(KeepG(B, S), <<>>, u)
    BY KeepFold
  <2>3. FoldOf(KeepG(B, S), <<>>, Append(s, x)) = KeepG(B, S)[<<FoldOf(KeepG(B, S), <<>>, s), x>>]
    BY <2>2, FoldOfAppend
  <2> QED BY <1>2, <2>1, <2>2, <2>3 DEF KeepG
<1> QED BY <1>1, <1>2, <1>3

LEMMA TextLaws ==
    /\ TextOf(<<>>) = <<>>
    /\ \A ls \in Seq(ScriptLine) : TextOf(ls) \in Line
    /\ \A ls \in Seq(ScriptLine), l \in ScriptLine :
         TextOf(Append(ls, l)) = TextStep(TextOf(ls), l)
<1>1. TextOf(<<>>) = <<>>
  <2>1. PICK e \in Seq(ScriptLine) : e = <<>>
    <3>1. <<>> \in Seq(ScriptLine)
      OBVIOUS
    <3> QED BY <3>1, Zenon
  <2>2. TextOf(e) = FoldOf(TextG, <<>>, e) /\ FoldOf(TextG, <<>>, <<>>) = <<>>
    BY TextFold, FoldOfEmpty
  <2> QED BY <2>1, <2>2
<1>2. ASSUME NEW ls \in Seq(ScriptLine) PROVE TextOf(ls) \in Line
  BY TextFold, FoldOfTyped
<1>3. ASSUME NEW ls \in Seq(ScriptLine), NEW l \in ScriptLine
      PROVE  TextOf(Append(ls, l)) = TextStep(TextOf(ls), l)
  <2>1. PICK u \in Seq(ScriptLine) : u = Append(ls, l)
    <3>1. Append(ls, l) \in Seq(ScriptLine)
      OBVIOUS
    <3> QED BY <3>1, Zenon
  <2>2. /\ IsFold(Line, ScriptLine, TextG, <<>>) /\ TextOf(ls) = FoldOf(TextG, <<>>, ls)
        /\ TextOf(u) = FoldOf(TextG, <<>>, u)
    BY TextFold
  <2>3. FoldOf(TextG, <<>>, Append(ls, l)) = TextG[<<FoldOf(TextG, <<>>, ls), l>>]
    BY <2>2, FoldOfAppend
  <2> QED BY <1>2, <2>1, <2>2, <2>3 DEF TextG
<1> QED BY <1>1, <1>2, <1>3

LEMMA StdoutLaws ==
    ASSUME NEW acc \in Acc
    PROVE  /\ FoldLeft(HandleStdout, acc, <<>>) = acc
           /\ \A ls \in Seq(Line) : FoldLeft(HandleStdout, acc, ls) \in Acc
           /\ \A ls \in Seq(Line), l \in Line :
                FoldLeft(HandleStdout, acc, Append(ls, l)) = HandleStdout(FoldLeft(HandleStdout, acc, ls), l)
<1>1. FoldLeft(HandleStdout, acc, <<>>) = acc
  <2>1. PICK e \in Seq(Line) : e = <<>>
    <3>1. <<>> \in Seq(Line)
      OBVIOUS
    <3> QED BY <3>1, Zenon
  <2>2. FoldLeft(HandleStdout, acc, e) = FoldOf(StdoutG, acc, e) /\ FoldOf(StdoutG, acc, <<>>) = acc
    BY StdoutFold, FoldOfEmpty
  <2> QED BY <2>1, <2>2
<1>2. ASSUME NEW ls \in Seq(Line) PROVE FoldLeft(HandleStdout, acc, ls) \in Acc
  BY StdoutFold, FoldOfTyped
<1>3. ASSUME NEW ls \in Seq(Line), NEW l \in Line
      PROVE  FoldLeft(HandleStdout, acc, Append(ls, l)) = HandleStdout(FoldLeft(HandleStdout, acc, ls), l)
  <2>1. PICK u \in Seq(Line) : u = Append(ls, l)
    <3>1. Append(ls, l) \in Seq(Line)
      OBVIOUS
    <3> QED BY <3>1, Zenon
  <2>2. /\ IsFold(Acc, Line, StdoutG, acc)
        /\ FoldLeft(HandleStdout, acc, ls) = FoldOf(StdoutG, acc, ls)
        /\ FoldLeft(HandleStdout, acc, u) = FoldOf(StdoutG, acc, u)
    BY StdoutFold
  <2>3. FoldOf(StdoutG, acc, Append(ls, l)) = StdoutG[<<FoldOf(StdoutG, acc, ls), l>>]
    BY <2>2, FoldOfAppend
  <2> QED BY <1>2, <2>1, <2>2, <2>3 DEF StdoutG
<1> QED BY <1>1, <1>2, <1>3

LEMMA StderrLaws ==
    ASSUME NEW acc \in Acc
    PROVE  /\ FoldLeft(HandleStderr, acc, <<>>) = acc
           /\ \A ls \in Seq(Line) : FoldLeft(HandleStderr, acc, ls) \in Acc
           /\ \A ls \in Seq(Line), l \in Line :
                FoldLeft(HandleStderr, acc, Append(ls, l)) = HandleStderr(FoldLeft(HandleStderr, acc, ls), l)
<1>1. FoldLeft(HandleStderr, acc, <<>>) = acc
  <2>1. PICK e \in Seq(Line) : e = <<>>
    <3>1. <<>> \in Seq(Line)
      OBVIOUS
    <3> QED BY <3>1, Zenon
  <2>2. FoldLeft(HandleStderr, acc, e) = FoldOf(StderrG, acc, e) /\ FoldOf(StderrG, acc, <<>>) = acc
    BY StderrFold, FoldOfEmpty
  <2> QED BY <2>1, <2>2
<1>2. ASSUME NEW ls \in Seq(Line) PROVE FoldLeft(HandleStderr, acc, ls) \in Acc
  BY StderrFold, FoldOfTyped
<1>3. ASSUME NEW ls \in Seq(Line), NEW l \in Line
      PROVE  FoldLeft(HandleStderr, acc, Append(ls, l)) = HandleStderr(FoldLeft(HandleStderr, acc, ls), l)
  <2>1. PICK u \in Seq(Line) : u = Append(ls, l)
    <3>1. Append(ls, l) \in Seq(Line)
      OBVIOUS
    <3> QED BY <3>1, Zenon
  <2>2. /\ IsFold(Acc, Line, StderrG, acc)
        /\ FoldLeft(HandleStderr, acc, ls) = FoldOf(StderrG, acc, ls)
        /\ FoldLeft(HandleStderr, acc, u) = FoldOf(StderrG, acc, u)
    BY StderrFold
  <2>3. FoldOf(StderrG, acc, Append(ls, l)) = StderrG[<<FoldOf(StderrG, acc, ls), l>>]
    BY <2>2, FoldOfAppend
  <2> QED BY <1>2, <2>1, <2>2, <2>3 DEF StderrG
<1> QED BY <1>1, <1>2, <1>3
-----------------------------------------------------------------------------
(* No newline is left in what Split keeps back.                            *)
Clean(t) == \A i \in DOMAIN t : t[i] # Newline

LEMMA CleanAppend ==
    ASSUME NEW t \in Line, NEW a \in Atoms
    PROVE  Clean(Append(t, a)) <=> Clean(t) /\ a # Newline
<1>1. /\ Len(t) \in Nat /\ DOMAIN t = 1..Len(t) /\ DOMAIN Append(t, a) = 1..(Len(t) + 1)
      /\ Append(t, a)[Len(t) + 1] = a /\ \A i \in 1..Len(t) : Append(t, a)[i] = t[i]
  BY DEF Line
<1>2. ASSUME Clean(Append(t, a)) PROVE Clean(t) /\ a # Newline
  <2>1. Len(t) + 1 \in 1..(Len(t) + 1) /\ \A i \in 1..Len(t) : i \in 1..(Len(t) + 1)
    BY <1>1
  <2> QED BY <1>1, <1>2, <2>1 DEF Clean
<1>3. ASSUME Clean(t), a # Newline PROVE Clean(Append(t, a))
  <2>1. \A i \in 1..(Len(t) + 1) : i \in 1..Len(t) \/ i = Len(t) + 1
    BY <1>1
  <2> QED BY <1>1, <1>3, <2>1 DEF Clean
<1> QED BY <1>2, <1>3

LEMMA CutFields ==
    ASSUME NEW c \in Cut
    PROVE  c.lines \in Seq(Line) /\ c.rest \in Line /\ c = [lines |-> c.lines, rest |-> c.rest]
BY DEF Cut

LEMMA SplitClean == \A p \in Line : Clean(p) => Split(p) = [lines |-> <<>>, rest |-> p]
<1> DEFINE R == {p \in Line : Clean(p) => Split(p) = [lines |-> <<>>, rest |-> p]}
<1>1. <<>> \in R
  <2>1. <<>> \in Line
    BY DEF Line
  <2> QED BY <2>1, SplitLaws DEF NoCut
<1>2. ASSUME NEW t \in R, NEW a \in Atoms PROVE Append(t, a) \in R
  <2>1. t \in Line /\ Append(t, a) \in Line
    BY DEF Line
  <2>2. ASSUME Clean(Append(t, a)) PROVE Split(Append(t, a)) = [lines |-> <<>>, rest |-> Append(t, a)]
    <3>1. Clean(t) /\ a # Newline
      BY <2>1, <2>2, CleanAppend
    <3>2. Split(t) = [lines |-> <<>>, rest |-> t] /\ Split(Append(t, a)) = SplitStep(Split(t), a)
      BY <2>1, <3>1, SplitLaws
    <3> QED BY <3>1, <3>2 DEF SplitStep
  <2> QED BY <2>1, <2>2
<1>3. R \in SUBSET Seq(Atoms)
  BY DEF Line
<1>4. \A p \in Seq(Atoms) : p \in R
  <2> HIDE DEF R
  <2> QED BY <1>1, <1>2, <1>3, SequenceInduction
<1> QED BY <1>4 DEF Line

LEMMA RestClean == \A t \in Line : Clean(Split(t).rest)
<1> DEFINE R == {t \in Line : Clean(Split(t).rest)}
<1>1. <<>> \in R
  <2>1. <<>> \in Line /\ Split(<<>>).rest = <<>> /\ DOMAIN <<>> = {}
    BY SplitLaws DEF Line, NoCut
  <2> QED BY <2>1 DEF Clean
<1>2. ASSUME NEW t \in R, NEW a \in Atoms PROVE Append(t, a) \in R
  <2>1. t \in Line /\ Append(t, a) \in Line /\ Clean(Split(t).rest)
    BY DEF Line
  <2>2. Split(t) \in Cut /\ Split(Append(t, a)) = SplitStep(Split(t), a)
    BY <2>1, SplitLaws
  <2>3. Split(t).rest \in Line /\ Split(t) = [lines |-> Split(t).lines, rest |-> Split(t).rest]
    BY <2>2, CutFields
  <2>4. CASE a = Newline
    <3>1. Split(Append(t, a)).rest = <<>> /\ DOMAIN <<>> = {}
      BY <2>2, <2>4 DEF SplitStep
    <3> QED BY <2>1, <3>1 DEF Clean
  <2>5. CASE a # Newline
    <3>1. SplitStep(Split(t), a).rest = Append(Split(t).rest, a)
      BY <2>3, <2>5 DEF SplitStep
    <3>2. Clean(Append(Split(t).rest, a))
      BY <2>1, <2>3, <2>5, CleanAppend
    <3> QED BY <2>1, <2>2, <3>1, <3>2
  <2> QED BY <2>4, <2>5
<1>3. R \in SUBSET Seq(Atoms)
  BY DEF Line
<1>4. \A t \in Seq(Atoms) : t \in R
  <2> HIDE DEF R
  <2> QED BY <1>1, <1>2, <1>3, SequenceInduction
<1> QED BY <1>4 DEF Line

LEMMA LineConcat ==
    ASSUME NEW s \in Line, NEW t \in Line, NEW a \in Atoms
    PROVE  s \o t \in Line /\ s \o Append(t, a) = Append(s \o t, a)
<1>1. s \in Seq(Atoms) /\ t \in Seq(Atoms)
  BY DEF Line
<1> QED BY <1>1, ConcatAppend DEF Line

LEMMA LinesConcat ==
    ASSUME NEW s \in Seq(Line), NEW t \in Seq(Line), NEW l \in Line
    PROVE  s \o t \in Seq(Line) /\ s \o Append(t, l) = Append(s \o t, l)
BY ConcatAppend

(* A text that comes in two pieces is cut into the same lines: those of    *)
(* the first piece, and those of what it left over with the second.        *)
LEMMA SplitConcat ==
    ASSUME NEW t \in Line, NEW d \in Line
    PROVE  /\ Split(t \o d).lines = Split(t).lines \o Split(Split(t).rest \o d).lines
           /\ Split(t \o d).rest = Split(Split(t).rest \o d).rest
<1> DEFINE c == Split(t)
           R == {u \in Line : /\ Split(t \o u).lines = c.lines \o Split(c.rest \o u).lines
                              /\ Split(t \o u).rest = Split(c.rest \o u).rest}
<1>1. c \in Cut /\ c.lines \in Seq(Line) /\ c.rest \in Line /\ Clean(c.rest)
  BY SplitTyped, CutFields, RestClean
<1> HIDE DEF c
<1>2. <<>> \in R
  <2>1. <<>> \in Line /\ t \o <<>> = t /\ c.rest \o <<>> = c.rest /\ c.lines \o <<>> = c.lines
    BY <1>1 DEF Line
  <2>2. Split(c.rest) = [lines |-> <<>>, rest |-> c.rest]
    BY <1>1, SplitClean
  <2>3. Split(t \o <<>>).lines = c.lines \o Split(c.rest \o <<>>).lines
    <3>1. Split(t \o <<>>) = c
      BY <2>1 DEF c
    <3>2. Split(c.rest \o <<>>).lines = <<>>
      BY <2>1, <2>2
    <3> QED BY <2>1, <3>1, <3>2
  <2>4. Split(t \o <<>>).rest = Split(c.rest \o <<>>).rest
    BY <2>1, <2>2 DEF c
  <2> QED BY <2>1, <2>3, <2>4
<1>3. ASSUME NEW u \in R, NEW a \in Atoms PROVE Append(u, a) \in R
  <2> DEFINE x == Split(t \o u)
             y == Split(c.rest \o u)
  <2>1. u \in Line /\ x.lines = c.lines \o y.lines /\ x.rest = y.rest
    OBVIOUS
  <2>2. /\ Append(u, a) \in Line /\ t \o u \in Line /\ c.rest \o u \in Line
        /\ t \o Append(u, a) = Append(t \o u, a)
        /\ c.rest \o Append(u, a) = Append(c.rest \o u, a)
    <3>1. Append(u, a) \in Line
      BY <2>1 DEF Line
    <3>2. t \o u \in Line /\ t \o Append(u, a) = Append(t \o u, a)
      BY <2>1, LineConcat
    <3>3. c.rest \o u \in Line /\ c.rest \o Append(u, a) = Append(c.rest \o u, a)
      BY <1>1, <2>1, LineConcat
    <3> QED BY <3>1, <3>2, <3>3
  <2>3. x \in Cut /\ y \in Cut
    BY <2>2, SplitTyped
  <2>4. /\ x.lines \in Seq(Line) /\ x.rest \in Line /\ x = [lines |-> x.lines, rest |-> x.rest]
        /\ y.lines \in Seq(Line) /\ y.rest \in Line /\ y = [lines |-> y.lines, rest |-> y.rest]
    BY <2>3, CutFields
  <2>5. Split(t \o Append(u, a)) = SplitStep(x, a) /\ Split(c.rest \o Append(u, a)) = SplitStep(y, a)
    BY <2>2, SplitLaws
  <2> HIDE DEF x, y
  <2>6. SplitStep(x, a).lines = c.lines \o SplitStep(y, a).lines /\ SplitStep(x, a).rest = SplitStep(y, a).rest
    <3>1. CASE a = Newline
      <4>1. c.lines \o Append(y.lines, y.rest) = Append(c.lines \o y.lines, y.rest)
        BY <1>1, <2>4, LinesConcat
      <4>2. SplitStep(x, a).lines = Append(x.lines, x.rest) /\ SplitStep(x, a).rest = <<>>
        BY <3>1 DEF SplitStep
      <4>3. SplitStep(y, a).lines = Append(y.lines, y.rest) /\ SplitStep(y, a).rest = <<>>
        BY <3>1 DEF SplitStep
      <4> QED BY <2>1, <4>1, <4>2, <4>3
    <3>2. CASE a # Newline
      <4>1. SplitStep(x, a).lines = x.lines /\ SplitStep(x, a).rest = Append(x.rest, a)
        BY <2>4, <3>2 DEF SplitStep
      <4>2. SplitStep(y, a).lines = y.lines /\ SplitStep(y, a).rest = Append(y.rest, a)
        BY <2>4, <3>2 DEF SplitStep
      <4> QED BY <2>1, <4>1, <4>2
    <3> QED BY <3>1, <3>2
  <2> QED BY <2>2, <2>5, <2>6
<1>4. R \in SUBSET Seq(Atoms)
  BY DEF Line
<1>5. \A u \in Seq(Atoms) : u \in R
  <2> HIDE DEF R
  <2> QED BY <1>2, <1>3, <1>4, SequenceInduction
<1> QED BY <1>5 DEF Line, c

LEMMA ThreeConcat ==
    ASSUME NEW s \in Line, NEW t \in Line, NEW u \in Line
    PROVE  (s \o t) \o u = s \o (t \o u)
<1> DEFINE l == (s \o t) \o u
           r == s \o (t \o u)
<1>1. s \in Seq(Atoms) /\ t \in Seq(Atoms) /\ u \in Seq(Atoms)
  BY DEF Line
<1>2. l \in Seq(Atoms) /\ r \in Seq(Atoms) /\ Len(l) = Len(s) + Len(t) + Len(u) /\ Len(r) = Len(l)
  BY <1>1
<1>3. ASSUME NEW i \in 1..Len(l) PROVE l[i] = r[i]
  BY <1>1
<1> HIDE DEF l, r
<1>4. l = r
  BY <1>2, <1>3
<1> QED BY <1>4 DEF l, r

LEMMA TwoPieces ==
    ASSUME NEW u \in Line, NEW n \in 1..Len(u)
    PROVE  /\ SubSeq(u, 1, n) \in Line /\ SubSeq(u, n + 1, Len(u)) \in Line
           /\ u = SubSeq(u, 1, n) \o SubSeq(u, n + 1, Len(u))
<1> DEFINE a == SubSeq(u, 1, n)
           b == SubSeq(u, n + 1, Len(u))
<1>1. u \in Seq(Atoms) /\ Len(u) \in Nat /\ n \in Nat /\ n <= Len(u) /\ 1 <= n
  BY DEF Line
<1>2. a \in Seq(Atoms) /\ Len(a) = n /\ \A i \in 1..n : a[i] = u[i]
  BY <1>1
<1>3. b \in Seq(Atoms) /\ Len(b) = Len(u) - n /\ \A i \in 1..(Len(u) - n) : b[i] = u[n + i]
  BY <1>1
<1> HIDE DEF a, b
<1>4. a \o b \in Seq(Atoms) /\ Len(a \o b) = Len(u)
  <2>0. a \in Seq(Atoms) /\ b \in Seq(Atoms)
    BY <1>2, <1>3
  <2>1. a \o b \in Seq(Atoms) /\ Len(a \o b) = Len(a) + Len(b)
    BY <2>0
  <2> QED BY <1>1, <1>2, <1>3, <2>1
<1>5. ASSUME NEW i \in 1..Len(u) PROVE (a \o b)[i] = u[i]
  <2>1. CASE i <= n
    BY <1>1, <1>2, <1>3, <2>1
  <2>2. CASE ~(i <= n)
    <3>1. i - n \in 1..(Len(u) - n) /\ n + (i - n) = i
      BY <1>1, <2>2
    <3>2. (a \o b)[i] = b[i - n]
      BY <1>1, <1>2, <1>3, <2>2
    <3> QED BY <1>3, <3>1, <3>2
  <2> QED BY <2>1, <2>2
<1>6. a \o b = u
  <2> DEFINE w == a \o b
  <2>1. w \in Seq(Atoms) /\ Len(w) = Len(u) /\ \A i \in 1..Len(u) : w[i] = u[i]
    BY <1>4, <1>5
  <2> HIDE DEF w
  <2>2. w = u
    BY <1>1, <2>1
  <2> QED BY <2>2 DEF w
<1> QED BY <1>2, <1>3, <1>6 DEF a, b, Line
-----------------------------------------------------------------------------
(* What each stream leaves in seen, and what a line of it adds to that.    *)
OutType == [final : Line, progress : Line, told : Seq(Event)]
ErrType == [lines : Seq(Line), told : Seq(Event)]
OutEvents == [type : StdoutTypes, raw : Seq(Atoms)]
ErrEvents == [type : {"stderr"}, raw : Seq(Atoms)]

Out(acc) == [final |-> acc.finalPayload, progress |-> acc.progressLast,
             told |-> Keep(acc.events, OutEvents)]
Err(acc) == [lines |-> acc.stderrLines, told |-> Keep(acc.events, ErrEvents)]

OutStep(o, line) ==
    IF line = <<>> THEN o
    ELSE [final |-> IF EventType(line) = "stdout_json" THEN line ELSE o.final,
          progress |-> IF EventType(line) = "progress" THEN line ELSE o.progress,
          told |-> Append(o.told, [type |-> EventType(line), raw |-> line])]
ErrStep(e, line) ==
    IF line = <<>> THEN e
    ELSE [lines |-> Append(e.lines, Redact(line)),
          told |-> Append(e.told, [type |-> "stderr", raw |-> Redact(line)])]

OutG == [p \in OutType \X Line |-> OutStep(p[1], p[2])]
ErrG == [p \in ErrType \X Line |-> ErrStep(p[1], p[2])]
OutFold(o, ls) == FoldOf(OutG, o, ls)
ErrFold(e, ls) == FoldOf(ErrG, e, ls)

LEMMA OutIsFold == \A o \in OutType : IsFold(OutType, Line, OutG, o)
<1>1. ASSUME NEW o \in OutType, NEW line \in Line PROVE OutStep(o, line) \in OutType
  <2>1. [type |-> EventType(line), raw |-> line] \in Event
    BY EventTypeTyped DEF Event
  <2>2. Append(o.told, [type |-> EventType(line), raw |-> line]) \in Seq(Event)
    BY <2>1 DEF OutType
  <2> QED BY <2>2 DEF OutStep, OutType
<1> QED BY <1>1 DEF IsFold, OutG

LEMMA ErrIsFold == \A e \in ErrType : IsFold(ErrType, Line, ErrG, e)
<1>1. ASSUME NEW e \in ErrType, NEW line \in Line PROVE ErrStep(e, line) \in ErrType
  <2>1. Redact(line) \in Line /\ [type |-> "stderr", raw |-> Redact(line)] \in Event
    BY RedactTyped DEF Event
  <2>2. Append(e.told, [type |-> "stderr", raw |-> Redact(line)]) \in Seq(Event)
    BY <2>1 DEF ErrType
  <2>3. Append(e.lines, Redact(line)) \in Seq(Line)
    BY <2>1 DEF ErrType
  <2> QED BY <2>2, <2>3 DEF ErrStep, ErrType
<1> QED BY <1>1 DEF IsFold, ErrG

LEMMA OutLaws ==
    ASSUME NEW o \in OutType
    PROVE  /\ OutFold(o, <<>>) = o
           /\ \A ls \in Seq(Line) : OutFold(o, ls) \in OutType
           /\ \A ls \in Seq(Line), l \in Line : OutFold(o, Append(ls, l)) = OutStep(OutFold(o, ls), l)
           /\ \A ls, ms \in Seq(Line) : OutFold(o, ls \o ms) = OutFold(OutFold(o, ls), ms)
<1>1. IsFold(OutType, Line, OutG, o)
  BY OutIsFold
<1>2. OutFold(o, <<>>) = o
  BY <1>1, FoldOfEmpty DEF OutFold
<1>3. ASSUME NEW ls \in Seq(Line) PROVE OutFold(o, ls) \in OutType
  BY <1>1, FoldOfTyped DEF OutFold
<1>4. ASSUME NEW ls \in Seq(Line), NEW l \in Line
      PROVE  OutFold(o, Append(ls, l)) = OutStep(OutFold(o, ls), l)
  <2>1. FoldOf(OutG, o, Append(ls, l)) = OutG[<<FoldOf(OutG, o, ls), l>>]
    BY <1>1, FoldOfAppend
  <2> QED BY <1>3, <2>1 DEF OutFold, OutG
<1>5. ASSUME NEW ls \in Seq(Line), NEW ms \in Seq(Line)
      PROVE  OutFold(o, ls \o ms) = OutFold(OutFold(o, ls), ms)
  BY <1>1, FoldOfConcat DEF OutFold
<1> QED BY <1>2, <1>3, <1>4, <1>5

LEMMA ErrLaws ==
    ASSUME NEW e \in ErrType
    PROVE  /\ ErrFold(e, <<>>) = e
           /\ \A ls \in Seq(Line) : ErrFold(e, ls) \in ErrType
           /\ \A ls \in Seq(Line), l \in Line : ErrFold(e, Append(ls, l)) = ErrStep(ErrFold(e, ls), l)
           /\ \A ls, ms \in Seq(Line) : ErrFold(e, ls \o ms) = ErrFold(ErrFold(e, ls), ms)
<1>1. IsFold(ErrType, Line, ErrG, e)
  BY ErrIsFold
<1>2. ErrFold(e, <<>>) = e
  BY <1>1, FoldOfEmpty DEF ErrFold
<1>3. ASSUME NEW ls \in Seq(Line) PROVE ErrFold(e, ls) \in ErrType
  BY <1>1, FoldOfTyped DEF ErrFold
<1>4. ASSUME NEW ls \in Seq(Line), NEW l \in Line
      PROVE  ErrFold(e, Append(ls, l)) = ErrStep(ErrFold(e, ls), l)
  <2>1. FoldOf(ErrG, e, Append(ls, l)) = ErrG[<<FoldOf(ErrG, e, ls), l>>]
    BY <1>1, FoldOfAppend
  <2> QED BY <1>3, <2>1 DEF ErrFold, ErrG
<1>5. ASSUME NEW ls \in Seq(Line), NEW ms \in Seq(Line)
      PROVE  ErrFold(e, ls \o ms) = ErrFold(ErrFold(e, ls), ms)
  BY <1>1, FoldOfConcat DEF ErrFold
<1> QED BY <1>2, <1>3, <1>4, <1>5

LEMMA ProjectionsTyped == \A acc \in Acc : Out(acc) \in OutType /\ Err(acc) \in ErrType
<1>1. ASSUME NEW acc \in Acc PROVE Out(acc) \in OutType /\ Err(acc) \in ErrType
  <2>1. acc.finalPayload \in Line /\ acc.progressLast \in Line /\ acc.stderrLines \in Seq(Line)
        /\ acc.events \in Seq(Event)
    BY DEF Acc
  <2>2. Keep(acc.events, OutEvents) \in Seq(Event) /\ Keep(acc.events, ErrEvents) \in Seq(Event)
    BY <2>1, KeepLaws
  <2> QED BY <2>1, <2>2 DEF Out, Err, OutType, ErrType
<1> QED BY <1>1

(* An event is kept for its own stream and no other.                       *)
LEMMA EventsApart ==
    ASSUME NEW events \in Seq(Event), NEW raw \in Line
    PROVE  /\ \A type \in StdoutTypes :
                /\ Keep(Append(events, [type |-> type, raw |-> raw]), OutEvents)
                     = Append(Keep(events, OutEvents), [type |-> type, raw |-> raw])
                /\ Keep(Append(events, [type |-> type, raw |-> raw]), ErrEvents) = Keep(events, ErrEvents)
           /\ Keep(Append(events, [type |-> "stderr", raw |-> raw]), OutEvents) = Keep(events, OutEvents)
           /\ Keep(Append(events, [type |-> "stderr", raw |-> raw]), ErrEvents)
                = Append(Keep(events, ErrEvents), [type |-> "stderr", raw |-> raw])
<1>1. ASSUME NEW e \in Event
      PROVE  /\ Keep(Append(events, e), OutEvents) = KeepStep(Keep(events, OutEvents), e, OutEvents)
             /\ Keep(Append(events, e), ErrEvents) = KeepStep(Keep(events, ErrEvents), e, ErrEvents)
  BY KeepLaws
<1>2. ASSUME NEW type \in StdoutTypes
      PROVE  LET e == [type |-> type, raw |-> raw]
             IN  e \in Event /\ e \in OutEvents /\ e \notin ErrEvents
  BY DEF Event, OutEvents, ErrEvents, Line, StdoutTypes
<1>3. LET e == [type |-> "stderr", raw |-> raw]
      IN  e \in Event /\ e \notin OutEvents /\ e \in ErrEvents
  BY DEF Event, OutEvents, ErrEvents, Line, StdoutTypes
<1> QED BY <1>1, <1>2, <1>3 DEF KeepStep

LEMMA StdoutLineProjects ==
    ASSUME NEW acc \in Acc, NEW line \in Line
    PROVE  /\ Out(HandleStdout(acc, line)) = OutStep(Out(acc), line)
           /\ Err(HandleStdout(acc, line)) = Err(acc)
<1>1. CASE line = <<>>
  BY <1>1 DEF HandleStdout, OutStep
<1>2. CASE line # <<>>
  <2> DEFINE type == EventType(line)
             noted == CASE type = "progress" -> [acc EXCEPT !.progressLast = line]
                        [] type = "stdout_json" -> [acc EXCEPT !.finalPayload = line]
                        [] OTHER -> acc
             e == [type |-> type, raw |-> line]
  <2>1. type \in StdoutTypes
    BY EventTypeTyped
  <2>2. /\ noted \in Acc /\ noted.stderrLines = acc.stderrLines /\ noted.events = acc.events
        /\ noted.finalPayload = IF type = "stdout_json" THEN line ELSE acc.finalPayload
        /\ noted.progressLast = IF type = "progress" THEN line ELSE acc.progressLast
    BY <2>1 DEF Acc, StdoutTypes
  <2>3. HandleStdout(acc, line) = OnEvent(noted, type, line)
    BY <1>2 DEF HandleStdout
  <2> HIDE DEF noted, type
  <2>4. OnEvent(noted, type, line) =
          [finalPayload |-> noted.finalPayload, progressLast |-> noted.progressLast,
           stderrLines |-> noted.stderrLines, events |-> Append(noted.events, e)]
    BY <2>1, <2>2, OnEventTyped
  <2>5. /\ Keep(Append(acc.events, e), OutEvents) = Append(Keep(acc.events, OutEvents), e)
        /\ Keep(Append(acc.events, e), ErrEvents) = Keep(acc.events, ErrEvents)
    <3>1. acc.events \in Seq(Event)
      BY DEF Acc
    <3> QED BY <2>1, <3>1, EventsApart
  <2>r. LET h == HandleStdout(acc, line)
        IN  /\ h.finalPayload = noted.finalPayload /\ h.progressLast = noted.progressLast
            /\ h.stderrLines = noted.stderrLines /\ h.events = Append(acc.events, e)
    BY <2>2, <2>3, <2>4
  <2>6. Out(HandleStdout(acc, line)) =
          [final |-> IF type = "stdout_json" THEN line ELSE acc.finalPayload,
           progress |-> IF type = "progress" THEN line ELSE acc.progressLast,
           told |-> Append(Keep(acc.events, OutEvents), e)]
    BY <2>2, <2>5, <2>r DEF Out
  <2>7. Err(HandleStdout(acc, line)) = Err(acc)
    BY <2>2, <2>5, <2>r DEF Err
  <2>8. OutStep(Out(acc), line) =
          [final |-> IF type = "stdout_json" THEN line ELSE acc.finalPayload,
           progress |-> IF type = "progress" THEN line ELSE acc.progressLast,
           told |-> Append(Keep(acc.events, OutEvents), e)]
    BY <1>2 DEF OutStep, Out, type
  <2> QED BY <2>6, <2>7, <2>8
<1> QED BY <1>1, <1>2

LEMMA StderrLineProjects ==
    ASSUME NEW acc \in Acc, NEW line \in Line
    PROVE  /\ Err(HandleStderr(acc, line)) = ErrStep(Err(acc), line)
           /\ Out(HandleStderr(acc, line)) = Out(acc)
<1>1. CASE line = <<>>
  BY <1>1 DEF HandleStderr, ErrStep
<1>2. CASE line # <<>>
  <2> DEFINE text == Redact(line)
             noted == [acc EXCEPT !.stderrLines = Append(@, text)]
             e == [type |-> "stderr", raw |-> text]
  <2>1. text \in Line
    BY RedactTyped
  <2>2. /\ noted \in Acc /\ noted.stderrLines = Append(acc.stderrLines, text)
        /\ noted.events = acc.events
        /\ noted.finalPayload = acc.finalPayload /\ noted.progressLast = acc.progressLast
    <3>1. Append(acc.stderrLines, text) \in Seq(Line)
      BY <2>1 DEF Acc
    <3> HIDE DEF text
    <3> QED BY <3>1 DEF Acc
  <2>3. HandleStderr(acc, line) = OnEvent(noted, "stderr", text)
    BY <1>2 DEF HandleStderr
  <2> HIDE DEF noted, text
  <2>4. OnEvent(noted, "stderr", text) =
          [finalPayload |-> noted.finalPayload, progressLast |-> noted.progressLast,
           stderrLines |-> noted.stderrLines, events |-> Append(noted.events, e)]
    BY <2>1, <2>2, OnEventTyped
  <2>5. /\ Keep(Append(acc.events, e), ErrEvents) = Append(Keep(acc.events, ErrEvents), e)
        /\ Keep(Append(acc.events, e), OutEvents) = Keep(acc.events, OutEvents)
    <3>1. acc.events \in Seq(Event)
      BY DEF Acc
    <3> QED BY <2>1, <3>1, EventsApart
  <2>r. LET h == HandleStderr(acc, line)
        IN  /\ h.finalPayload = noted.finalPayload /\ h.progressLast = noted.progressLast
            /\ h.stderrLines = noted.stderrLines /\ h.events = Append(acc.events, e)
    BY <2>2, <2>3, <2>4
  <2>6. Err(HandleStderr(acc, line)) =
          [lines |-> Append(acc.stderrLines, text), told |-> Append(Keep(acc.events, ErrEvents), e)]
    BY <2>2, <2>5, <2>r DEF Err
  <2>7. Out(HandleStderr(acc, line)) = Out(acc)
    BY <2>2, <2>5, <2>r DEF Out
  <2>8. ErrStep(Err(acc), line) =
          [lines |-> Append(acc.stderrLines, text), told |-> Append(Keep(acc.events, ErrEvents), e)]
    BY <1>2 DEF ErrStep, Err, text
  <2> QED BY <2>6, <2>7, <2>8
<1> QED BY <1>1, <1>2

LEMMA StdoutProjects ==
    ASSUME NEW acc \in Acc, NEW lines \in Seq(Line)
    PROVE  /\ Out(FoldLeft(HandleStdout, acc, lines)) = OutFold(Out(acc), lines)
           /\ Err(FoldLeft(HandleStdout, acc, lines)) = Err(acc)
<1> DEFINE F(ls) == FoldLeft(HandleStdout, acc, ls)
           R == {ls \in Seq(Line) : Out(F(ls)) = OutFold(Out(acc), ls) /\ Err(F(ls)) = Err(acc)}
<1>1. /\ F(<<>>) = acc
      /\ \A ls \in Seq(Line) : F(ls) \in Acc
      /\ \A ls \in Seq(Line), l \in Line : F(Append(ls, l)) = HandleStdout(F(ls), l)
  BY StdoutLaws
<1> HIDE DEF F
<1>2. Out(acc) \in OutType
  BY ProjectionsTyped
<1>3. <<>> \in R
  <2>1. <<>> \in Seq(Line)
    OBVIOUS
  <2> QED BY <1>1, <1>2, <2>1, OutLaws
<1>4. ASSUME NEW ls \in R, NEW l \in Line PROVE Append(ls, l) \in R
  <2>1. ls \in Seq(Line) /\ Append(ls, l) \in Seq(Line) /\ F(ls) \in Acc
        /\ Out(F(ls)) = OutFold(Out(acc), ls) /\ Err(F(ls)) = Err(acc)
    BY <1>1
  <2>2. F(Append(ls, l)) = HandleStdout(F(ls), l)
    BY <1>1, <2>1
  <2>3. Out(F(Append(ls, l))) = OutStep(OutFold(Out(acc), ls), l) /\ Err(F(Append(ls, l))) = Err(acc)
    BY <2>1, <2>2, StdoutLineProjects
  <2>4. OutFold(Out(acc), Append(ls, l)) = OutStep(OutFold(Out(acc), ls), l)
    BY <1>2, <2>1, OutLaws
  <2> QED BY <2>1, <2>3, <2>4
<1>5. lines \in R
  <2>1. R \in SUBSET Seq(Line)
    OBVIOUS
  <2> HIDE DEF R
  <2> QED BY <1>3, <1>4, <2>1, SequenceInduction
<1> QED BY <1>5 DEF F

LEMMA StderrProjects ==
    ASSUME NEW acc \in Acc, NEW lines \in Seq(Line)
    PROVE  /\ Err(FoldLeft(HandleStderr, acc, lines)) = ErrFold(Err(acc), lines)
           /\ Out(FoldLeft(HandleStderr, acc, lines)) = Out(acc)
<1> DEFINE F(ls) == FoldLeft(HandleStderr, acc, ls)
           R == {ls \in Seq(Line) : Err(F(ls)) = ErrFold(Err(acc), ls) /\ Out(F(ls)) = Out(acc)}
<1>1. /\ F(<<>>) = acc
      /\ \A ls \in Seq(Line) : F(ls) \in Acc
      /\ \A ls \in Seq(Line), l \in Line : F(Append(ls, l)) = HandleStderr(F(ls), l)
  BY StderrLaws
<1> HIDE DEF F
<1>2. Err(acc) \in ErrType
  BY ProjectionsTyped
<1>3. <<>> \in R
  <2>1. <<>> \in Seq(Line)
    OBVIOUS
  <2> QED BY <1>1, <1>2, <2>1, ErrLaws
<1>4. ASSUME NEW ls \in R, NEW l \in Line PROVE Append(ls, l) \in R
  <2>1. ls \in Seq(Line) /\ Append(ls, l) \in Seq(Line) /\ F(ls) \in Acc
        /\ Err(F(ls)) = ErrFold(Err(acc), ls) /\ Out(F(ls)) = Out(acc)
    BY <1>1
  <2>2. F(Append(ls, l)) = HandleStderr(F(ls), l)
    BY <1>1, <2>1
  <2>3. Err(F(Append(ls, l))) = ErrStep(ErrFold(Err(acc), ls), l) /\ Out(F(Append(ls, l))) = Out(acc)
    BY <2>1, <2>2, StderrLineProjects
  <2>4. ErrFold(Err(acc), Append(ls, l)) = ErrStep(ErrFold(Err(acc), ls), l)
    BY <1>2, <2>1, ErrLaws
  <2> QED BY <2>1, <2>3, <2>4
<1>5. lines \in R
  <2>1. R \in SUBSET Seq(Line)
    OBVIOUS
  <2> HIDE DEF R
  <2> QED BY <1>3, <1>4, <2>1, SequenceInduction
<1> QED BY <1>5 DEF F
-----------------------------------------------------------------------------
(* The lines of a script as they are spelled, and what should be told of   *)
(* them.                                                                   *)
OutLine == [kind : StdoutKinds, id : Nat]
ErrLine == [kind : StderrKinds, id : Nat]
OfKind(kinds) == [kind : kinds, id : Nat]
Spelled(ls) == [i \in DOMAIN ls |-> Spelling(ls[i])]
TypeOf(k) == CASE k = "progress" -> "progress" [] k = "object" -> "stdout_json" [] k = "raw" -> "stdout_raw"
OutEvent(l) == [type |-> TypeOf(l.kind), raw |-> Spelling(l)]
OutEventsOf(ls) == [i \in DOMAIN ls |-> OutEvent(ls[i])]
ErrText1(l) == IF l.kind = "secret" THEN <<Atom("redacted", 0, 0)>> ELSE Spelling(l)
ErrTextsOf(ls) == [i \in DOMAIN ls |-> ErrText1(ls[i])]
ErrEvent(text) == [type |-> "stderr", raw |-> text]
ErrEventsOf(texts) == [i \in DOMAIN texts |-> ErrEvent(texts[i])]

(* Each of them maps the elements of a sequence, one by one.               *)
LEMMA MapsAppend ==
    ASSUME NEW B, NEW s \in Seq(B), NEW x \in B
    PROVE  /\ Spelled(Append(s, x)) = Append(Spelled(s), Spelling(x))
           /\ OutEventsOf(Append(s, x)) = Append(OutEventsOf(s), OutEvent(x))
           /\ ErrTextsOf(Append(s, x)) = Append(ErrTextsOf(s), ErrText1(x))
           /\ ErrEventsOf(Append(s, x)) = Append(ErrEventsOf(s), ErrEvent(x))
<1> DEFINE n == Len(s)
           u == Append(s, x)
<1>1. /\ n \in Nat /\ DOMAIN s = 1..n /\ DOMAIN u = 1..(n + 1)
      /\ (\A i \in 1..n : u[i] = s[i]) /\ u[n + 1] = x
  OBVIOUS
<1> HIDE DEF n, u
<1>2. ASSUME NEW f, f = [i \in 1..n |-> f[i]], NEW y
      PROVE  Append(f, y) = [i \in 1..(n + 1) |-> IF i = n + 1 THEN y ELSE f[i]]
  <2> DEFINE S == {f[i] : i \in 1..n} \cup {y}
  <2>1. f \in [1..n -> S]
    BY <1>2
  <2> HIDE DEF S
  <2>2. f \in Seq(S) /\ Len(f) = n
    BY <1>1, <2>1
  <2> DEFINE v == Append(f, y)
             w == [i \in 1..(n + 1) |-> IF i = n + 1 THEN y ELSE f[i]]
  <2>3. y \in S /\ \A i \in 1..n : f[i] \in S
    BY <1>2 DEF S
  <2>4. /\ v \in Seq(S) /\ Len(v) = n + 1 /\ v[n + 1] = y
        /\ \A i \in 1..n : v[i] = f[i]
    BY <1>1, <2>2, <2>3
  <2>5. v = [i \in 1..(n + 1) |-> v[i]]
    <3> HIDE DEF v
    <3>1. v \in [1..Len(v) -> S]
      BY <2>4
    <3> QED BY <2>4, <3>1
  <2>6. \A i \in 1..(n + 1) : i = n + 1 \/ (i # n + 1 /\ i \in 1..n)
    BY <1>1
  <2> HIDE DEF v
  <2>7. \A i \in 1..(n + 1) : v[i] = IF i = n + 1 THEN y ELSE f[i]
    BY <2>4, <2>6
  <2>8. v = w
    BY <2>5, <2>7
  <2> QED BY <2>8 DEF v
<1>3. \A i \in 1..(n + 1) : i = n + 1 \/ i \in 1..n
  BY <1>1
<1>4. Spelled(u) = Append(Spelled(s), Spelling(x))
  <2>1. Spelled(s) = [i \in 1..n |-> Spelled(s)[i]] /\ \A i \in 1..n : Spelled(s)[i] = Spelling(s[i])
    BY <1>1 DEF Spelled
  <2>2. Append(Spelled(s), Spelling(x)) =
          [i \in 1..(n + 1) |-> IF i = n + 1 THEN Spelling(x) ELSE Spelled(s)[i]]
    BY <1>2, <2>1
  <2>3. Spelled(u) = [i \in 1..(n + 1) |-> Spelling(u[i])]
    BY <1>1 DEF Spelled
  <2> QED BY <1>1, <1>3, <2>1, <2>2, <2>3
<1>5. OutEventsOf(u) = Append(OutEventsOf(s), OutEvent(x))
  <2>1. /\ OutEventsOf(s) = [i \in 1..n |-> OutEventsOf(s)[i]]
        /\ \A i \in 1..n : OutEventsOf(s)[i] = OutEvent(s[i])
    BY <1>1 DEF OutEventsOf
  <2>2. Append(OutEventsOf(s), OutEvent(x)) =
          [i \in 1..(n + 1) |-> IF i = n + 1 THEN OutEvent(x) ELSE OutEventsOf(s)[i]]
    BY <1>2, <2>1
  <2>3. OutEventsOf(u) = [i \in 1..(n + 1) |-> OutEvent(u[i])]
    BY <1>1 DEF OutEventsOf
  <2> QED BY <1>1, <1>3, <2>1, <2>2, <2>3
<1>6. ErrTextsOf(u) = Append(ErrTextsOf(s), ErrText1(x))
  <2>1. /\ ErrTextsOf(s) = [i \in 1..n |-> ErrTextsOf(s)[i]]
        /\ \A i \in 1..n : ErrTextsOf(s)[i] = ErrText1(s[i])
    BY <1>1 DEF ErrTextsOf
  <2>2. Append(ErrTextsOf(s), ErrText1(x)) =
          [i \in 1..(n + 1) |-> IF i = n + 1 THEN ErrText1(x) ELSE ErrTextsOf(s)[i]]
    BY <1>2, <2>1
  <2>3. ErrTextsOf(u) = [i \in 1..(n + 1) |-> ErrText1(u[i])]
    BY <1>1 DEF ErrTextsOf
  <2> QED BY <1>1, <1>3, <2>1, <2>2, <2>3
<1>7. ErrEventsOf(u) = Append(ErrEventsOf(s), ErrEvent(x))
  <2>1. /\ ErrEventsOf(s) = [i \in 1..n |-> ErrEventsOf(s)[i]]
        /\ \A i \in 1..n : ErrEventsOf(s)[i] = ErrEvent(s[i])
    BY <1>1 DEF ErrEventsOf
  <2>2. Append(ErrEventsOf(s), ErrEvent(x)) =
          [i \in 1..(n + 1) |-> IF i = n + 1 THEN ErrEvent(x) ELSE ErrEventsOf(s)[i]]
    BY <1>2, <2>1
  <2>3. ErrEventsOf(u) = [i \in 1..(n + 1) |-> ErrEvent(u[i])]
    BY <1>1 DEF ErrEventsOf
  <2> QED BY <1>1, <1>3, <2>1, <2>2, <2>3
<1> QED BY <1>4, <1>5, <1>6, <1>7 DEF u

LEMMA MapsEmpty ==
    /\ Spelled(<<>>) = <<>> /\ OutEventsOf(<<>>) = <<>>
    /\ ErrTextsOf(<<>>) = <<>> /\ ErrEventsOf(<<>>) = <<>>
<1>1. DOMAIN <<>> = {} /\ \A f, g : f = [i \in {} |-> f[i]] /\ g = [i \in {} |-> g[i]] => f = g
  OBVIOUS
<1>2. <<>> = [i \in {} |-> <<>>[i]]
  OBVIOUS
<1>3. Spelled(<<>>) = <<>>
  BY <1>1, <1>2 DEF Spelled
<1>4. OutEventsOf(<<>>) = <<>>
  BY <1>1, <1>2 DEF OutEventsOf
<1>5. ErrTextsOf(<<>>) = <<>>
  BY <1>1, <1>2 DEF ErrTextsOf
<1>6. ErrEventsOf(<<>>) = <<>>
  BY <1>1, <1>2 DEF ErrEventsOf
<1> QED BY <1>3, <1>4, <1>5, <1>6

LEMMA SpelledTyped == \A ls \in Seq(ScriptLine) : Spelled(ls) \in Seq(Line)
<1>1. ASSUME NEW ls \in Seq(ScriptLine) PROVE Spelled(ls) \in Seq(Line)
  <2>1. Len(ls) \in Nat /\ DOMAIN ls = 1..Len(ls) /\ \A i \in DOMAIN ls : Spelling(ls[i]) \in Line
    BY SpellingTyped
  <2>2. Spelled(ls) = [i \in 1..Len(ls) |-> Spelling(ls[i])]
    BY <2>1 DEF Spelled
  <2>3. Spelled(ls) \in [1..Len(ls) -> Line]
    BY <2>1, <2>2
  <2>4. \A n \in Nat : \A f \in [1..n -> Line] : f \in Seq(Line)
    OBVIOUS
  <2> QED BY <2>1, <2>3, <2>4
<1> QED BY <1>1

LEMMA SpellingClean == \A l \in ScriptLine : Clean(Spelling(l))
<1>1. ASSUME NEW l \in ScriptLine PROVE Clean(Spelling(l))
  <2>1. CASE l.kind = "blank"
    BY <2>1 DEF Clean, Spelling
  <2>2. CASE l.kind # "blank"
    <3>1. Spelling(l) = <<Atom(l.kind, l.id, 1), Atom(l.kind, l.id, 2)>>
      BY <2>2 DEF Spelling
    <3>2. Atom(l.kind, l.id, 1) # Newline /\ Atom(l.kind, l.id, 2) # Newline
      BY DEF Atom, Newline, ScriptLine, StdoutKinds, StderrKinds
    <3> HIDE DEF Atom
    <3>3. \A i \in DOMAIN Spelling(l) : i = 1 \/ i = 2
      BY <3>1
    <3> QED BY <3>1, <3>2, <3>3 DEF Clean
  <2> QED BY <2>1, <2>2
<1> QED BY <1>1

(* The text of whole lines is cut into these lines, with nothing left.     *)
LEMMA TextSplits ==
    \A ls \in Seq(ScriptLine) : Split(TextOf(ls)) = [lines |-> Spelled(ls), rest |-> <<>>]
<1> DEFINE R == {ls \in Seq(ScriptLine) : Split(TextOf(ls)) = [lines |-> Spelled(ls), rest |-> <<>>]}
<1>1. <<>> \in R
  <2>1. <<>> \in Seq(ScriptLine)
    OBVIOUS
  <2> QED BY <2>1, TextLaws, SplitLaws, MapsEmpty DEF NoCut
<1>2. ASSUME NEW ls \in R, NEW l \in ScriptLine PROVE Append(ls, l) \in R
  <2> DEFINE t == TextOf(ls)
             p == Spelling(l)
             d == Append(p, Newline)
  <2>1. /\ ls \in Seq(ScriptLine) /\ Append(ls, l) \in Seq(ScriptLine) /\ t \in Line
        /\ Split(t) = [lines |-> Spelled(ls), rest |-> <<>>] /\ Spelled(ls) \in Seq(Line)
    BY TextLaws, SpelledTyped
  <2>2. p \in Line /\ d \in Line /\ Clean(p)
    BY SpellingTyped, SpellingClean, AtomsTyped DEF Line
  <2>3. Split(d) = SplitStep([lines |-> <<>>, rest |-> p], Newline)
    BY <2>2, SplitClean, SplitLaws, AtomsTyped
  <2>4. Split(d).lines = Append(<<>>, p) /\ Split(d).rest = <<>>
    BY <2>3 DEF SplitStep
  <2>5. TextOf(Append(ls, l)) = t \o d
    BY <2>1, TextLaws DEF TextStep
  <2> HIDE DEF t, d, p
  <2>6. <<>> \o d = d
    BY <2>2 DEF Line
  <2>7. Split(t \o d).lines = Spelled(ls) \o Append(<<>>, p) /\ Split(t \o d).rest = <<>>
    <3>1. Split(t).lines = Spelled(ls) /\ Split(t).rest = <<>>
      BY <2>1
    <3>2. Split(t \o d).lines = Split(t).lines \o Split(Split(t).rest \o d).lines
          /\ Split(t \o d).rest = Split(Split(t).rest \o d).rest
      BY <2>1, <2>2, SplitConcat
    <3> QED BY <2>4, <2>6, <3>1, <3>2
  <2>8. Spelled(ls) \o Append(<<>>, p) = Append(Spelled(ls), p)
    <3>1. <<>> \in Seq(Line) /\ Spelled(ls) \o <<>> = Spelled(ls)
      BY <2>1
    <3>2. Spelled(ls) \o Append(<<>>, p) = Append(Spelled(ls) \o <<>>, p)
      BY <2>1, <2>2, <3>1, LinesConcat
    <3> QED BY <3>1, <3>2
  <2>9. Spelled(Append(ls, l)) = Append(Spelled(ls), p)
    BY <2>1, MapsAppend DEF p
  <2>10. t \o d \in Line
    BY <2>1, <2>2 DEF Line
  <2>11. Split(t \o d) = [lines |-> Spelled(Append(ls, l)), rest |-> <<>>]
    BY <2>7, <2>8, <2>9, <2>10, SplitTyped, CutFields
  <2> QED BY <2>1, <2>5, <2>11
<1>3. R \in SUBSET Seq(ScriptLine)
  OBVIOUS
<1>4. \A ls \in Seq(ScriptLine) : ls \in R
  <2> HIDE DEF R
  <2> QED BY <1>1, <1>2, <1>3, SequenceInduction
<1> QED BY <1>4
-----------------------------------------------------------------------------
(* A stream that is cut off before its last newline still ends in its last *)
(* line: what Split keeps back is a line too.                              *)
LEMMA FrontOfAppend == \A s \in Line, a \in Atoms : Front(Append(s, a)) = s
<1>1. ASSUME NEW s \in Line, NEW a \in Atoms PROVE Front(Append(s, a)) = s
  <2> DEFINE f == Front(Append(s, a))
  <2>1. s \in Seq(Atoms) /\ Len(s) \in Nat
    BY DEF Line
  <2>2. f \in Seq(Atoms) /\ Len(f) = Len(s) /\ \A i \in 1..Len(s) : f[i] = s[i]
    BY <2>1 DEF Front
  <2> HIDE DEF f
  <2>3. f = s
    BY <2>1, <2>2
  <2> QED BY <2>3 DEF f
<1> QED BY <1>1

WholeText(ls, ended) == IF ended \/ TextOf(ls) = <<>> THEN TextOf(ls) ELSE Front(TextOf(ls))
AllOf(t) == Append(Split(t).lines, Split(t).rest)

LEMMA AllOfText ==
    ASSUME NEW ls \in Seq(ScriptLine), NEW ended
    PROVE  /\ WholeText(ls, ended) \in Line
           /\ \/ AllOf(WholeText(ls, ended)) = Spelled(ls)
              \/ AllOf(WholeText(ls, ended)) = Append(Spelled(ls), <<>>)
<1>1. CASE ended \/ TextOf(ls) = <<>>
  <2>1. WholeText(ls, ended) = TextOf(ls)
    BY <1>1 DEF WholeText
  <2>2. TextOf(ls) \in Line /\ Split(TextOf(ls)) = [lines |-> Spelled(ls), rest |-> <<>>]
    BY TextLaws, TextSplits
  <2> QED BY <2>1, <2>2 DEF AllOf
<1>2. CASE ~(ended \/ TextOf(ls) = <<>>)
  <2>1. ls # <<>>
    BY <1>2, TextLaws
  <2>2. PICK fs \in Seq(ScriptLine), l \in ScriptLine : ls = Append(fs, l)
    BY <2>1, FrontAndLast
  <2> DEFINE t == TextOf(fs)
             p == Spelling(l)
  <2>3. t \in Line /\ p \in Line /\ Clean(p) /\ Split(t) = [lines |-> Spelled(fs), rest |-> <<>>]
    BY TextLaws, TextSplits, SpellingTyped, SpellingClean
  <2>4. TextOf(ls) = t \o Append(p, Newline)
    BY <2>2, TextLaws DEF TextStep
  <2>5. Spelled(fs) \in Seq(Line) /\ Spelled(ls) = Append(Spelled(fs), p)
    BY <2>2, SpelledTyped, MapsAppend
  <2> HIDE DEF t, p
  <2>6. t \o p \in Line /\ t \o Append(p, Newline) = Append(t \o p, Newline)
    BY <2>3, AtomsTyped, LineConcat
  <2>7. Front(TextOf(ls)) = t \o p
    BY <2>4, <2>6, AtomsTyped, FrontOfAppend
  <2>8. WholeText(ls, ended) = t \o p
    BY <1>2, <2>7 DEF WholeText
  <2>9. <<>> \o p = p /\ Spelled(fs) \o <<>> = Spelled(fs)
    BY <2>3, <2>5 DEF Line
  <2>10. Split(p) = [lines |-> <<>>, rest |-> p]
    BY <2>3, SplitClean
  <2>11. Split(t \o p).lines = Split(t).lines \o Split(Split(t).rest \o p).lines
         /\ Split(t \o p).rest = Split(Split(t).rest \o p).rest
    BY <2>3, SplitConcat
  <2>12. Split(t).lines = Spelled(fs) /\ Split(t).rest = <<>>
    BY <2>3
  <2>13. Split(t \o p).lines = Spelled(fs) /\ Split(t \o p).rest = p
    <3>1. Split(p).lines = <<>> /\ Split(p).rest = p
      BY <2>10
    <3> QED BY <2>9, <2>11, <2>12, <3>1
  <2> QED BY <2>5, <2>6, <2>8, <2>13 DEF AllOf
<1> QED BY <1>1, <1>2

NoOut == [final |-> <<>>, progress |-> <<>>, told |-> <<>>]
NoErr == [lines |-> <<>>, told |-> <<>>]

LEMMA NothingTyped == NoOut \in OutType /\ NoErr \in ErrType
BY DEF NoOut, NoErr, OutType, ErrType, Line

(* A blank line at the end adds nothing.                                   *)
LEMMA FoldsOfText ==
    ASSUME NEW ls \in Seq(ScriptLine), NEW ended
    PROVE  /\ OutFold(NoOut, AllOf(WholeText(ls, ended))) = OutFold(NoOut, Spelled(ls))
           /\ ErrFold(NoErr, AllOf(WholeText(ls, ended))) = ErrFold(NoErr, Spelled(ls))
<1>1. Spelled(ls) \in Seq(Line) /\ <<>> \in Line
  BY SpelledTyped DEF Line
<1>2. OutFold(NoOut, Append(Spelled(ls), <<>>)) = OutFold(NoOut, Spelled(ls))
  <2>1. OutFold(NoOut, Append(Spelled(ls), <<>>)) = OutStep(OutFold(NoOut, Spelled(ls)), <<>>)
    BY <1>1, NothingTyped, OutLaws
  <2> QED BY <2>1 DEF OutStep
<1>3. ErrFold(NoErr, Append(Spelled(ls), <<>>)) = ErrFold(NoErr, Spelled(ls))
  <2>1. ErrFold(NoErr, Append(Spelled(ls), <<>>)) = ErrStep(ErrFold(NoErr, Spelled(ls)), <<>>)
    BY <1>1, NothingTyped, ErrLaws
  <2> QED BY <2>1 DEF ErrStep
<1> QED BY <1>2, <1>3, AllOfText

(* The lines of a script.                                                  *)
LEMMA LinesOfTyped ==
    ASSUME NEW K \in SUBSET (StdoutKinds \cup StderrKinds), NEW kinds \in Seq(K)
    PROVE  LinesOf(kinds) \in Seq([kind : K, id : Nat]) /\ LinesOf(kinds) \in Seq(ScriptLine)
<1>1. Len(kinds) \in Nat /\ DOMAIN kinds = 1..Len(kinds) /\ \A i \in 1..Len(kinds) : kinds[i] \in K /\ i \in Nat
  OBVIOUS
<1> DEFINE L == [kind : K, id : Nat]
<1>2. LinesOf(kinds) = [i \in 1..Len(kinds) |-> [kind |-> kinds[i], id |-> i]]
  BY <1>1 DEF LinesOf
<1>3. \A i \in 1..Len(kinds) : [kind |-> kinds[i], id |-> i] \in L
  BY <1>1
<1> HIDE DEF L
<1>4. LinesOf(kinds) \in [1..Len(kinds) -> L]
  BY <1>2, <1>3
<1>5. \A B : \A n \in Nat : \A f \in [1..n -> B] : f \in Seq(B)
  OBVIOUS
<1>6. L \subseteq ScriptLine
  BY DEF L, ScriptLine
<1>7. LinesOf(kinds) \in [1..Len(kinds) -> ScriptLine]
  BY <1>4, <1>6
<1> QED BY <1>1, <1>4, <1>5, <1>7 DEF L
-----------------------------------------------------------------------------
(* What the handlers make of one spelled line.                             *)
LEMMA OutLineRead ==
    ASSUME NEW l \in OutLine
    PROVE  /\ l \in ScriptLine /\ Spelling(l) \in Line
           /\ l.kind = "blank" => Spelling(l) = <<>>
           /\ l.kind # "blank" => Spelling(l) # <<>> /\ EventType(Spelling(l)) = TypeOf(l.kind)
<1>1. l \in ScriptLine /\ l.kind \in StdoutKinds
  BY DEF OutLine, ScriptLine
<1>2. ASSUME l.kind # "blank"
      PROVE  Spelling(l) # <<>> /\ EventType(Spelling(l)) = TypeOf(l.kind)
  <2> DEFINE p == Spelling(l)
  <2>1. p = <<Atom(l.kind, l.id, 1), Atom(l.kind, l.id, 2)>>
    BY <1>2 DEF Spelling
  <2> HIDE DEF p
  <2>2. /\ Len(p) = 2 /\ p # <<>> /\ p[1].half = 1 /\ p[1].kind = l.kind /\ p[2].half = 2
    BY <2>1 DEF Atom
  <2>3. EventType(p) = TypeOf(l.kind)
    BY <1>1, <1>2, <2>2 DEF EventType, TypeOf, StdoutKinds
  <2> QED BY <2>2, <2>3 DEF p
<1>3. l.kind = "blank" => Spelling(l) = <<>>
  BY DEF Spelling
<1> QED BY <1>1, <1>2, <1>3, SpellingTyped

LEMMA ErrLineRead ==
    ASSUME NEW l \in ErrLine
    PROVE  /\ l \in ScriptLine /\ Spelling(l) \in Line /\ Spelling(l) # <<>>
           /\ Redact(Spelling(l)) = ErrText1(l)
<1>1. l \in ScriptLine /\ l.kind \in StderrKinds /\ l.kind # "blank"
  BY DEF ErrLine, ScriptLine, StderrKinds
<1> DEFINE p == Spelling(l)
<1>2. p = <<Atom(l.kind, l.id, 1), Atom(l.kind, l.id, 2)>>
  BY <1>1 DEF Spelling
<1> HIDE DEF p
<1>3. /\ Len(p) = 2 /\ p # <<>> /\ p[1].half = 1 /\ p[1].kind = l.kind /\ p[2].half = 2
  BY <1>2 DEF Atom
<1>4. (\E i \in 1..(Len(p) - 1) : p[i].kind = "secret" /\ p[i].half = 1 /\ p[i + 1].half = 2)
        <=> l.kind = "secret"
  <2>1. 1..(Len(p) - 1) = {1} /\ 1 + 1 = 2
    BY <1>3
  <2> QED BY <1>3, <2>1
<1>5. Redact(p) = IF l.kind = "secret" THEN <<Atom("redacted", 0, 0)>> ELSE p
  BY <1>4 DEF Redact
<1> QED BY <1>1, <1>3, <1>5, SpellingTyped DEF p, ErrText1

LEMMA PayloadOfAppend ==
    ASSUME NEW s \in Seq(OutLine), NEW l \in OutLine
    PROVE  Payload(Append(s, l)) = Spelling(l)
<1> DEFINE u == Append(s, l)
<1>1. u # <<>> /\ u[Len(u)] = l
  OBVIOUS
<1> HIDE DEF u
<1>2. Payload(u) = Spelling(l)
  BY <1>1 DEF Payload, Last
<1> QED BY <1>2 DEF u

LEMMA KeepOne ==
    ASSUME NEW B, NEW S, NEW s \in Seq(B), NEW x \in B
    PROVE  /\ Keep(s, S) \in Seq(B)
           /\ x \in S => Keep(Append(s, x), S) = Append(Keep(s, S), x)
           /\ x \notin S => Keep(Append(s, x), S) = Keep(s, S)
<1>1. Keep(s, S) \in Seq(B) /\ Keep(Append(s, x), S) = KeepStep(Keep(s, S), x, S)
  BY KeepLaws
<1> QED BY <1>1 DEF KeepStep

(* The whole of a stream, read line by line, is what the script says.      *)
OutScript(ls) ==
    [final |-> Payload(Keep(ls, OfKind({"object"}))),
     progress |-> Payload(Keep(ls, OfKind({"progress"}))),
     told |-> OutEventsOf(Keep(ls, OfKind(StdoutKinds \ {"blank"})))]
ErrScript(ls) ==
    [lines |-> ErrTextsOf(Keep(ls, OfKind(StderrKinds))),
     told |-> ErrEventsOf(ErrTextsOf(Keep(ls, OfKind(StderrKinds))))]

LEMMA OutScriptEmpty == OutScript(<<>>) = NoOut
<1>1. \A S : Keep(<<>>, S) = <<>>
  BY KeepLaws
<1>2. Payload(<<>>) = <<>>
  BY DEF Payload, Nothing
<1> QED BY <1>1, <1>2, MapsEmpty DEF OutScript, NoOut

LEMMA OutScriptAppend ==
    ASSUME NEW ls \in Seq(OutLine), NEW l \in OutLine
    PROVE  OutScript(Append(ls, l)) = OutStep(OutScript(ls), Spelling(l))
<1> DEFINE K == OfKind(StdoutKinds \ {"blank"})
           u == Append(ls, l)
           o == OutScript(ls)
           p == Spelling(l)
<1>1. l.kind \in StdoutKinds /\ \A k : l \in OfKind(k) <=> l.kind \in k
  BY DEF OutLine, OfKind
<1>2. \A S : /\ Keep(ls, S) \in Seq(OutLine)
             /\ l \in S => Keep(u, S) = Append(Keep(ls, S), l)
             /\ l \notin S => Keep(u, S) = Keep(ls, S)
  BY KeepOne
<1>3. /\ o.final = Payload(Keep(ls, OfKind({"object"})))
      /\ o.progress = Payload(Keep(ls, OfKind({"progress"})))
      /\ o.told = OutEventsOf(Keep(ls, K))
      /\ o = [final |-> o.final, progress |-> o.progress, told |-> o.told]
  BY DEF OutScript
<1> HIDE DEF u, o, K
<1>4. CASE l.kind = "blank"
  <2>1. l \notin OfKind({"object"}) /\ l \notin OfKind({"progress"}) /\ l \notin K
    BY <1>1, <1>4 DEF K
  <2>2. OutScript(u) = o
    BY <1>2, <2>1 DEF OutScript, o, K
  <2>3. OutStep(o, p) = o
    BY <1>4, OutLineRead DEF OutStep
  <2> QED BY <2>2, <2>3 DEF u, o
<1>5. CASE l.kind # "blank"
  <2>1. p # <<>> /\ EventType(p) = TypeOf(l.kind)
    BY <1>5, OutLineRead
  <2> HIDE DEF p
  <2>2. /\ (EventType(p) = "stdout_json") <=> (l.kind = "object")
        /\ (EventType(p) = "progress") <=> (l.kind = "progress")
    BY <1>1, <1>5, <2>1 DEF TypeOf, StdoutKinds
  <2>3. Payload(Keep(u, OfKind({"object"}))) = IF l.kind = "object" THEN p ELSE o.final
    BY <1>1, <1>2, <1>3, PayloadOfAppend DEF p
  <2>4. Payload(Keep(u, OfKind({"progress"}))) = IF l.kind = "progress" THEN p ELSE o.progress
    BY <1>1, <1>2, <1>3, PayloadOfAppend DEF p
  <2>5. OutEventsOf(Keep(u, K)) = Append(o.told, [type |-> EventType(p), raw |-> p])
    <3>1. l \in K
      BY <1>1, <1>5 DEF K
    <3>2. OutEventsOf(Append(Keep(ls, K), l)) = Append(OutEventsOf(Keep(ls, K)), OutEvent(l))
      BY <1>2, MapsAppend
    <3>3. OutEvent(l) = [type |-> EventType(p), raw |-> p]
      BY <2>1 DEF OutEvent, p
    <3> QED BY <1>2, <1>3, <3>1, <3>2, <3>3
  <2>6. OutScript(u) = [final |-> IF EventType(p) = "stdout_json" THEN p ELSE o.final,
                        progress |-> IF EventType(p) = "progress" THEN p ELSE o.progress,
                        told |-> Append(o.told, [type |-> EventType(p), raw |-> p])]
    BY <2>2, <2>3, <2>4, <2>5 DEF OutScript, K
  <2>7. OutStep(o, p) = [final |-> IF EventType(p) = "stdout_json" THEN p ELSE o.final,
                         progress |-> IF EventType(p) = "progress" THEN p ELSE o.progress,
                         told |-> Append(o.told, [type |-> EventType(p), raw |-> p])]
    BY <2>1 DEF OutStep
  <2> QED BY <2>6, <2>7 DEF u, o, p
<1> QED BY <1>4, <1>5

LEMMA OutOfScript == \A ls \in Seq(OutLine) : OutFold(NoOut, Spelled(ls)) = OutScript(ls)
<1> DEFINE R == {ls \in Seq(OutLine) : OutFold(NoOut, Spelled(ls)) = OutScript(ls)}
<1>1. <<>> \in R
  <2>1. <<>> \in Seq(OutLine) /\ OutFold(NoOut, <<>>) = NoOut
    BY NothingTyped, OutLaws
  <2> QED BY <2>1, OutScriptEmpty, MapsEmpty
<1>2. ASSUME NEW ls \in R, NEW l \in OutLine PROVE Append(ls, l) \in R
  <2>1. ls \in Seq(OutLine) /\ Append(ls, l) \in Seq(OutLine) /\ OutFold(NoOut, Spelled(ls)) = OutScript(ls)
    OBVIOUS
  <2>2. ls \in Seq(ScriptLine) /\ l \in ScriptLine /\ Spelling(l) \in Line
    BY <2>1, OutLineRead
  <2>3. Spelled(ls) \in Seq(Line) /\ Spelled(Append(ls, l)) = Append(Spelled(ls), Spelling(l))
    BY <2>2, SpelledTyped, MapsAppend
  <2>4. OutFold(NoOut, Append(Spelled(ls), Spelling(l))) = OutStep(OutFold(NoOut, Spelled(ls)), Spelling(l))
    BY <2>2, <2>3, NothingTyped, OutLaws
  <2>5. OutScript(Append(ls, l)) = OutStep(OutScript(ls), Spelling(l))
    BY <2>1, OutScriptAppend
  <2> QED BY <2>1, <2>3, <2>4, <2>5
<1>3. R \in SUBSET Seq(OutLine)
  OBVIOUS
<1>4. \A ls \in Seq(OutLine) : ls \in R
  <2> HIDE DEF R
  <2> QED BY <1>1, <1>2, <1>3, SequenceInduction
<1> QED BY <1>4

LEMMA ErrOfScript == \A ls \in Seq(ErrLine) : ErrFold(NoErr, Spelled(ls)) = ErrScript(ls)
<1> DEFINE R == {ls \in Seq(ErrLine) : ErrFold(NoErr, Spelled(ls)) = ErrScript(ls)}
           K == OfKind(StderrKinds)
<1>1. <<>> \in R
  <2>1. <<>> \in Seq(ErrLine) /\ ErrFold(NoErr, <<>>) = NoErr /\ Keep(<<>>, K) = <<>>
    BY NothingTyped, ErrLaws, KeepLaws
  <2> HIDE DEF K
  <2>2. ErrScript(<<>>) = NoErr
    BY <2>1, MapsEmpty DEF ErrScript, NoErr, K
  <2> QED BY <2>1, <2>2, MapsEmpty
<1>2. ASSUME NEW ls \in R, NEW l \in ErrLine PROVE Append(ls, l) \in R
  <2> DEFINE p == Spelling(l)
             e == ErrScript(ls)
             u == Append(ls, l)
  <2>1. ls \in Seq(ErrLine) /\ u \in Seq(ErrLine) /\ ErrFold(NoErr, Spelled(ls)) = e
    OBVIOUS
  <2>2. ls \in Seq(ScriptLine) /\ l \in ScriptLine /\ p \in Line /\ p # <<>> /\ Redact(p) = ErrText1(l)
    BY <2>1, ErrLineRead
  <2>3. Spelled(ls) \in Seq(Line) /\ Spelled(u) = Append(Spelled(ls), p)
    BY <2>2, SpelledTyped, MapsAppend
  <2>4. ErrFold(NoErr, Append(Spelled(ls), p)) = ErrStep(ErrFold(NoErr, Spelled(ls)), p)
    BY <2>2, <2>3, NothingTyped, ErrLaws
  <2>5. l \in K
    BY DEF ErrLine, OfKind
  <2>6. Keep(ls, K) \in Seq(ErrLine) /\ Keep(u, K) = Append(Keep(ls, K), l)
    BY <2>1, <2>5, KeepOne
  <2>7. ErrTextsOf(Keep(u, K)) = Append(ErrTextsOf(Keep(ls, K)), ErrText1(l))
    BY <2>6, MapsAppend
  <2>8. ErrTextsOf(Keep(ls, K)) \in Seq(Line)
    <3> DEFINE k == Keep(ls, K)
    <3>1. \A x \in ErrLine : ErrText1(x) \in Line
      BY ErrLineRead, RedactTyped
    <3>2. Len(k) \in Nat /\ DOMAIN k = 1..Len(k) /\ \A i \in 1..Len(k) : k[i] \in ErrLine
      BY <2>6
    <3> HIDE DEF k
    <3>3. ErrTextsOf(k) = [i \in 1..Len(k) |-> ErrText1(k[i])]
      BY <3>2 DEF ErrTextsOf
    <3>4. ErrTextsOf(k) \in [1..Len(k) -> Line]
      BY <3>1, <3>2, <3>3
    <3>5. \A n \in Nat : \A f \in [1..n -> Line] : f \in Seq(Line)
      OBVIOUS
    <3> QED BY <3>2, <3>4, <3>5 DEF k
  <2>9. ErrText1(l) \in Line
    BY <2>2, RedactTyped
  <2>10. ErrEventsOf(ErrTextsOf(Keep(u, K))) =
           Append(ErrEventsOf(ErrTextsOf(Keep(ls, K))), ErrEvent(ErrText1(l)))
    BY <2>7, <2>8, <2>9, MapsAppend
  <2>11. e.lines = ErrTextsOf(Keep(ls, K)) /\ e.told = ErrEventsOf(ErrTextsOf(Keep(ls, K)))
    BY DEF ErrScript
  <2> HIDE DEF p, e, u, K
  <2>12. ErrStep(e, p) = [lines |-> Append(e.lines, ErrText1(l)), told |-> Append(e.told, ErrEvent(ErrText1(l)))]
    BY <2>2 DEF ErrStep, ErrEvent
  <2>13. ErrScript(u) = [lines |-> ErrTextsOf(Keep(u, K)), told |-> ErrEventsOf(ErrTextsOf(Keep(u, K)))]
    BY DEF ErrScript, K
  <2>14. ErrFold(NoErr, Spelled(u)) = ErrScript(u)
    BY <2>1, <2>3, <2>4, <2>7, <2>10, <2>11, <2>12, <2>13
  <2> QED BY <2>1, <2>14 DEF u
<1>3. R \in SUBSET Seq(ErrLine)
  OBVIOUS
<1>4. \A ls \in Seq(ErrLine) : ls \in R
  <2> HIDE DEF R
  <2> QED BY <1>1, <1>2, <1>3, SequenceInduction
<1> QED BY <1>4
-----------------------------------------------------------------------------
(* What has been told is never taken back.                                 *)
LEMMA PrefixItself ==
    ASSUME NEW B, NEW s \in Seq(B)
    PROVE  IsPrefix(s, s)
<1>1. Len(s) \in Nat /\ Len(s) <= Len(s)
  OBVIOUS
<1> QED BY <1>1 DEF IsPrefix

LEMMA PrefixGrows ==
    ASSUME NEW B, NEW s \in Seq(B), NEW t \in Seq(B), NEW x \in B, IsPrefix(s, t)
    PROVE  IsPrefix(s, Append(t, x))
<1>2. IsPrefix(s, Append(t, x))
  <2> DEFINE u == Append(t, x)
             n == Len(s)
  <2>1. n \in Nat /\ n <= Len(t) /\ Len(t) \in Nat /\ SubSeq(s, 1, n) = SubSeq(t, 1, n)
    BY DEF IsPrefix
  <2>2. u \in Seq(B) /\ Len(u) = Len(t) + 1 /\ \A i \in 1..Len(t) : u[i] = t[i]
    OBVIOUS
  <2>3. SubSeq(u, 1, n) = SubSeq(t, 1, n)
    <3> HIDE DEF u, n
    <3>1. \A i \in 1..n : u[i] = t[i]
      BY <2>1, <2>2
    <3>2. /\ SubSeq(u, 1, n) \in Seq(B) /\ Len(SubSeq(u, 1, n)) = n
          /\ \A i \in 1..n : SubSeq(u, 1, n)[i] = u[i]
      BY <2>1, <2>2
    <3>3. /\ SubSeq(t, 1, n) \in Seq(B) /\ Len(SubSeq(t, 1, n)) = n
          /\ \A i \in 1..n : SubSeq(t, 1, n)[i] = t[i]
      BY <2>1
    <3> DEFINE v == SubSeq(u, 1, n)
               w == SubSeq(t, 1, n)
    <3>4. v \in Seq(B) /\ w \in Seq(B) /\ Len(v) = Len(w) /\ \A i \in 1..Len(v) : v[i] = w[i]
      BY <3>1, <3>2, <3>3
    <3> HIDE DEF v, w
    <3>5. v = w
      BY <3>4
    <3> QED BY <3>5 DEF v, w
  <2>4. n <= Len(u)
    BY <2>1, <2>2
  <2>5. SubSeq(s, 1, Len(s)) = SubSeq(u, 1, Len(s)) /\ Len(s) <= Len(u)
    BY <2>1, <2>3, <2>4
  <2> HIDE DEF u
  <2>6. IsPrefix(s, u)
    BY <2>5 DEF IsPrefix
  <2> QED BY <2>6 DEF u
<1> QED BY <1>2

LEMMA OutGrows ==
    ASSUME NEW o \in OutType
    PROVE  \A ls \in Seq(Line) : IsPrefix(o.told, OutFold(o, ls).told)
<1> DEFINE R == {ls \in Seq(Line) : IsPrefix(o.told, OutFold(o, ls).told)}
<1>0. o.told \in Seq(Event)
  BY DEF OutType
<1>1. <<>> \in R
  <2>1. <<>> \in Seq(Line) /\ OutFold(o, <<>>) = o
    BY OutLaws
  <2> QED BY <1>0, <2>1, PrefixItself
<1>2. ASSUME NEW ls \in R, NEW l \in Line PROVE Append(ls, l) \in R
  <2> DEFINE q == OutFold(o, ls)
             e == [type |-> EventType(l), raw |-> l]
  <2>1. ls \in Seq(Line) /\ Append(ls, l) \in Seq(Line) /\ IsPrefix(o.told, q.told)
    OBVIOUS
  <2>2. q \in OutType /\ OutFold(o, Append(ls, l)) = OutStep(q, l)
    BY <2>1, OutLaws
  <2>3. e \in Event /\ q.told \in Seq(Event)
    BY <2>2, EventTypeTyped DEF Event, OutType
  <2> HIDE DEF q
  <2>4. OutStep(q, l).told = q.told \/ OutStep(q, l).told = Append(q.told, e)
    BY DEF OutStep
  <2> HIDE DEF e
  <2>5. IsPrefix(o.told, Append(q.told, e))
    BY <1>0, <2>1, <2>3, PrefixGrows
  <2> QED BY <2>1, <2>2, <2>4, <2>5
<1>3. R \in SUBSET Seq(Line)
  OBVIOUS
<1>4. \A ls \in Seq(Line) : ls \in R
  <2> HIDE DEF R
  <2> QED BY <1>1, <1>2, <1>3, SequenceInduction
<1> QED BY <1>4

LEMMA ErrGrows ==
    ASSUME NEW e \in ErrType
    PROVE  \A ls \in Seq(Line) : IsPrefix(e.told, ErrFold(e, ls).told)
<1> DEFINE R == {ls \in Seq(Line) : IsPrefix(e.told, ErrFold(e, ls).told)}
<1>0. e.told \in Seq(Event)
  BY DEF ErrType
<1>1. <<>> \in R
  <2>1. <<>> \in Seq(Line) /\ ErrFold(e, <<>>) = e
    BY ErrLaws
  <2> QED BY <1>0, <2>1, PrefixItself
<1>2. ASSUME NEW ls \in R, NEW l \in Line PROVE Append(ls, l) \in R
  <2> DEFINE q == ErrFold(e, ls)
             v == [type |-> "stderr", raw |-> Redact(l)]
  <2>1. ls \in Seq(Line) /\ Append(ls, l) \in Seq(Line) /\ IsPrefix(e.told, q.told)
    OBVIOUS
  <2>2. q \in ErrType /\ ErrFold(e, Append(ls, l)) = ErrStep(q, l)
    BY <2>1, ErrLaws
  <2>3. v \in Event /\ q.told \in Seq(Event)
    BY <2>2, RedactTyped DEF Event, ErrType
  <2> HIDE DEF q
  <2>4. ErrStep(q, l).told = q.told \/ ErrStep(q, l).told = Append(q.told, v)
    BY DEF ErrStep
  <2> HIDE DEF v
  <2>5. IsPrefix(e.told, Append(q.told, v))
    BY <1>0, <2>1, <2>3, PrefixGrows
  <2> QED BY <2>1, <2>2, <2>4, <2>5
<1>3. R \in SUBSET Seq(Line)
  OBVIOUS
<1>4. \A ls \in Seq(Line) : ls \in R
  <2> HIDE DEF R
  <2> QED BY <1>1, <1>2, <1>3, SequenceInduction
<1> QED BY <1>4
-----------------------------------------------------------------------------
(* A write hands over the lines that it completes and keeps the rest: with *)
(* what is unwritten these are the lines that were to come before.         *)
LEMMA AllOfTyped == \A t \in Line : AllOf(t) \in Seq(Line)
<1>1. ASSUME NEW t \in Line PROVE AllOf(t) \in Seq(Line)
  <2>1. Split(t).lines \in Seq(Line) /\ Split(t).rest \in Line
    BY SplitTyped, CutFields
  <2> QED BY <2>1 DEF AllOf
<1> QED BY <1>1

LEMMA WriteKeepsAll ==
    ASSUME NEW p \in Line, NEW u \in Line, NEW n \in 1..Len(u)
    PROVE  LET parts == Split(p \o SubSeq(u, 1, n))
               left == SubSeq(u, n + 1, Len(u))
           IN  /\ parts.lines \in Seq(Line) /\ parts.rest \in Line /\ Clean(parts.rest) /\ left \in Line
               /\ AllOf(p \o u) = parts.lines \o AllOf(parts.rest \o left)
<1> DEFINE a == SubSeq(u, 1, n)
           b == SubSeq(u, n + 1, Len(u))
           parts == Split(p \o a)
<1>1. a \in Line /\ b \in Line /\ u = a \o b
  BY TwoPieces
<1> HIDE DEF a, b
<1>2. p \o a \in Line /\ p \o u = (p \o a) \o b
  <2>1. p \o a \in Line
    BY <1>1 DEF Line
  <2>2. p \o (a \o b) = (p \o a) \o b
    BY <1>1, ThreeConcat
  <2> QED BY <1>1, <2>1, <2>2
<1>3. parts.lines \in Seq(Line) /\ parts.rest \in Line /\ Clean(parts.rest)
  BY <1>2, SplitTyped, CutFields, RestClean
<1> DEFINE c == Split(parts.rest \o b)
<1>4. parts.rest \o b \in Line
  BY <1>1, <1>3 DEF Line
<1>5. c.lines \in Seq(Line) /\ c.rest \in Line
  BY <1>4, SplitTyped, CutFields
<1>6. Split(p \o u).lines = parts.lines \o c.lines /\ Split(p \o u).rest = c.rest
  <2>1. p \o a \in Line /\ b \in Line
    BY <1>1, <1>2
  <2> DEFINE t == p \o a
  <2> HIDE DEF t
  <2>2. Split(t \o b).lines = Split(t).lines \o Split(Split(t).rest \o b).lines
        /\ Split(t \o b).rest = Split(Split(t).rest \o b).rest
    BY <2>1, SplitConcat DEF t
  <2> QED BY <1>2, <2>2 DEF t
<1> HIDE DEF parts
<1>7. AllOf(parts.rest \o b) = Append(c.lines, c.rest)
  BY DEF AllOf
<1>8. AllOf(p \o u) = Append(parts.lines \o c.lines, c.rest)
  BY <1>6 DEF AllOf
<1> HIDE DEF c
<1>9. parts.lines \o Append(c.lines, c.rest) = Append(parts.lines \o c.lines, c.rest)
  BY <1>3, <1>5, LinesConcat
<1> QED BY <1>1, <1>3, <1>7, <1>8, <1>9 DEF parts, a, b

(* When all is written, a flush hands over the rest as the last line.      *)
LEMMA FlushTellsAll ==
    ASSUME NEW p \in Line, Clean(p)
    PROVE  AllOf(p \o <<>>) = <<p>>
<1>1. p \o <<>> = p
  BY DEF Line
<1>2. Split(p) = [lines |-> <<>>, rest |-> p]
  BY SplitClean
<1>3. Split(p).lines = <<>> /\ Split(p).rest = p
  BY <1>2
<1>4. AllOf(p) = Append(<<>>, p)
  BY <1>3 DEF AllOf
<1> QED BY <1>1, <1>4

LEMMA EmptyTellsNothing ==
    /\ \A o \in OutType : OutFold(o, AllOf(<<>> \o <<>>)) = o
    /\ \A e \in ErrType : ErrFold(e, AllOf(<<>> \o <<>>)) = e
<1>1. PICK n \in Line : n = <<>>
  <2>1. <<>> \in Line
    BY DEF Line
  <2> QED BY <2>1, Zenon
<1>2. DOMAIN <<>> = {}
  OBVIOUS
<1>3. Clean(n)
  BY <1>1, <1>2 DEF Clean
<1>4. AllOf(n \o <<>>) = <<n>>
  BY <1>3, FlushTellsAll
<1>5. <<n>> = Append(<<>>, n) /\ <<>> \in Seq(Line)
  OBVIOUS
<1>6. ASSUME NEW o \in OutType PROVE OutFold(o, <<n>>) = o
  <2>1. OutFold(o, Append(<<>>, n)) = OutStep(OutFold(o, <<>>), n) /\ OutFold(o, <<>>) = o
    BY <1>5, OutLaws
  <2> QED BY <1>1, <1>5, <2>1 DEF OutStep
<1>7. ASSUME NEW e \in ErrType PROVE ErrFold(e, <<n>>) = e
  <2>1. ErrFold(e, Append(<<>>, n)) = ErrStep(ErrFold(e, <<>>), n) /\ ErrFold(e, <<>>) = e
    BY <1>5, ErrLaws
  <2> QED BY <1>1, <1>5, <2>1 DEF ErrStep
<1> QED BY <1>1, <1>4, <1>6, <1>7
-----------------------------------------------------------------------------
(* The inductive invariant. Told so far and still to be told make the whole *)
(* script, of each stream: when Run has returned a result, nothing is       *)
(* still to be told, and the error may have been added to stderr.           *)
ToTell(s) == AllOf(partial[s] \o unwritten[s])
OutAll == OutScript(LinesOf(script.stdout))
ErrAll == ErrScript(LinesOf(script.stderr))

RunTyped ==
    /\ script \in Scripts
    /\ run \in {"start", "command", "flush", "check", "returned"}
    /\ outcome \in {"none", "usage", "ctxErr", "result"}
    /\ (outcome # "none") <=> (run = "returned")
    /\ partial \in [Streams -> Line] /\ unwritten \in [Streams -> Line]
    /\ seen \in Acc
    /\ \A s \in Streams : Clean(partial[s])

Drained(f) == f = [s \in Streams |-> <<>>]

RunDrains ==
    /\ run \in {"flush", "check"} => Drained(unwritten)
    /\ run = "check" => Drained(partial)
    /\ outcome \in {"ctxErr", "result"} => Drained(unwritten) /\ Drained(partial)

OutComplete == OutFold(Out(seen), ToTell("stdout")) = OutAll
ErrComplete == run # "returned" => ErrFold(Err(seen), ToTell("stderr")) = ErrAll

OwnError == script.execErr # "nil" /\ (script.errText = "ownText" \/ ErrAll.lines = <<>>)
Returned ==
    /\ outcome = "ctxErr" => Err(seen) = ErrAll
    /\ outcome = "result" =>
         /\ IsPrefix(ErrAll.told, Err(seen).told)
         /\ result.FinalPayload = OutAll.final /\ result.ProgressLast = OutAll.progress
         /\ (result.ExitCode = 0) = (script.execErr = "nil")
         /\ result.Stderr = ErrAll.lines \o (IF OwnError THEN << <<Atom("error", 0, 0)>> >> ELSE <<>>)

RunnerInv == RunTyped /\ RunDrains /\ OutComplete /\ ErrComplete /\ Returned

LEMMA ScriptTyped ==
    ASSUME NEW sc \in Scripts
    PROVE  /\ LinesOf(sc.stdout) \in Seq(OutLine) /\ LinesOf(sc.stdout) \in Seq(ScriptLine)
           /\ LinesOf(sc.stderr) \in Seq(ErrLine) /\ LinesOf(sc.stderr) \in Seq(ScriptLine)
<1>1. \A K, m : SeqOf(K, m) \subseteq Seq(K)
  <2>1. ASSUME NEW K, NEW m, NEW q \in SeqOf(K, m) PROVE q \in Seq(K)
    <3>1. PICK n \in 0..m : q \in [1..n -> K]
      BY <2>1 DEF SeqOf
    <3> QED BY <3>1
  <2> QED BY <2>1
<1>2. sc.stdout \in Seq(StdoutKinds) /\ sc.stderr \in Seq(StderrKinds)
  BY <1>1 DEF Scripts
<1>3. StdoutKinds \in SUBSET (StdoutKinds \cup StderrKinds) /\ StderrKinds \in SUBSET (StdoutKinds \cup StderrKinds)
  OBVIOUS
<1>4. LinesOf(sc.stdout) \in Seq([kind : StdoutKinds, id : Nat]) /\ LinesOf(sc.stdout) \in Seq(ScriptLine)
  BY <1>2, <1>3, LinesOfTyped
<1>5. LinesOf(sc.stderr) \in Seq([kind : StderrKinds, id : Nat]) /\ LinesOf(sc.stderr) \in Seq(ScriptLine)
  BY <1>2, <1>3, LinesOfTyped
<1> QED BY <1>4, <1>5 DEF OutLine, ErrLine

LEMMA TextIsWhole == \A kinds, ended : Text(kinds, ended) = WholeText(LinesOf(kinds), ended)
BY DEF Text, WholeText, TextOf

LEMMA RunnerInvInit == RunnerInit => RunnerInv
<1> SUFFICES ASSUME RunnerInit PROVE RunnerInv
  OBVIOUS
<1> USE DEF RunnerInit
<1>0. <<>> \in Line /\ DOMAIN <<>> = {}
  BY DEF Line
<1>1. /\ WholeText(LinesOf(script.stdout), script.ended) \in Line
      /\ WholeText(LinesOf(script.stderr), script.ended) \in Line
  BY ScriptTyped, AllOfText
<1>2. /\ unwritten["stdout"] = WholeText(LinesOf(script.stdout), script.ended)
      /\ unwritten["stderr"] = WholeText(LinesOf(script.stderr), script.ended)
      /\ partial["stdout"] = <<>> /\ partial["stderr"] = <<>>
  BY TextIsWhole DEF Streams
<1>3. \A t \in Line : <<>> \o t = t
  BY DEF Line
<1>4. /\ ToTell("stdout") = AllOf(WholeText(LinesOf(script.stdout), script.ended))
      /\ ToTell("stderr") = AllOf(WholeText(LinesOf(script.stderr), script.ended))
  BY <1>1, <1>2, <1>3 DEF ToTell
<1>5. seen \in Acc /\ Out(seen) = NoOut /\ Err(seen) = NoErr
  <2>1. \A S : Keep(<<>>, S) = <<>>
    BY KeepLaws
  <2>2. /\ seen.finalPayload = <<>> /\ seen.progressLast = <<>>
        /\ seen.stderrLines = <<>> /\ seen.events = <<>>
    BY DEF Nothing
  <2>3. seen \in Acc
    <3>1. <<>> \in Seq(Line) /\ <<>> \in Seq(Event)
      OBVIOUS
    <3> QED BY <1>0, <3>1 DEF Acc, Nothing
  <2> QED BY <2>1, <2>2, <2>3 DEF Out, Err, NoOut, NoErr
<1>6. OutComplete
  <2>1. OutFold(NoOut, AllOf(WholeText(LinesOf(script.stdout), script.ended))) = OutAll
    BY ScriptTyped, FoldsOfText, OutOfScript DEF OutAll
  <2> QED BY <1>4, <1>5, <2>1 DEF OutComplete
<1>7. ErrComplete
  <2>1. ErrFold(NoErr, AllOf(WholeText(LinesOf(script.stderr), script.ended))) = ErrAll
    BY ScriptTyped, FoldsOfText, ErrOfScript DEF ErrAll
  <2> QED BY <1>4, <1>5, <2>1 DEF ErrComplete
<1>8. RunTyped
  <2>1. partial \in [Streams -> Line] /\ \A s \in Streams : partial[s] = <<>>
    BY <1>0
  <2>2. unwritten \in [Streams -> Line]
    <3>1. \A s \in Streams : s = "stdout" \/ s = "stderr"
      BY DEF Streams
    <3>2. unwritten["stdout"] \in Line /\ unwritten["stderr"] \in Line
      BY <1>1, <1>2
    <3>3. unwritten = [s \in Streams |-> unwritten[s]]
      OBVIOUS
    <3> QED BY <3>1, <3>2, <3>3
  <2>3. \A s \in Streams : Clean(partial[s])
    BY <1>0, <2>1 DEF Clean
  <2> QED BY <1>5, <2>1, <2>2, <2>3 DEF RunTyped
<1>9. RunDrains /\ Returned
  BY DEF RunDrains, Returned
<1> QED BY <1>6, <1>7, <1>8, <1>9 DEF RunnerInv
-----------------------------------------------------------------------------
(* A stream's handler speaks of its own stream only.                       *)
LEMMA HandleProjects ==
    ASSUME NEW acc \in Acc, NEW lines \in Seq(Line)
    PROVE  /\ Handle("stdout", acc, lines) \in Acc /\ Handle("stderr", acc, lines) \in Acc
           /\ Out(Handle("stdout", acc, lines)) = OutFold(Out(acc), lines)
           /\ Err(Handle("stdout", acc, lines)) = Err(acc)
           /\ Err(Handle("stderr", acc, lines)) = ErrFold(Err(acc), lines)
           /\ Out(Handle("stderr", acc, lines)) = Out(acc)
<1>1. /\ Handle("stdout", acc, lines) = FoldLeft(HandleStdout, acc, lines)
      /\ Handle("stderr", acc, lines) = FoldLeft(HandleStderr, acc, lines)
  BY DEF Handle
<1>2. FoldLeft(HandleStdout, acc, lines) \in Acc /\ FoldLeft(HandleStderr, acc, lines) \in Acc
  BY StdoutLaws, StderrLaws
<1> QED BY <1>1, <1>2, StdoutProjects, StderrProjects

LEMMA QuietStep ==
    ASSUME RunnerInv, UNCHANGED <<script, unwritten, partial, seen, result>>,
           run' \in {"start", "command", "flush", "check", "returned"},
           outcome' \in {"none", "usage", "ctxErr", "result"},
           (outcome' # "none") <=> (run' = "returned"), RunDrains', Returned',
           run' # "returned" => run # "returned"
    PROVE  RunnerInv'
<1>1. RunTyped'
  BY DEF RunnerInv, RunTyped
<1>2. OutComplete' /\ ErrComplete'
  BY DEF RunnerInv, OutComplete, ErrComplete, ToTell, OutAll, ErrAll
<1> QED BY <1>1, <1>2 DEF RunnerInv

LEMMA WriteStep ==
    ASSUME RunnerInv, NEW s \in Streams, NEW n \in 1..Len(unwritten[s]), Write(s, n)
    PROVE  RunnerInv'
<1> DEFINE p == partial[s]
           u == unwritten[s]
           parts == Split(p \o SubSeq(u, 1, n))
           left == SubSeq(u, n + 1, Len(u))
<1>1. /\ script \in Scripts /\ partial \in [Streams -> Line] /\ unwritten \in [Streams -> Line]
      /\ seen \in Acc /\ \A t \in Streams : Clean(partial[t])
  BY DEF RunnerInv, RunTyped
<1>2. p \in Line /\ u \in Line
  BY <1>1
<1>3. /\ parts.lines \in Seq(Line) /\ parts.rest \in Line /\ Clean(parts.rest) /\ left \in Line
      /\ AllOf(p \o u) = parts.lines \o AllOf(parts.rest \o left)
  <2> HIDE DEF p
  <2>1. u \in Line /\ n \in 1..Len(u)
    BY <1>2
  <2> HIDE DEF u
  <2> QED BY <1>2, <2>1, WriteKeepsAll
<1>4. AllOf(parts.rest \o left) \in Seq(Line)
  <2>1. parts.rest \o left \in Line
    BY <1>3 DEF Line
  <2> QED BY <2>1, AllOfTyped
<1>5. /\ run = "command" /\ run' = run /\ outcome' = outcome /\ script' = script /\ result' = result
      /\ partial' = [partial EXCEPT ![s] = parts.rest]
      /\ unwritten' = [unwritten EXCEPT ![s] = left]
      /\ seen' = Handle(s, seen, parts.lines)
  BY DEF Write
<1> HIDE DEF parts, left, p, u
<1>6. s = "stdout" \/ s = "stderr"
  BY DEF Streams
<1>7. seen' \in Acc
  BY <1>1, <1>3, <1>5, <1>6, HandleProjects
<1>8. /\ partial' \in [Streams -> Line] /\ unwritten' \in [Streams -> Line]
      /\ \A t \in Streams : Clean(partial'[t])
      /\ partial'[s] = parts.rest /\ unwritten'[s] = left
      /\ \A t \in Streams \ {s} : partial'[t] = partial[t] /\ unwritten'[t] = unwritten[t]
  BY <1>1, <1>3, <1>5
<1>9. RunTyped'
  BY <1>5, <1>7, <1>8 DEF RunnerInv, RunTyped
<1>10. ToTell(s) = parts.lines \o ToTell(s)' /\ ToTell(s)' \in Seq(Line)
  <2>1. ToTell(s)' = AllOf(parts.rest \o left)
    BY <1>8 DEF ToTell
  <2> QED BY <1>3, <1>4, <2>1 DEF ToTell, p, u
<1>11. \A t \in Streams \ {s} : ToTell(t)' = ToTell(t)
  BY <1>8 DEF ToTell
<1>12. OutAll' = OutAll /\ ErrAll' = ErrAll
  BY <1>5 DEF OutAll, ErrAll
<1>13. Out(seen) \in OutType /\ Err(seen) \in ErrType
  BY <1>1, ProjectionsTyped
<1>14. OutComplete'
  <2>0. OutFold(Out(seen), ToTell("stdout")) = OutAll
    BY DEF RunnerInv, OutComplete
  <2>1. CASE s = "stdout"
    <3>1. Out(seen') = OutFold(Out(seen), parts.lines)
      BY <1>1, <1>3, <1>5, <2>1, HandleProjects
    <3>2. OutFold(Out(seen), parts.lines \o ToTell(s)') = OutFold(OutFold(Out(seen), parts.lines), ToTell(s)')
      BY <1>3, <1>10, <1>13, OutLaws
    <3> QED BY <1>10, <1>12, <2>0, <2>1, <3>1, <3>2 DEF OutComplete
  <2>2. CASE s = "stderr"
    <3>1. Out(seen') = Out(seen)
      BY <1>1, <1>3, <1>5, <2>2, HandleProjects
    <3>2. ToTell("stdout")' = ToTell("stdout")
      BY <1>11, <2>2 DEF Streams
    <3> QED BY <1>12, <2>0, <3>1, <3>2 DEF OutComplete
  <2> QED BY <1>6, <2>1, <2>2
<1>15. ErrComplete'
  <2>0. ErrFold(Err(seen), ToTell("stderr")) = ErrAll
    BY <1>5 DEF RunnerInv, ErrComplete
  <2>1. CASE s = "stderr"
    <3>1. Err(seen') = ErrFold(Err(seen), parts.lines)
      BY <1>1, <1>3, <1>5, <2>1, HandleProjects
    <3>2. ErrFold(Err(seen), parts.lines \o ToTell(s)') = ErrFold(ErrFold(Err(seen), parts.lines), ToTell(s)')
      BY <1>3, <1>10, <1>13, ErrLaws
    <3> QED BY <1>10, <1>12, <2>0, <2>1, <3>1, <3>2 DEF ErrComplete
  <2>2. CASE s = "stdout"
    <3>1. Err(seen') = Err(seen)
      BY <1>1, <1>3, <1>5, <2>2, HandleProjects
    <3>2. ToTell("stderr")' = ToTell("stderr")
      BY <1>11, <2>2 DEF Streams
    <3> QED BY <1>12, <2>0, <3>1, <3>2 DEF ErrComplete
  <2> QED BY <1>6, <2>1, <2>2
<1>16. outcome = "none"
  BY <1>5 DEF RunnerInv, RunTyped
<1>17. RunDrains' /\ Returned'
  BY <1>5, <1>16 DEF RunDrains, Returned
<1> QED BY <1>9, <1>14, <1>15, <1>17 DEF RunnerInv

LEMMA FlushStep == RunnerInv /\ Flush => RunnerInv'
<1> SUFFICES ASSUME RunnerInv, Flush PROVE RunnerInv'
  OBVIOUS
<1> DEFINE p == partial["stdout"]
           q == partial["stderr"]
           mid == Handle("stdout", seen, <<p>>)
<1>1. /\ seen \in Acc /\ p \in Line /\ q \in Line /\ Clean(p) /\ Clean(q)
      /\ unwritten = [s \in Streams |-> <<>>] /\ outcome = "none"
  BY DEF RunnerInv, RunTyped, RunDrains, Drained, Streams, Flush
<1>2. /\ run = "flush" /\ run' = "check" /\ outcome' = outcome /\ script' = script /\ result' = result
      /\ unwritten' = unwritten /\ partial' = [s \in Streams |-> <<>>]
      /\ seen' = Handle("stderr", mid, <<q>>)
  BY DEF Flush
<1>3. unwritten["stdout"] = <<>> /\ unwritten["stderr"] = <<>>
  BY <1>1 DEF Streams
<1> HIDE DEF p, q
<1>4. ToTell("stdout") = <<p>> /\ ToTell("stderr") = <<q>>
  BY <1>1, <1>3, FlushTellsAll DEF ToTell, p, q
<1>5. <<p>> \in Seq(Line) /\ <<q>> \in Seq(Line)
  BY <1>1
<1>6. mid \in Acc /\ Out(mid) = OutFold(Out(seen), <<p>>) /\ Err(mid) = Err(seen)
  BY <1>1, <1>5, HandleProjects
<1> HIDE DEF mid
<1>7. seen' \in Acc /\ Out(seen') = Out(mid) /\ Err(seen') = ErrFold(Err(mid), <<q>>)
  BY <1>2, <1>5, <1>6, HandleProjects
<1>8. Out(seen') = OutAll /\ Err(seen') = ErrAll
  BY <1>2, <1>4, <1>6, <1>7 DEF RunnerInv, OutComplete, ErrComplete
<1>9. OutAll' = OutAll /\ ErrAll' = ErrAll
  BY <1>2 DEF OutAll, ErrAll
<1>10. ToTell("stdout")' = AllOf(<<>> \o <<>>) /\ ToTell("stderr")' = AllOf(<<>> \o <<>>)
  BY <1>1, <1>2 DEF ToTell, Streams
<1>11. Out(seen') \in OutType /\ Err(seen') \in ErrType
  BY <1>7, ProjectionsTyped
<1>12. OutComplete'
  BY <1>8, <1>9, <1>10, <1>11, EmptyTellsNothing DEF OutComplete
<1>13. ErrComplete'
  BY <1>8, <1>9, <1>10, <1>11, EmptyTellsNothing DEF ErrComplete
<1>14. RunTyped'
  <2>1. <<>> \in Line /\ DOMAIN <<>> = {}
    BY DEF Line
  <2>2. Clean(<<>>)
    BY <2>1 DEF Clean
  <2>3. partial' \in [Streams -> Line] /\ \A s \in Streams : Clean(partial'[s])
    BY <1>2, <2>1, <2>2
  <2> QED BY <1>1, <1>2, <1>7, <2>3 DEF RunnerInv, RunTyped
<1>15. RunDrains' /\ Returned'
  BY <1>1, <1>2 DEF RunDrains, Drained, Returned
<1> QED BY <1>12, <1>13, <1>14, <1>15 DEF RunnerInv
-----------------------------------------------------------------------------
(* The text of an error is unlike every line that the command writes.      *)
ErrorText == <<Atom("error", 0, 0)>>

LEMMA ErrorIsNoLine ==
    ASSUME NEW ls \in Seq(ErrLine)
    PROVE  /\ ErrScript(ls).lines \in Seq(Line)
           /\ ErrScript(ls).lines # <<>> =>
                /\ Last(ErrScript(ls).lines) \in Line
                /\ Last(ErrScript(ls).lines) # ErrorText
<1> DEFINE k == Keep(ls, OfKind(StderrKinds))
           ts == ErrTextsOf(k)
<1>1. Len(k) \in Nat /\ DOMAIN k = 1..Len(k) /\ \A i \in 1..Len(k) : k[i] \in ErrLine
  <2>1. k \in Seq(ErrLine)
    BY KeepLaws
  <2> HIDE DEF k
  <2> QED BY <2>1
<1> HIDE DEF k
<1>2. ASSUME NEW l \in ErrLine PROVE ErrText1(l) \in Line /\ ErrText1(l) # ErrorText
  <2>1. ErrText1(l) \in Line
    BY ErrLineRead, RedactTyped
  <2>2. CASE l.kind = "secret"
    <3>1. ErrText1(l) = <<Atom("redacted", 0, 0)>> /\ Atom("redacted", 0, 0) # Atom("error", 0, 0)
      BY <2>2 DEF ErrText1, Atom
    <3> HIDE DEF Atom
    <3>2. ErrText1(l)[1] # ErrorText[1]
      BY <3>1 DEF ErrorText
    <3> QED BY <2>1, <3>2
  <2>3. CASE l.kind # "secret"
    <3>1. l.kind # "blank"
      BY DEF ErrLine, StderrKinds
    <3>2. ErrText1(l) = <<Atom(l.kind, l.id, 1), Atom(l.kind, l.id, 2)>>
      BY <2>3, <3>1 DEF ErrText1, Spelling
    <3>3. Len(ErrText1(l)) = 2 /\ Len(ErrorText) = 1
      BY <3>2 DEF ErrorText
    <3> QED BY <2>1, <3>3
  <2> QED BY <2>2, <2>3
<1>3. ts = [i \in 1..Len(k) |-> ErrText1(k[i])]
  BY <1>1 DEF ErrTextsOf
<1>4. \A i \in 1..Len(k) : ts[i] \in Line /\ ts[i] # ErrorText
  BY <1>1, <1>2, <1>3
<1>5. ts \in Seq(Line) /\ Len(ts) = Len(k)
  <2>1. ts \in [1..Len(k) -> Line]
    BY <1>3, <1>4
  <2> HIDE DEF ts
  <2> QED BY <1>1, <2>1
<1>6. ErrScript(ls).lines = ts
  BY DEF ErrScript, k
<1> HIDE DEF ts
<1>7. ASSUME ts # <<>> PROVE Last(ts) \in Line /\ Last(ts) # ErrorText
  <2>1. Len(ts) \in 1..Len(k)
    BY <1>1, <1>5, <1>7
  <2> QED BY <1>4, <2>1 DEF Last
<1> QED BY <1>5, <1>6, <1>7

(* The error is told, and added to stderr unless it is its last line.      *)
LEMMA NoteErrorEffect ==
    ASSUME NEW acc \in Acc,
           acc.stderrLines # <<>> => Last(acc.stderrLines) \in Line /\ Last(acc.stderrLines) # ErrorText
    PROVE  LET text == ErrText(acc.stderrLines)
               own == script.errText # "lastLine" \/ acc.stderrLines = <<>>
           IN  /\ NoteError(acc) \in Acc /\ Out(NoteError(acc)) = Out(acc)
               /\ Err(NoteError(acc)).told = Append(Err(acc).told, [type |-> "stderr", raw |-> text])
               /\ [type |-> "stderr", raw |-> text] \in Event
               /\ NoteError(acc).stderrLines = acc.stderrLines \o (IF own THEN <<ErrorText>> ELSE <<>>)
<1> DEFINE text == ErrText(acc.stderrLines)
           own == script.errText # "lastLine" \/ acc.stderrLines = <<>>
           lines == IF acc.stderrLines = <<>> \/ Last(acc.stderrLines) # text
                    THEN Append(acc.stderrLines, text) ELSE acc.stderrLines
           noted == [acc EXCEPT !.stderrLines = lines]
<1>1. text \in Line /\ text = IF own THEN ErrorText ELSE Last(acc.stderrLines)
  <2>1. ErrorText \in Line
    BY AtomsTyped DEF ErrorText, Line
  <2> QED BY <2>1 DEF ErrText, ErrorText
<1>2. acc.stderrLines \in Seq(Line) /\ acc.events \in Seq(Event)
  BY DEF Acc
<1>3. lines = acc.stderrLines \o (IF own THEN <<ErrorText>> ELSE <<>>)
  <2>1. CASE own
    <3>1. lines = Append(acc.stderrLines, ErrorText)
      BY <1>1, <2>1
    <3>2. ErrorText \in Line
      BY <1>1, <2>1
    <3> HIDE DEF lines
    <3>3. acc.stderrLines \o <<ErrorText>> = Append(acc.stderrLines, ErrorText)
      <4> DEFINE s == acc.stderrLines
      <4>1. s \in Seq(Line)
        BY <1>2
      <4> HIDE DEF s
      <4>2. s \o <<ErrorText>> = Append(s, ErrorText)
        BY <3>2, <4>1
      <4> QED BY <4>2 DEF s
    <3> QED BY <2>1, <3>1, <3>3
  <2>2. CASE ~own
    BY <1>1, <1>2, <2>2
  <2> QED BY <2>1, <2>2
<1>4. lines \in Seq(Line)
  BY <1>1, <1>2
<1>5. NoteError(acc) = OnEvent(noted, "stderr", text)
  BY DEF NoteError
<1> HIDE DEF lines, text, own
<1>6. /\ noted \in Acc /\ noted.stderrLines = lines /\ noted.events = acc.events
      /\ noted.finalPayload = acc.finalPayload /\ noted.progressLast = acc.progressLast
  BY <1>4 DEF Acc
<1> DEFINE e == [type |-> "stderr", raw |-> text]
<1>7. e \in Event
  BY <1>1 DEF Event
<1> HIDE DEF noted
<1>8. /\ OnEvent(noted, "stderr", text) \in Acc
      /\ OnEvent(noted, "stderr", text) =
           [finalPayload |-> noted.finalPayload, progressLast |-> noted.progressLast,
            stderrLines |-> noted.stderrLines, events |-> Append(noted.events, e)]
  BY <1>1, <1>6, OnEventTyped
<1>9. /\ NoteError(acc) \in Acc
      /\ NoteError(acc).stderrLines = lines /\ NoteError(acc).events = Append(acc.events, e)
      /\ NoteError(acc).finalPayload = acc.finalPayload /\ NoteError(acc).progressLast = acc.progressLast
  BY <1>5, <1>6, <1>8
<1>10. /\ Keep(Append(acc.events, e), ErrEvents) = Append(Keep(acc.events, ErrEvents), e)
       /\ Keep(Append(acc.events, e), OutEvents) = Keep(acc.events, OutEvents)
  BY <1>1, <1>2, EventsApart
<1>11. Out(NoteError(acc)) = Out(acc)
  BY <1>9, <1>10 DEF Out
<1>12. Err(NoteError(acc)).told = Append(Err(acc).told, e)
  BY <1>9, <1>10 DEF Err
<1> QED BY <1>3, <1>7, <1>9, <1>11, <1>12 DEF text, own

LEMMA ReturnStep == RunnerInv /\ Return => RunnerInv'
<1> SUFFICES ASSUME RunnerInv, Return PROVE RunnerInv'
  OBVIOUS
<1>1. /\ seen \in Acc /\ script \in Scripts /\ outcome = "none" /\ run = "check"
      /\ unwritten = [s \in Streams |-> <<>>] /\ partial = [s \in Streams |-> <<>>]
      /\ run' = "returned" /\ script' = script /\ unwritten' = unwritten /\ partial' = partial
  BY DEF RunnerInv, RunTyped, RunDrains, Drained, Return
<1>2. ToTell("stdout") = AllOf(<<>> \o <<>>) /\ ToTell("stderr") = AllOf(<<>> \o <<>>)
  BY <1>1 DEF ToTell, Streams
<1>3. Out(seen) \in OutType /\ Err(seen) \in ErrType
  BY <1>1, ProjectionsTyped
<1>4. Out(seen) = OutAll /\ Err(seen) = ErrAll
  BY <1>1, <1>2, <1>3, EmptyTellsNothing DEF RunnerInv, OutComplete, ErrComplete
<1>5. OutAll' = OutAll /\ ErrAll' = ErrAll /\ ToTell("stdout")' = ToTell("stdout")
  BY <1>1 DEF OutAll, ErrAll, ToTell
<1>6. RunDrains' /\ ErrComplete'
  BY <1>1 DEF RunDrains, Drained, ErrComplete
<1>7. CASE ctxDone /\ outcome' = "ctxErr" /\ UNCHANGED <<seen, result>>
  <2>1. RunTyped'
    BY <1>1, <1>7 DEF RunnerInv, RunTyped
  <2>2. OutComplete'
    BY <1>5, <1>7 DEF RunnerInv, OutComplete
  <2>3. Returned'
    BY <1>4, <1>5, <1>7 DEF Returned
  <2> QED BY <1>6, <2>1, <2>2, <2>3 DEF RunnerInv
<1>8. CASE /\ outcome' = "result"
           /\ seen' = IF script.execErr = "nil" THEN seen ELSE NoteError(seen)
           /\ result' = [ExitCode |-> Code, FinalPayload |-> seen.finalPayload,
                         ProgressLast |-> seen.progressLast, Stderr |-> seen'.stderrLines]
  <2>1. /\ seen.stderrLines = ErrAll.lines /\ seen.finalPayload = OutAll.final
        /\ seen.progressLast = OutAll.progress
    BY <1>4 DEF Out, Err
  <2>2. /\ ErrAll.lines \in Seq(Line)
        /\ ErrAll.lines # <<>> => Last(ErrAll.lines) \in Line /\ Last(ErrAll.lines) # ErrorText
    BY <1>1, ScriptTyped, ErrorIsNoLine DEF ErrAll
  <2> DEFINE text == ErrText(seen.stderrLines)
             own == script.errText # "lastLine" \/ seen.stderrLines = <<>>
  <2>3. /\ NoteError(seen) \in Acc /\ Out(NoteError(seen)) = Out(seen)
        /\ Err(NoteError(seen)).told = Append(Err(seen).told, [type |-> "stderr", raw |-> text])
        /\ [type |-> "stderr", raw |-> text] \in Event
        /\ NoteError(seen).stderrLines = seen.stderrLines \o (IF own THEN <<ErrorText>> ELSE <<>>)
    BY <1>1, <2>1, <2>2, NoteErrorEffect
  <2> HIDE DEF text
  <2>4. seen' \in Acc /\ Out(seen') = Out(seen)
    BY <1>1, <1>8, <2>3
  <2>5. IsPrefix(ErrAll.told, Err(seen').told)
    <3>1. ErrAll.told \in Seq(Event)
      BY <1>3, <1>4 DEF ErrType
    <3>2. IsPrefix(ErrAll.told, ErrAll.told)
      BY <3>1, PrefixItself
    <3>3. IsPrefix(ErrAll.told, Append(ErrAll.told, [type |-> "stderr", raw |-> text]))
      BY <2>3, <3>1, <3>2, PrefixGrows
    <3> QED BY <1>4, <1>8, <2>3, <3>2, <3>3
  <2>6. /\ result'.FinalPayload = OutAll.final /\ result'.ProgressLast = OutAll.progress
        /\ result'.ExitCode = Code /\ result'.Stderr = seen'.stderrLines
    BY <1>8, <2>1
  <2>7. (Code = 0) = (script.execErr = "nil")
    <3>1. script.execErr \in {"nil", "Error", "other"}
      BY <1>1 DEF Scripts
    <3> QED BY <3>1 DEF Code
  <2>8. seen'.stderrLines = ErrAll.lines \o (IF OwnError THEN <<ErrorText>> ELSE <<>>)
    <3>1. CASE script.execErr = "nil"
      <4>1. ErrAll.lines \o <<>> = ErrAll.lines
        BY <2>2
      <4> QED BY <1>8, <2>1, <3>1, <4>1 DEF OwnError
    <3>2. CASE script.execErr # "nil"
      <4>1. script.errText \in {"lastLine", "ownText"}
        BY <1>1 DEF Scripts
      <4>2. own <=> OwnError
        BY <2>1, <3>2, <4>1 DEF OwnError
      <4> HIDE DEF own
      <4> QED BY <1>8, <2>1, <2>3, <3>2, <4>2
    <3> QED BY <3>1, <3>2
  <2>9. OwnError' = OwnError
    BY <1>1, <1>5 DEF OwnError
  <2>10. Returned'
    <3>1. script'.execErr = script.execErr
      BY <1>1
    <3> QED BY <1>5, <1>8, <2>5, <2>6, <2>7, <2>8, <2>9, <3>1 DEF Returned, ErrorText
  <2>11. OutComplete'
    BY <1>5, <2>4 DEF RunnerInv, OutComplete
  <2>12. RunTyped'
    BY <1>1, <1>8, <2>4 DEF RunnerInv, RunTyped
  <2> QED BY <1>6, <2>10, <2>11, <2>12 DEF RunnerInv
<1> QED BY <1>7, <1>8 DEF Return

LEMMA RunnerInvNext == RunnerInv /\ [RunnerNext]_runnerVars => RunnerInv'
<1> SUFFICES ASSUME RunnerInv, [RunnerNext]_runnerVars PROVE RunnerInv'
  OBVIOUS
<1>0. RunTyped /\ RunDrains /\ Returned
  BY DEF RunnerInv
<1>1. CASE Start
  <2>1. outcome = "none" /\ (outcome' = "none" \/ outcome' = "usage") /\ run' \in {"command", "returned"}
    BY <1>0, <1>1 DEF Start, RunTyped
  <2>2. RunDrains' /\ Returned'
    BY <2>1 DEF RunDrains, Returned
  <2>3. (outcome' # "none") <=> (run' = "returned")
    BY <1>1, <2>1 DEF Start
  <2>4. UNCHANGED <<script, unwritten, partial, seen, result>> /\ run # "returned"
    BY <1>1 DEF Start
  <2> QED BY <2>1, <2>2, <2>3, <2>4, QuietStep
<1>2. CASE ExecuteContext
  <2>1. outcome = "none" /\ outcome' = "none" /\ run' = "flush" /\ run = "command"
        /\ UNCHANGED <<script, unwritten, partial, seen, result>>
    BY <1>0, <1>2 DEF ExecuteContext, RunTyped
  <2>2. Drained(unwritten')
    <3>1. unwritten = [s \in Streams |-> unwritten[s]] /\ \A s \in Streams : unwritten[s] = <<>>
      BY <1>0, <1>2 DEF ExecuteContext, RunTyped
    <3>2. unwritten = [s \in Streams |-> <<>>]
      BY <3>1
    <3> QED BY <2>1, <3>2 DEF Drained
  <2>3. RunDrains' /\ Returned'
    BY <2>1, <2>2 DEF RunDrains, Returned
  <2> QED BY <2>1, <2>3, QuietStep
<1>3. CASE CtxEnds
  <2>1. UNCHANGED <<script, unwritten, partial, seen, result, run, outcome>>
    BY <1>3 DEF CtxEnds
  <2>2. RunDrains' /\ Returned'
    BY <1>0, <2>1 DEF RunDrains, Drained, Returned, OutAll, ErrAll, OwnError
  <2> QED BY <1>0, <2>1, <2>2, QuietStep DEF RunTyped
<1>4. CASE UNCHANGED runnerVars
  <2>1. UNCHANGED <<script, unwritten, partial, seen, result, run, outcome>>
    BY <1>4 DEF runnerVars
  <2>2. RunDrains' /\ Returned'
    BY <1>0, <2>1 DEF RunDrains, Drained, Returned, OutAll, ErrAll, OwnError
  <2> QED BY <1>0, <2>1, <2>2, QuietStep DEF RunTyped
<1>5. CASE \E s \in Streams : \E n \in 1..Len(unwritten[s]) : Write(s, n)
  BY <1>5, WriteStep
<1> QED BY <1>1, <1>2, <1>3, <1>4, <1>5, FlushStep, ReturnStep DEF RunnerNext
-----------------------------------------------------------------------------
LEMMA RunnerInvHolds == RunnerSpec => []RunnerInv
<1> QED BY RunnerInvInit, RunnerInvNext, PTL DEF RunnerSpec

(* The properties speak of what the folds say.                             *)
LEMMA ToldIs ==
    /\ Told(StdoutTypes) = Out(seen).told /\ Told({"stderr"}) = Err(seen).told
    /\ StdoutEvents = OutAll.told /\ StderrTexts = ErrAll.lines /\ StderrEvents = ErrAll.told
    /\ Payload(OfKinds(script.stdout, {"object"})) = OutAll.final
    /\ Payload(OfKinds(script.stdout, {"progress"})) = OutAll.progress
<1>1. Told(StdoutTypes) = Out(seen).told /\ Told({"stderr"}) = Err(seen).told
  BY DEF Told, Out, Err, OutEvents, ErrEvents
<1>2. \A kinds, wanted : OfKinds(kinds, wanted) = Keep(LinesOf(kinds), OfKind(wanted))
  BY DEF OfKinds, OfKind
<1>3. StdoutEvents = OutAll.told
  BY <1>2 DEF StdoutEvents, OutAll, OutScript, OutEventsOf, OutEvent, TypeOf
<1>4. StderrTexts = ErrAll.lines
  BY <1>2 DEF StderrTexts, ErrAll, ErrScript, ErrTextsOf, ErrText1
<1>5. StderrEvents = ErrAll.told
  <2>1. ErrAll.told = ErrEventsOf(ErrAll.lines)
    BY DEF ErrAll, ErrScript
  <2> QED BY <1>4, <2>1 DEF StderrEvents, ErrEventsOf, ErrEvent
<1>6. /\ Payload(OfKinds(script.stdout, {"object"})) = OutAll.final
      /\ Payload(OfKinds(script.stdout, {"progress"})) = OutAll.progress
  BY <1>2 DEF OutAll, OutScript
<1> QED BY <1>1, <1>3, <1>4, <1>5, <1>6

LEMMA ToTellTyped == RunTyped => \A s \in Streams : ToTell(s) \in Seq(Line)
<1>1. ASSUME RunTyped, NEW s \in Streams PROVE ToTell(s) \in Seq(Line)
  <2>1. partial[s] \in Line /\ unwritten[s] \in Line
    BY <1>1 DEF RunTyped
  <2>2. partial[s] \o unwritten[s] \in Line
    BY <2>1 DEF Line
  <2> QED BY <2>2, AllOfTyped DEF ToTell
<1> QED BY <1>1

(* Run answers exactly when it has returned, and no newline is ever kept   *)
(* back with an unfinished line (runner.go:203-222).                       *)
THEOREM RunnerTyped == RunnerSpec => []RunnerTypeOK
<1>1. RunnerInv => RunnerTypeOK
  <2> SUFFICES ASSUME RunnerInv PROVE RunnerTypeOK
    OBVIOUS
  <2>1. RunTyped
    BY DEF RunnerInv
  <2>2. (outcome # "none") = (run = "returned")
    BY <2>1, Zenon DEF RunTyped
  <2>3. \A s \in Streams : \A i \in DOMAIN partial[s] : partial[s][i] # Newline
    BY <2>1 DEF RunTyped, Clean
  <2> QED BY <2>1, <2>2, <2>3 DEF RunTyped, RunnerTypeOK
<1> QED BY <1>1, RunnerInvHolds, PTL

(* However long the output is and however it is cut into writes, what the  *)
(* callback has been told of a stream is a prefix of its lines             *)
(* (runner.go:203-239).                                                    *)
THEOREM EventsAlwaysTheLines == RunnerSpec => []EventsAreTheLines
<1>1. RunnerInv => EventsAreTheLines
  <2> SUFFICES ASSUME RunnerInv PROVE EventsAreTheLines
    OBVIOUS
  <2>1. RunTyped /\ OutComplete /\ ErrComplete
    BY DEF RunnerInv
  <2>2. Out(seen) \in OutType /\ Err(seen) \in ErrType
    BY <2>1, ProjectionsTyped DEF RunTyped
  <2>3. ToTell("stdout") \in Seq(Line) /\ ToTell("stderr") \in Seq(Line)
    BY <2>1, ToTellTyped DEF Streams
  <2>4. IsPrefix(Out(seen).told, OutAll.told)
    BY <2>1, <2>2, <2>3, OutGrows DEF OutComplete
  <2>5. run # "returned" => IsPrefix(Err(seen).told, ErrAll.told)
    BY <2>1, <2>2, <2>3, ErrGrows DEF ErrComplete
  <2> QED BY <2>4, <2>5, ToldIs DEF EventsAreTheLines
<1> QED BY <1>1, RunnerInvHolds, PTL

(* A run that has returned what the command said, or that its context has  *)
(* ended, has told every line (runner.go:123-129).                         *)
THEOREM NothingEverUntold == RunnerSpec => []NothingIsUntold
<1>1. RunnerInv => NothingIsUntold
  <2> SUFFICES ASSUME RunnerInv, outcome \in {"ctxErr", "result"}
               PROVE  Out(seen).told = OutAll.told /\ IsPrefix(ErrAll.told, Err(seen).told)
    BY ToldIs DEF NothingIsUntold
  <2>1. RunTyped /\ RunDrains /\ OutComplete /\ Returned
    BY DEF RunnerInv
  <2>2. Out(seen) \in OutType /\ Err(seen) \in ErrType
    BY <2>1, ProjectionsTyped DEF RunTyped
  <2>3. unwritten = [s \in Streams |-> <<>>] /\ partial = [s \in Streams |-> <<>>]
    BY <2>1 DEF RunDrains, Drained
  <2>4. ToTell("stdout") = AllOf(<<>> \o <<>>)
    BY <2>3 DEF ToTell, Streams
  <2>5. Out(seen) = OutAll
    BY <2>1, <2>2, <2>4, EmptyTellsNothing DEF OutComplete
  <2>6. IsPrefix(ErrAll.told, Err(seen).told)
    <3>1. CASE outcome = "result"
      BY <2>1, <3>1 DEF Returned
    <3>2. CASE outcome = "ctxErr"
      <4>1. Err(seen) = ErrAll /\ Err(seen).told \in Seq(Event)
        BY <2>1, <2>2, <3>2 DEF Returned, ErrType
      <4> QED BY <4>1, PrefixItself
    <3> QED BY <3>1, <3>2
  <2> QED BY <2>5, <2>6
<1> QED BY <1>1, RunnerInvHolds, PTL

(* A result is the whole output's: its last object, its latest progress,   *)
(* its exit code and its stderr with the error once (types.go:50-59).      *)
THEOREM ResultAlwaysTheOutput == RunnerSpec => []ResultIsTheOutput
<1>1. RunnerInv => ResultIsTheOutput
  <2> SUFFICES ASSUME RunnerInv, outcome = "result"
               PROVE  /\ result.FinalPayload = OutAll.final /\ result.ProgressLast = OutAll.progress
                      /\ (result.ExitCode = 0) = (script.execErr = "nil")
                      /\ result.Stderr = ErrAll.lines \o (IF OwnError THEN << <<Atom("error", 0, 0)>> >> ELSE <<>>)
    BY ToldIs DEF ResultIsTheOutput, OwnError
  <2>1. Returned
    BY DEF RunnerInv
  <2> QED BY <2>1, Zenon DEF Returned
<1> QED BY <1>1, RunnerInvHolds, PTL
=============================================================================
