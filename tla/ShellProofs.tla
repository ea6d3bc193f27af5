------------------------------ MODULE ShellProofs ------------------------------
(***************************************************************************)
(* Proofs about Console, Storage and Shell, for every size of the screen,  *)
(* every archive, any words and any number of keys.                        *)
(*                                                                         *)
(* From below: the screen with its cursor (Screens); the sequences that    *)
(* FlattenSeq joins (LaidOut), which the archive is made of; the walk over *)
(* its headers and what ls and view get from it (Mounted, Shows); strtok   *)
(* and the words of a line (Scanned, FoundAt, Understood).  Then the       *)
(* invariant Inv and the theorems of Spec.                                 *)
(***************************************************************************)
EXTENDS Shell, Recursion, SequenceTheorems, FiniteSetTheorems

-----------------------------------------------------------------------------
(* The screen.                                                             *)
Screens(C) == [x : 0 .. VGA_WIDTH - 1, y : 0 .. VGA_HEIGHT - 1, row : [0 .. VGA_WIDTH - 1 -> C]]

LEMMA Sizes ==
    /\ VGA_WIDTH \in Nat /\ VGA_WIDTH > 2 /\ VGA_HEIGHT \in Nat /\ VGA_HEIGHT > 0
    /\ VGA_WIDTH < Unsigned /\ Unsigned = 65536
    /\ TAR_BLOCKSIZE \in Nat /\ TAR_BLOCKSIZE > 0
    /\ MaxKeys \in Nat /\ MaxKeys > 0
BY ConsoleAssumption, StorageAssumption, ShellAssumption DEF Unsigned

LEMMA ClearedIs ==
    ASSUME NEW C, Blank \in C
    PROVE  Cleared \in Screens(C)
BY Sizes DEF Cleared, BlankRow, Screens

LEMMA NextRowIs ==
    ASSUME NEW C, Blank \in C, NEW s, s.y \in 0 .. VGA_HEIGHT - 1
    PROVE  NextRow(s) \in Screens(C)
<1>1. Scrolled(s.y + 1) \in 0 .. VGA_HEIGHT - 1
  BY Sizes DEF Scrolled
<1>2. BlankRow \in [0 .. VGA_WIDTH - 1 -> C]
  BY DEF BlankRow
<1> QED
  BY <1>1, <1>2, Sizes DEF NextRow, Screens

(* A character that is written, in a column that is not the last.          *)
Ordinary(c) == c \notin {Backspace, Tab, Newline}

LEMMA WrittenIs ==
    ASSUME NEW C, NEW s \in Screens(C), NEW c \in C, Ordinary(c)
    PROVE  /\ Moved(s, c).x = s.x + 1 /\ Moved(s, c).y = s.y
           /\ Moved(s, c).row = [s.row EXCEPT ![s.x] = c]
           /\ s.x + 1 < VGA_WIDTH => PutChar(s, c) \in Screens(C) /\ PutChar(s, c) = Moved(s, c)
<1>1. Moved(s, c) = [s EXCEPT !.x = @ + 1, !.row[s.x] = c]
  BY DEF Ordinary, Moved
<1>2. s = [x |-> s.x, y |-> s.y, row |-> s.row]
  BY DEF Screens
<1>3. /\ Moved(s, c).x = s.x + 1 /\ Moved(s, c).y = s.y
      /\ Moved(s, c).row = [s.row EXCEPT ![s.x] = c]
  BY <1>1, <1>2
<1>4. Moved(s, c) = [x |-> s.x + 1, y |-> s.y, row |-> [s.row EXCEPT ![s.x] = c]]
  BY <1>1, <1>2
<1>5. ASSUME s.x + 1 < VGA_WIDTH PROVE PutChar(s, c) \in Screens(C) /\ PutChar(s, c) = Moved(s, c)
  <2>1. s.x + 1 \in 0 .. VGA_WIDTH - 1
    BY <1>5, Sizes DEF Screens
  <2>2. [s.row EXCEPT ![s.x] = c] \in [0 .. VGA_WIDTH - 1 -> C]
    BY DEF Screens
  <2>3. Moved(s, c) \in Screens(C)
    BY <1>4, <2>1, <2>2 DEF Screens
  <2>4. PutChar(s, c) = Moved(s, c)
    BY <1>3, <2>1, Sizes DEF PutChar, Wrapped
  <2> QED
    BY <2>3, <2>4
<1> QED
  BY <1>3, <1>5

(* Whatever is written, cursor and row stay on the screen.                 *)
LEMMA PutCharIs ==
    ASSUME NEW C, Blank \in C, NEW s \in Screens(C), NEW c \in C
    PROVE  PutChar(s, c) \in Screens(C)
<1>1. /\ s = [x |-> s.x, y |-> s.y, row |-> s.row] /\ s.x \in 0 .. VGA_WIDTH - 1
      /\ s.y \in 0 .. VGA_HEIGHT - 1 /\ s.row \in [0 .. VGA_WIDTH - 1 -> C]
  BY DEF Screens
<1>2. CASE Ordinary(c)
  <2>1. CASE s.x + 1 < VGA_WIDTH
    BY <1>2, <2>1, WrittenIs
  <2>2. CASE ~(s.x + 1 < VGA_WIDTH)
    <3>1. Moved(s, c).x = s.x + 1 /\ Moved(s, c).y = s.y
      BY <1>1, <1>2 DEF Moved, Ordinary
    <3>2. PutChar(s, c) = NextRow(Moved(s, c))
      BY <1>1, <2>2, <3>1, Sizes DEF PutChar, Wrapped
    <3> QED
      BY <1>1, <3>1, <3>2, NextRowIs
  <2> QED
    BY <2>1, <2>2
<1>3. CASE c = Newline
  <2>1. Moved(s, c) = NextRow(s)
    BY <1>3 DEF Moved, Newline, Backspace, Tab
  <2>2. NextRow(s) \in Screens(C)
    BY <1>1, NextRowIs
  <2>3. NextRow(s).x = 0
    BY DEF NextRow
  <2>4. PutChar(s, c) = NextRow(s)
    BY <2>1, <2>3, Sizes DEF PutChar, Wrapped
  <2> QED
    BY <2>2, <2>4
<1>4. ASSUME NEW x \in Nat, Moved(s, c) = [s EXCEPT !.x = x]
      PROVE  PutChar(s, c) \in Screens(C)
  <2>1. Moved(s, c) = [x |-> x, y |-> s.y, row |-> s.row]
    BY <1>1, <1>4
  <2>2. CASE x < VGA_WIDTH
    <3>1. PutChar(s, c) = Moved(s, c)
      BY <2>1, <2>2, Sizes DEF PutChar, Wrapped
    <3>2. x \in 0 .. VGA_WIDTH - 1
      BY <2>2, Sizes
    <3> QED
      BY <1>1, <2>1, <3>1, <3>2 DEF Screens
  <2>3. CASE ~(x < VGA_WIDTH)
    <3>1. PutChar(s, c) = NextRow(Moved(s, c)) /\ Moved(s, c).y = s.y
      BY <2>1, <2>3, Sizes DEF PutChar, Wrapped
    <3> QED
      BY <1>1, <3>1, NextRowIs
  <2> QED
    BY <2>2, <2>3
<1>5. CASE c = Tab
  <2>1. Moved(s, c) = [s EXCEPT !.x = s.x + 8]
    BY <1>5 DEF Moved, Newline, Backspace, Tab
  <2>2. s.x + 8 \in Nat
    BY <1>1
  <2> QED
    BY <1>4, <2>1, <2>2
<1>6. CASE c = Backspace
  <2>1. Moved(s, c) = [s EXCEPT !.x = Left(s.x)]
    BY <1>6 DEF Moved, Newline, Backspace, Tab
  <2>2. Left(s.x) \in Nat
    BY <1>1, Sizes DEF Left
  <2> QED
    BY <1>4, <2>1, <2>2
<1> QED
  BY <1>2, <1>3, <1>5, <1>6 DEF Ordinary

LEMMA PutStrIs ==
    ASSUME NEW C, Blank \in C, NEW s \in Screens(C), NEW text, Len(text) \in Nat,
           \A i \in 1 .. Len(text) : text[i] \in C
    PROVE  \E h \in [0 .. Len(text) -> Screens(C)] :
              /\ h[0] = s /\ PutStr(s, text) = h[Len(text)]
              /\ \A i \in 1 .. Len(text) : h[i] = PutChar(h[i - 1], text[i])
<1> DEFINE n == Len(text)
           X == Screens(C)
           G == [z \in X \X (1 .. n) |-> PutChar(z[1], text[z[2]])]
           Put(h) == h = [i \in 0 .. n |-> IF i = 0 THEN s ELSE PutChar(h[i - 1], text[i])]
           p == CHOOSE h : Put(h)
<1>1. G \in [X \X (1 .. n) -> X]
  BY PutCharIs
<1>2. PICK h \in [0 .. n -> X] : IsRun(h, n, s, G)
  <2> HIDE DEF G, n, X
  <2> QED
    BY <1>1, RunExists DEF n, X
<1>3. ASSUME NEW i \in 1 .. n PROVE h[i] = PutChar(h[i - 1], text[i])
  <2>1. i - 1 \in 0 .. n /\ i \in 0 .. n /\ i # 0
    OBVIOUS
  <2>2. h[i - 1] \in X
    BY <1>2, <2>1
  <2>3. G[<<h[i - 1], i>>] = PutChar(h[i - 1], text[i])
    BY <2>2
  <2>4. h[i] = G[<<h[i - 1], i>>]
    <3> HIDE DEF G, X
    <3> QED
      BY <1>2, <2>1 DEF IsRun
  <2> QED
    BY <2>3, <2>4
<1>4. h[0] = s
  <2>1. 0 \in 0 .. n
    OBVIOUS
  <2> HIDE DEF G, X
  <2> QED
    BY <1>2, <2>1 DEF IsRun
<1>5. h = [i \in 0 .. n |-> h[i]]
  BY <1>2
<1>6. Put(h)
  <2>1. \A i \in 0 .. n : h[i] = IF i = 0 THEN s ELSE PutChar(h[i - 1], text[i])
    BY <1>3, <1>4
  <2> HIDE DEF X, G
  <2> QED
    BY <1>5, <2>1
<1>7. Put(p)
  <2> HIDE DEF Put
  <2> QED
    BY <1>6
<1>8. PutStr(s, text) = p[n]
  BY DEF PutStr
<1>9. p[0] = s /\ \A i \in 1 .. n : p[i] = PutChar(p[i - 1], text[i])
  <2> HIDE DEF p
  <2> QED
    BY <1>7
<1> DEFINE S == {i \in 0 .. n : p[i] = h[i]}
<1>10. 0 .. n \subseteq S
  <2>1. 0 \in S
    BY <1>4, <1>9
  <2>2. \A i \in 1 .. n : i - 1 \in S => i \in S
    <3> HIDE DEF p, X, G
    <3> QED
      BY <1>3, <1>9
  <2> HIDE DEF S, n
  <2> QED
    BY <2>1, <2>2, UpTo DEF n
<1>11. p[n] = h[n]
  <2>1. n \in 0 .. n
    OBVIOUS
  <2> HIDE DEF p, n
  <2> QED
    BY <1>10, <2>1
<1> QED
  BY <1>2, <1>3, <1>4, <1>8, <1>11

LEMMA PutOne ==
    ASSUME NEW C, Blank \in C, NEW s \in Screens(C), NEW c \in C
    PROVE  PutStr(s, <<c>>) = PutChar(s, c)
<1> DEFINE text == <<c>>
<1>1. Len(text) = 1 /\ text[1] = c
  OBVIOUS
<1>2. Len(text) \in Nat /\ \A i \in 1 .. Len(text) : text[i] \in C
  BY <1>1
<1> HIDE DEF text
<1>3. PICK h \in [0 .. Len(text) -> Screens(C)] :
         /\ h[0] = s /\ PutStr(s, text) = h[Len(text)]
         /\ \A i \in 1 .. Len(text) : h[i] = PutChar(h[i - 1], text[i])
  BY <1>2, PutStrIs
<1>4. h[1] = PutChar(h[0], text[1])
  BY <1>1, <1>3
<1> QED
  BY <1>1, <1>3, <1>4 DEF text

LEMMA PutThree ==
    ASSUME NEW C, Blank \in C, NEW s \in Screens(C), NEW c \in C, NEW d \in C, NEW e \in C
    PROVE  PutStr(s, <<c, d, e>>) = PutChar(PutChar(PutChar(s, c), d), e)
<1> DEFINE text == <<c, d, e>>
<1>1. Len(text) = 3 /\ text[1] = c /\ text[2] = d /\ text[3] = e
  OBVIOUS
<1>2. Len(text) \in Nat /\ \A i \in 1 .. Len(text) : text[i] \in C
  BY <1>1
<1> HIDE DEF text
<1>3. PICK h \in [0 .. Len(text) -> Screens(C)] :
         /\ h[0] = s /\ PutStr(s, text) = h[Len(text)]
         /\ \A i \in 1 .. Len(text) : h[i] = PutChar(h[i - 1], text[i])
  BY <1>2, PutStrIs
<1>4. h[1] = PutChar(h[0], text[1]) /\ h[2] = PutChar(h[1], text[2]) /\ h[3] = PutChar(h[2], text[3])
  BY <1>1, <1>3
<1> QED
  BY <1>1, <1>3, <1>4 DEF text

LEMMA Updated ==
    ASSUME NEW S, NEW C, NEW f \in [S -> C], NEW i \in S, NEW c
    PROVE  /\ [f EXCEPT ![i] = c][i] = c
           /\ \A j \in S : j # i => [f EXCEPT ![i] = c][j] = f[j]
OBVIOUS

(* The prompt stands at the start of a row, the cursor behind it.          *)
LEMMA PromptIs ==
    ASSUME NEW C, {Blank, Newline, ">"} \subseteq C, NEW s \in Screens(C)
    PROVE  LET r == PutStr(s, <<Newline, ">", Space>>)
           IN  r.x = 2 /\ r.row[0] = ">" /\ r.row[1] = Space
<1>1. Blank \in C /\ Newline \in C /\ ">" \in C /\ Space \in C
  BY DEF Blank, Space
<1> DEFINE t == PutChar(s, Newline)
           u == PutChar(t, ">")
           v == PutChar(u, Space)
<1>2. PutStr(s, <<Newline, ">", Space>>) = v
  BY <1>1, PutThree
<1>3. t \in Screens(C) /\ t.x = 0
  <2>1. Moved(s, Newline) = NextRow(s)
    BY DEF Moved, Newline, Backspace, Tab
  <2>2. NextRow(s).x = 0
    BY DEF NextRow
  <2>3. PutChar(s, Newline) = NextRow(s)
    BY <2>1, <2>2, Sizes DEF PutChar, Wrapped
  <2> QED
    BY <1>1, <2>2, <2>3, PutCharIs
<1>4. Ordinary(">") /\ Ordinary(Space)
  BY DEF Ordinary, Backspace, Tab, Newline, Space
<1> HIDE DEF t
<1>5. ASSUME NEW r \in Screens(C), NEW c \in C, Ordinary(c), r.x + 1 < VGA_WIDTH
      PROVE  /\ PutChar(r, c) \in Screens(C) /\ PutChar(r, c).x = r.x + 1
             /\ PutChar(r, c).row = [r.row EXCEPT ![r.x] = c]
  <2>1. /\ Moved(r, c).x = r.x + 1 /\ Moved(r, c).row = [r.row EXCEPT ![r.x] = c]
        /\ PutChar(r, c) \in Screens(C) /\ PutChar(r, c) = Moved(r, c)
    BY <1>5, WrittenIs
  <2> QED
    BY <2>1
<1>6. t.row \in [0 .. VGA_WIDTH - 1 -> C] /\ 0 \in 0 .. VGA_WIDTH - 1 /\ 1 \in 0 .. VGA_WIDTH - 1
  BY <1>3, Sizes DEF Screens
<1>7. u \in Screens(C) /\ u.x = 1 /\ u.row[0] = ">"
  <2>1. t.x + 1 < VGA_WIDTH
    BY <1>3, Sizes
  <2>2. u \in Screens(C) /\ u.x = t.x + 1 /\ u.row = [t.row EXCEPT ![t.x] = ">"]
    BY <1>1, <1>3, <1>4, <1>5, <2>1
  <2> HIDE DEF u
  <2>3. u.row = [t.row EXCEPT ![0] = ">"] /\ u.x = 1
    BY <1>3, <2>2
  <2> QED
    BY <1>6, <2>2, <2>3, Updated
<1> HIDE DEF u
<1>8. v.x = u.x + 1 /\ v.row = [u.row EXCEPT ![u.x] = Space]
  <2>1. u.x + 1 < VGA_WIDTH
    BY <1>7, Sizes
  <2> QED
    BY <1>1, <1>4, <1>5, <1>7, <2>1
<1>9. u.row \in [0 .. VGA_WIDTH - 1 -> C]
  BY <1>7 DEF Screens
<1> HIDE DEF v
<1>10. v.x = 2 /\ v.row[0] = ">" /\ v.row[1] = Space
  <2>1. v.x = 2 /\ v.row = [u.row EXCEPT ![1] = Space]
    BY <1>7, <1>8
  <2>2. v.row[1] = Space /\ v.row[0] = u.row[0]
    <3>1. [u.row EXCEPT ![1] = Space][1] = Space /\ \A j \in 0 .. VGA_WIDTH - 1 : j # 1 => [u.row EXCEPT ![1] = Space][j] = u.row[j]
      BY <1>6, <1>9, Updated
    <3>2. 0 # 1
      OBVIOUS
    <3> QED
      BY <1>6, <2>1, <3>1, <3>2
  <2> QED
    BY <1>7, <2>1, <2>2
<1> QED
  BY <1>2, <1>10

(* The invariant of the screen.                                            *)
OnScreen(s) == \E C : s \in Screens(C)

(* Its row holds some characters, and those to be written can be added.    *)
LEMMA Wider ==
    ASSUME NEW s, OnScreen(s), NEW E
    PROVE  \E D : s \in Screens(D) /\ Blank \in D /\ E \subseteq D
<1>1. PICK C : s \in Screens(C)
  BY DEF OnScreen
<1> DEFINE D == C \cup {Blank} \cup E
<1>2. s.row \in [0 .. VGA_WIDTH - 1 -> D]
  BY <1>1 DEF Screens
<1>3. s \in Screens(D)
  BY <1>1, <1>2 DEF Screens
<1>4. Blank \in D /\ E \subseteq D
  OBVIOUS
<1> QED
  BY <1>3, <1>4

LEMMA ScreenKept ==
    ASSUME NEW s, OnScreen(s), NEW text, Len(text) \in Nat
    PROVE  OnScreen(PutStr(s, text))
<1> DEFINE E == {text[i] : i \in 1 .. Len(text)}
<1>1. PICK D : s \in Screens(D) /\ Blank \in D /\ E \subseteq D
  <2> HIDE DEF E
  <2> QED
    BY Wider
<1>2. \A i \in 1 .. Len(text) : text[i] \in D
  BY <1>1
<1>3. PICK h \in [0 .. Len(text) -> Screens(D)] : PutStr(s, text) = h[Len(text)]
  BY <1>1, <1>2, PutStrIs
<1>4. h[Len(text)] \in Screens(D)
  BY <1>3
<1> QED
  BY <1>3, <1>4 DEF OnScreen

-----------------------------------------------------------------------------
(* FlattenSeq lays sequences out one behind the other: at[i] elements are  *)
(* those of the first i.                                                   *)
Sized(seqs) == Len(seqs) \in Nat /\ seqs = [i \in 1 .. Len(seqs) |-> seqs[i]]

LaidOut(seqs, F, at) ==
    /\ at \in [0 .. Len(seqs) -> Nat] /\ at[0] = 0
    /\ \A i \in 1 .. Len(seqs) : at[i] = at[i - 1] + Len(seqs[i]) /\ at[i] <= at[Len(seqs)]
    /\ Len(F) = at[Len(seqs)]
    /\ \A i \in 1 .. Len(seqs) : \A k \in 1 .. Len(seqs[i]) : F[at[i - 1] + k] = seqs[i][k]

LEMMA Concatenated ==
    ASSUME NEW S, NEW s \in Seq(S), NEW t \in Seq(S)
    PROVE  /\ s \o t \in Seq(S) /\ Len(s \o t) = Len(s) + Len(t)
           /\ \A k \in 1 .. Len(s) : (s \o t)[k] = s[k]
           /\ \A k \in 1 .. Len(t) : (s \o t)[Len(s) + k] = t[k]
<1>1. s \o t \in Seq(S) /\ Len(s \o t) = Len(s) + Len(t)
  OBVIOUS
<1>2. \A k \in 1 .. Len(s) : (s \o t)[k] = s[k]
  OBVIOUS
<1>3. ASSUME NEW k \in 1 .. Len(t) PROVE (s \o t)[Len(s) + k] = t[k]
  OBVIOUS
<1> QED
  BY <1>1, <1>2, <1>3

LEMMA FlattenRuns ==
    ASSUME NEW S, NEW seqs, Sized(seqs), \A i \in 1 .. Len(seqs) : seqs[i] \in Seq(S)
    PROVE  \E g \in [0 .. Len(seqs) -> Seq(S)] :
              /\ g[0] = <<>> /\ FlattenSeq(seqs) = g[Len(seqs)]
              /\ \A i \in 1 .. Len(seqs) : g[i] = g[i - 1] \o seqs[i]
<1> DEFINE n == Len(seqs)
           X == Seq(S)
           G == [z \in X \X (1 .. n) |-> z[1] \o seqs[z[2]]]
<1>0. n \in Nat /\ <<>> \in X
  BY DEF Sized
<1>1. G \in [X \X (1 .. n) -> X]
  BY Concatenated
<1>2. PICK g \in [0 .. n -> X] : IsRun(g, n, <<>>, G)
  <2> HIDE DEF G, n, X
  <2> QED
    BY <1>0, <1>1, RunExists
<1>3. ASSUME NEW i \in 1 .. n PROVE g[i] = g[i - 1] \o seqs[i]
  <2>1. i - 1 \in 0 .. n /\ i \in 0 .. n /\ i # 0
    BY <1>0
  <2>2. g[i - 1] \in X
    BY <1>2, <2>1
  <2>3. G[<<g[i - 1], i>>] = g[i - 1] \o seqs[i]
    BY <2>2
  <2>4. g[i] = G[<<g[i - 1], i>>]
    <3> HIDE DEF G, X, n
    <3> QED
      BY <1>2, <2>1 DEF IsRun
  <2> QED
    BY <2>3, <2>4
<1>4. g[0] = <<>>
  <2>1. 0 \in 0 .. n
    BY <1>0
  <2> HIDE DEF G, X, n
  <2> QED
    BY <1>2, <2>1 DEF IsRun
<1>5. FlattenSeq(seqs) = g[n]
  <2>1. CASE n = 0
    <3>1. seqs = <<>>
      BY <2>1 DEF Sized
    <3> QED
      BY <1>4, <2>1, <3>1 DEF FlattenSeq
  <2>2. CASE n # 0
    <3> DEFINE Flat(f) == f = [i \in 1 .. n |-> IF i = 1 THEN seqs[i] ELSE f[i - 1] \o seqs[i]]
               p == CHOOSE f : Flat(f)
               f0 == [i \in 1 .. n |-> g[i]]
    <3>1. g[1] = seqs[1]
      <4>1. 1 \in 1 .. n
        BY <1>0, <2>2
      <4>2. g[1] = g[1 - 1] \o seqs[1]
        BY <1>3, <4>1
      <4>5. 1 - 1 = 0
        OBVIOUS
      <4>3. seqs[1] \in Seq(S)
        BY <4>1
      <4>4. <<>> \o seqs[1] = seqs[1]
        BY <4>3
      <4> QED
        BY <1>4, <4>2, <4>4, <4>5
    <3>2. Flat(f0)
      <4>1. ASSUME NEW i \in 1 .. n PROVE f0[i] = IF i = 1 THEN seqs[i] ELSE f0[i - 1] \o seqs[i]
        <5>1. CASE i = 1
          BY <3>1, <5>1
        <5>2. CASE i # 1
          <6>1. i - 1 \in 1 .. n
            BY <1>0, <5>2
          <6>2. f0[i] = g[i] /\ f0[i - 1] = g[i - 1]
            BY <6>1
          <6> HIDE DEF f0
          <6> QED
            BY <1>3, <5>2, <6>2
        <5> QED
          BY <5>1, <5>2
      <4>2. f0 = [i \in 1 .. n |-> f0[i]]
        OBVIOUS
      <4> HIDE DEF f0, n
      <4> QED
        BY <4>1, <4>2
    <3>3. Flat(p)
      <4> HIDE DEF Flat, f0
      <4> QED
        BY <3>2
    <3>4. FlattenSeq(seqs) = p[n]
      BY <2>2 DEF FlattenSeq
    <3>5. \A i \in 1 .. n : p[i] = IF i = 1 THEN seqs[i] ELSE p[i - 1] \o seqs[i]
      <4> HIDE DEF p, n
      <4> QED
        BY <3>3
    <3> DEFINE A == {a \in 0 .. n : a = 0 \/ p[a] = g[a]}
    <3>9. \A b \in 0 .. n : b = 0 \/ p[b] = g[b] => b \in A
      <4> HIDE DEF p, n
      <4> QED
        OBVIOUS
    <3>6. 0 .. n \subseteq A
      <4>1. 0 \in A
        BY <1>0
      <4>2. ASSUME NEW i \in 1 .. n, i - 1 \in A PROVE i \in A
        <5>1. CASE i = 1
          <6>1. p[i] = seqs[i] /\ i \in 0 .. n
            <7>1. i \in 0 .. n
              BY <1>0
            <7> HIDE DEF p, n
            <7> QED
              BY <3>5, <5>1, <7>1
          <6>2. p[i] = g[i]
            BY <3>1, <5>1, <6>1
          <6> HIDE DEF p, n, A
          <6> QED
            BY <3>9, <6>1, <6>2
        <5>2. CASE i # 1
          <6>1. i - 1 # 0 /\ i \in 0 .. n
            BY <1>0, <5>2
          <6>2. p[i - 1] = g[i - 1]
            BY <4>2, <6>1
          <6>3. p[i] = p[i - 1] \o seqs[i]
            BY <3>5, <5>2
          <6>4. p[i] = g[i]
            BY <1>3, <6>2, <6>3
          <6> HIDE DEF p, n, A
          <6> QED
            BY <3>9, <6>1, <6>4
        <5> QED
          BY <5>1, <5>2
      <4> HIDE DEF A, n
      <4> QED
        BY <1>0, <4>1, <4>2, UpTo
    <3>7. p[n] = g[n]
      <4>1. n \in 0 .. n
        BY <1>0
      <4> HIDE DEF p, n
      <4> QED
        BY <2>2, <3>6, <4>1
    <3> QED
      BY <3>4, <3>7
  <2> QED
    BY <2>1, <2>2
<1> QED
  BY <1>2, <1>3, <1>4, <1>5

LEMMA Flattened ==
    ASSUME NEW S, NEW seqs, Sized(seqs), \A i \in 1 .. Len(seqs) : seqs[i] \in Seq(S)
    PROVE  FlattenSeq(seqs) \in Seq(S) /\ \E at : LaidOut(seqs, FlattenSeq(seqs), at)
<1> DEFINE n == Len(seqs)
<1>0. n \in Nat
  BY DEF Sized
<1>1. PICK g \in [0 .. n -> Seq(S)] :
         /\ g[0] = <<>> /\ FlattenSeq(seqs) = g[n]
         /\ \A i \in 1 .. n : g[i] = g[i - 1] \o seqs[i]
  BY FlattenRuns
<1> DEFINE at == [i \in 0 .. n |-> Len(g[i])]
           Shows(m, i) == /\ at[i] <= at[m]
                          /\ \A k \in 1 .. Len(seqs[i]) : g[m][at[i - 1] + k] = seqs[i][k]
           A == {m \in 0 .. n : \A i \in 1 .. m : Shows(m, i)}
<1>2. /\ \A i \in 0 .. n : g[i] \in Seq(S) /\ at[i] = Len(g[i]) /\ at[i] \in Nat
      /\ at[0] = 0 /\ at \in [0 .. n -> Nat]
  <2>1. ASSUME NEW i \in 0 .. n PROVE g[i] \in Seq(S) /\ at[i] = Len(g[i]) /\ at[i] \in Nat
    BY <1>1
  <2>2. at[0] = 0
    BY <1>0, <1>1
  <2> QED
    BY <2>1, <2>2
<1> HIDE DEF n, at
<1>3. ASSUME NEW i \in 1 .. n
      PROVE  /\ i - 1 \in 0 .. n /\ i \in 0 .. n
             /\ seqs[i] \in Seq(S) /\ Len(seqs[i]) \in Nat
             /\ at[i] = at[i - 1] + Len(seqs[i])
             /\ \A k \in 1 .. at[i - 1] : g[i][k] = g[i - 1][k]
             /\ \A k \in 1 .. Len(seqs[i]) : g[i][at[i - 1] + k] = seqs[i][k]
  <2>1. i - 1 \in 0 .. n /\ i \in 0 .. n
    BY <1>0
  <2>2. seqs[i] \in Seq(S) /\ Len(seqs[i]) \in Nat
    BY DEF n
  <2>3. g[i] = g[i - 1] \o seqs[i]
    BY <1>1
  <2>4. g[i - 1] \in Seq(S)
    BY <1>2, <2>1
  <2> DEFINE s == g[i - 1]
             t == seqs[i]
             u == g[i]
  <2>5. /\ Len(u) = Len(s) + Len(t)
        /\ \A k \in 1 .. Len(s) : u[k] = s[k]
        /\ \A k \in 1 .. Len(t) : u[Len(s) + k] = t[k]
    <3>1. s \in Seq(S) /\ t \in Seq(S) /\ u = s \o t
      BY <2>2, <2>3, <2>4
    <3> HIDE DEF s, t, u
    <3> QED
      BY <3>1, Concatenated
  <2>6. at[i] = Len(u) /\ at[i - 1] = Len(s)
    BY <1>2, <2>1
  <2> QED
    BY <2>1, <2>2, <2>5, <2>6
<1>4. 0 .. n \subseteq A
  <2>1. 0 \in A
    BY <1>0
  <2>2. ASSUME NEW m \in 1 .. n, m - 1 \in A PROVE m \in A
    <3>1. \A i \in 1 .. m - 1 : Shows(m - 1, i)
      BY <2>2
    <3>2. /\ m - 1 \in 0 .. n /\ m \in 0 .. n /\ at[m] = at[m - 1] + Len(seqs[m]) /\ Len(seqs[m]) \in Nat
          /\ at[m] \in Nat /\ at[m - 1] \in Nat
      BY <1>2, <1>3
    <3>3. ASSUME NEW i \in 1 .. m PROVE Shows(m, i)
      <4>1. CASE i = m
        <5>1. at[i] <= at[m]
          BY <3>2, <4>1
        <5>2. \A k \in 1 .. Len(seqs[i]) : g[m][at[i - 1] + k] = seqs[i][k]
          BY <1>3, <4>1
        <5> QED
          BY <5>1, <5>2
      <4>2. CASE i # m
        <5>1. i \in 1 .. m - 1 /\ i \in 1 .. n
          BY <1>0, <4>2
        <5>2. at[i] <= at[m - 1] /\ \A k \in 1 .. Len(seqs[i]) : g[m - 1][at[i - 1] + k] = seqs[i][k]
          BY <3>1, <5>1
        <5>3. /\ at[i] = at[i - 1] + Len(seqs[i]) /\ Len(seqs[i]) \in Nat
              /\ at[i] \in Nat /\ at[i - 1] \in Nat
          BY <1>2, <1>3, <5>1
        <5>4. at[i] <= at[m]
          BY <3>2, <5>2, <5>3
        <5>5. ASSUME NEW k \in 1 .. Len(seqs[i]) PROVE g[m][at[i - 1] + k] = seqs[i][k]
          <6>1. at[i - 1] + k \in 1 .. at[m - 1]
            <7>1. at[i] <= at[m - 1]
              BY <5>2
            <7>2. k \in Nat /\ k >= 1 /\ k <= Len(seqs[i])
              BY <5>3
            <7>3. ASSUME NEW a \in Nat, NEW b \in Nat, NEW c \in Nat, NEW l \in Nat, NEW j \in Nat,
                         b = a + l, b <= c, j >= 1, j <= l
                  PROVE  a + j \in 1 .. c
              BY <7>3
            <7> QED
              BY <3>2, <5>3, <7>1, <7>2, <7>3
          <6>2. g[m][at[i - 1] + k] = g[m - 1][at[i - 1] + k]
            BY <1>3, <6>1
          <6> QED
            BY <5>2, <6>2
        <5> QED
          BY <5>4, <5>5
      <4> QED
        BY <4>1, <4>2
    <3> HIDE DEF Shows
    <3> QED
      BY <3>2, <3>3
  <2> HIDE DEF A
  <2> QED
    BY <1>0, <2>1, <2>2, UpTo
<1>5. n \in 0 .. n
  BY <1>0
<1>6. \A i \in 1 .. n : Shows(n, i)
  <2>1. n \in A
    <3> HIDE DEF A
    <3> QED
      BY <1>4, <1>5
  <2> HIDE DEF Shows
  <2> QED
    BY <2>1
<1>7. FlattenSeq(seqs) \in Seq(S) /\ Len(FlattenSeq(seqs)) = at[n]
  BY <1>1, <1>2, <1>5
<1>8. \A i \in 1 .. n : at[i] = at[i - 1] + Len(seqs[i]) /\ at[i] <= at[n]
  BY <1>3, <1>6
<1>9. \A i \in 1 .. n : \A k \in 1 .. Len(seqs[i]) : FlattenSeq(seqs)[at[i - 1] + k] = seqs[i][k]
  BY <1>1, <1>6
<1>10. LaidOut(seqs, FlattenSeq(seqs), at)
  BY <1>2, <1>7, <1>8, <1>9 DEF LaidOut, n
<1> QED
  BY <1>7, <1>10

-----------------------------------------------------------------------------
(* The image of the ram disk.                                              *)
FileBlocks(file) == <<Header(file)>> \o TextBlocks(file.text)
BlocksOf(file) ==
    {Header(file)} \cup {TextBlocks(file.text)[b] : b \in 1 .. Blocks(Len(file.text))}

(* at[i] blocks hold the first i files.                                    *)
Stored(at) ==
    /\ at \in [0 .. Len(archive) -> Nat] /\ at[0] = 0
    /\ \A i \in 1 .. Len(archive) :
         /\ at[i] = at[i - 1] + 1 + Blocks(Len(archive[i].text))
         /\ Image[at[i - 1] + 1] = Header(archive[i])
         /\ \A b \in 1 .. Blocks(Len(archive[i].text)) :
              Image[at[i - 1] + 1 + b] = TextBlocks(archive[i].text)[b]
    /\ Image[at[Len(archive)] + 1] = Block(NULs(TAR_BLOCKSIZE), 0)
    /\ Len(Image) = at[Len(archive)] + 1

LEMMA ArchiveIs ==
    ASSUME NEW files \in Archives
    PROVE  /\ Len(files) \in Nat /\ DOMAIN files = 1 .. Len(files)
           /\ \A i \in 1 .. Len(files) :
                /\ files[i].filename # NUL /\ Len(files[i].text) \in Nat
                /\ DOMAIN files[i].text = 1 .. Len(files[i].text)
                /\ files[i].text \in Seq(ToSet(files[i].text))
<1>1. files \in Seq(ToSet(files)) /\ \A f \in DOMAIN files :
         files[f].filename # NUL /\ files[f].text \in Seq(ToSet(files[f].text))
  BY StorageAssumption
<1>2. Len(files) \in Nat /\ DOMAIN files = 1 .. Len(files)
  BY <1>1, LenProperties
<1>3. ASSUME NEW i \in 1 .. Len(files)
      PROVE  /\ files[i].filename # NUL /\ Len(files[i].text) \in Nat
             /\ DOMAIN files[i].text = 1 .. Len(files[i].text)
             /\ files[i].text \in Seq(ToSet(files[i].text))
  <2>1. files[i].filename # NUL /\ files[i].text \in Seq(ToSet(files[i].text))
    BY <1>1, <1>2
  <2> QED
    BY <2>1, LenProperties
<1> QED
  BY <1>2, <1>3

(* Whole blocks, as tar counts them and as the kernel does.                *)
LEMMA CeilDiv ==
    ASSUME NEW n \in Nat
    PROVE  /\ Blocks(n) \in Nat
           /\ n \div TAR_BLOCKSIZE + (IF n % TAR_BLOCKSIZE # 0 THEN 1 ELSE 0) = Blocks(n)
<1> DEFINE B == TAR_BLOCKSIZE
           q == n \div B
           r == n % B
<1>1. B \in Nat /\ B > 0
  BY Sizes
<1> HIDE DEF B
<1>2. q \in Nat /\ r \in 0 .. B - 1 /\ n = B * q + r
  BY <1>1
<1> HIDE DEF q, r
<1>3. (n + B - 1) \div B = q + (IF r # 0 THEN 1 ELSE 0)
  <2>1. CASE r = 0
    <3>1. n + B - 1 = B * q + (B - 1)
      BY <1>1, <1>2, <2>1
    <3> QED
      BY <1>1, <1>2, <2>1, <3>1
  <2>2. CASE r # 0
    <3>1. n + B - 1 = B * (q + 1) + (r - 1)
      BY <1>1, <1>2, <2>2
    <3> QED
      BY <1>1, <1>2, <2>2, <3>1
  <2> QED
    BY <2>1, <2>2
<1> QED
  BY <1>2, <1>3 DEF Blocks, B, q, r

LEMMA HeaderIs ==
    ASSUME NEW file
    PROVE  Header(file).bytes[1] = file.filename /\ Header(file).size = Len(file.text)
<1> DEFINE x == file.filename
           nuls == NULs(TAR_BLOCKSIZE - 1)
           S == {x, NUL}
<1>1. nuls \in Seq(S)
  BY Sizes, IsASeq DEF NULs
<1>2. <<x>> \in Seq(S) /\ Len(<<x>>) = 1 /\ <<x>>[1] = x
  OBVIOUS
<1> HIDE DEF nuls, S
<1>3. (<<x>> \o nuls)[1] = <<x>>[1]
  BY <1>1, <1>2, Concatenated
<1> QED
  BY <1>2, <1>3 DEF Header, Block, nuls

LEMMA FileBlocksIs ==
    ASSUME NEW file, Len(file.text) \in Nat
    PROVE  LET n == Blocks(Len(file.text))
           IN  /\ n \in Nat
               /\ FileBlocks(file) \in Seq(BlocksOf(file)) /\ Len(FileBlocks(file)) = n + 1
               /\ FileBlocks(file)[1] = Header(file)
               /\ \A b \in 1 .. n : FileBlocks(file)[1 + b] = TextBlocks(file.text)[b]
<1> DEFINE n == Blocks(Len(file.text))
           h == <<Header(file)>>
           t == TextBlocks(file.text)
           S == BlocksOf(file)
<1>1. n \in Nat
  BY CeilDiv
<1>2. t \in Seq(S) /\ Len(t) = n
  <2>1. Len(t) = n /\ t = [b \in 1 .. n |-> t[b]]
    BY <1>1 DEF TextBlocks
  <2>2. \A b \in 1 .. n : t[b] \in S
    BY DEF BlocksOf
  <2> HIDE DEF t, n, S
  <2>3. [b \in 1 .. n |-> t[b]] \in Seq(S)
    BY <1>1, <2>2
  <2> QED
    BY <2>1, <2>3
<1>3. h \in Seq(S) /\ Len(h) = 1 /\ h[1] = Header(file)
  BY DEF BlocksOf
<1> HIDE DEF t, h, n, S
<1>4. /\ h \o t \in Seq(S) /\ Len(h \o t) = 1 + n
      /\ (h \o t)[1] = h[1]
      /\ \A b \in 1 .. n : (h \o t)[1 + b] = t[b]
  <2>0. h \in Seq(S) /\ t \in Seq(S)
    BY <1>2, <1>3
  <2>1. /\ h \o t \in Seq(S) /\ Len(h \o t) = Len(h) + Len(t)
        /\ \A k \in 1 .. Len(h) : (h \o t)[k] = h[k]
        /\ \A k \in 1 .. Len(t) : (h \o t)[Len(h) + k] = t[k]
    BY ONLY <2>0, Concatenated
  <2>2. 1 \in 1 .. Len(h)
    BY <1>3
  <2> QED
    BY <1>2, <1>3, <2>1, <2>2
<1>5. FileBlocks(file) = h \o t
  BY DEF FileBlocks, h, t
<1> QED
  BY <1>1, <1>3, <1>4, <1>5 DEF n, S, t

LEMMA ImageIs ==
    ASSUME archive \in Archives
    PROVE  \E at : Stored(at)
<1> DEFINE n == Len(archive)
           seqs == [f \in DOMAIN archive |-> FileBlocks(archive[f])]
           end == Block(NULs(TAR_BLOCKSIZE), 0)
           U == UNION {BlocksOf(archive[f]) : f \in 1 .. n}
           S == U \cup {end}
           F == FlattenSeq(seqs)
           last == <<end>>
<1>1. n \in Nat /\ DOMAIN archive = 1 .. n
  BY ArchiveIs
<1>2. Image = F \o last
  BY DEF Image, Tar, FileBlocks
<1>3. Len(seqs) = n /\ Sized(seqs) /\ \A i \in 1 .. n : seqs[i] = FileBlocks(archive[i])
  <2>1. seqs = [i \in 1 .. n |-> FileBlocks(archive[i])]
    BY <1>1
  <2> HIDE DEF seqs, n
  <2>2. Len(seqs) = n
    BY <1>1, <2>1
  <2>3. \A i \in 1 .. n : seqs[i] = FileBlocks(archive[i])
    BY <2>1
  <2>4. seqs = [i \in 1 .. n |-> seqs[i]]
    BY <2>1
  <2> QED
    BY <1>1, <2>2, <2>3, <2>4 DEF Sized
<1>4. ASSUME NEW i \in 1 .. n
      PROVE  LET b == Blocks(Len(archive[i].text))
             IN  /\ seqs[i] \in Seq(S) /\ b \in Nat /\ Len(seqs[i]) = b + 1
                 /\ seqs[i][1] = Header(archive[i])
                 /\ \A k \in 1 .. b : seqs[i][1 + k] = TextBlocks(archive[i].text)[k]
  <2>1. Len(archive[i].text) \in Nat
    BY ArchiveIs
  <2> DEFINE f == archive[i]
  <2>2. /\ Blocks(Len(f.text)) \in Nat /\ FileBlocks(f) \in Seq(BlocksOf(f))
        /\ Len(FileBlocks(f)) = Blocks(Len(f.text)) + 1
        /\ FileBlocks(f)[1] = Header(f)
        /\ \A k \in 1 .. Blocks(Len(f.text)) : FileBlocks(f)[1 + k] = TextBlocks(f.text)[k]
    BY <2>1, FileBlocksIs
  <2>3. BlocksOf(f) \subseteq S
    <3>1. BlocksOf(f) \subseteq U
      OBVIOUS
    <3> HIDE DEF U
    <3> QED
      BY <3>1
  <2>4. FileBlocks(f) \in Seq(S)
    <3> HIDE DEF f, S
    <3> QED
      BY <2>2, <2>3, SeqMonotonic
  <2> QED
    BY <1>3, <2>2, <2>4
<1>5. last \in Seq(S) /\ Len(last) = 1 /\ last[1] = end
  <2> HIDE DEF end, U
  <2>1. end \in S
    OBVIOUS
  <2> HIDE DEF S
  <2> QED
    BY <2>1
<1> HIDE DEF n, seqs, S, last, end, U
<1>6. F \in Seq(S) /\ \E at : LaidOut(seqs, F, at)
  BY <1>3, <1>4, Flattened
<1> HIDE DEF F
<1>7. PICK at : LaidOut(seqs, F, at)
  BY <1>6
<1>8. /\ at \in [0 .. n -> Nat] /\ at[0] = 0 /\ Len(F) = at[n]
      /\ \A i \in 1 .. n : at[i] = at[i - 1] + Len(seqs[i]) /\ at[i] <= at[n]
      /\ \A i \in 1 .. n : \A k \in 1 .. Len(seqs[i]) : F[at[i - 1] + k] = seqs[i][k]
  BY <1>3, <1>7 DEF LaidOut
<1>9. n \in 0 .. n /\ at[n] \in Nat
  BY <1>1, <1>8
<1>10. /\ Len(Image) = at[n] + 1
       /\ \A k \in 1 .. at[n] : Image[k] = F[k]
       /\ Image[at[n] + 1] = last[1]
  <2>0. F \in Seq(S) /\ last \in Seq(S)
    BY <1>5, <1>6
  <2>1. /\ Len(F \o last) = Len(F) + Len(last)
        /\ \A k \in 1 .. Len(F) : (F \o last)[k] = F[k]
        /\ \A k \in 1 .. Len(last) : (F \o last)[Len(F) + k] = last[k]
    BY ONLY <2>0, Concatenated
  <2>2. 1 \in 1 .. Len(last)
    BY <1>5
  <2> QED
    BY <1>2, <1>5, <1>8, <2>1, <2>2
<1>11. ASSUME NEW i \in 1 .. n
       PROVE  /\ at[i] = at[i - 1] + 1 + Blocks(Len(archive[i].text))
              /\ Image[at[i - 1] + 1] = Header(archive[i])
              /\ \A b \in 1 .. Blocks(Len(archive[i].text)) :
                   Image[at[i - 1] + 1 + b] = TextBlocks(archive[i].text)[b]
  <2> DEFINE m == Blocks(Len(archive[i].text))
  <2>1. /\ m \in Nat /\ Len(seqs[i]) = m + 1 /\ seqs[i][1] = Header(archive[i])
        /\ \A k \in 1 .. m : seqs[i][1 + k] = TextBlocks(archive[i].text)[k]
    BY <1>4
  <2> HIDE DEF m
  <2>2. /\ i - 1 \in 0 .. n /\ at[i - 1] \in Nat
        /\ at[i] = at[i - 1] + Len(seqs[i]) /\ at[i] <= at[n]
    BY <1>1, <1>8
  <2>3. at[i] = at[i - 1] + 1 + m
    <3>1. Len(seqs[i]) = m + 1 /\ m \in Nat
      BY <2>1
    <3>2. at[i] = at[i - 1] + (m + 1) /\ at[i - 1] \in Nat
      BY <2>2, <3>1
    <3> QED
      BY ONLY <3>1, <3>2
  <2>4. ASSUME NEW k \in 1 .. m + 1 PROVE Image[at[i - 1] + k] = seqs[i][k]
    <3>1. at[i - 1] + k \in 1 .. at[n]
      BY <1>9, <2>1, <2>2
    <3>2. F[at[i - 1] + k] = seqs[i][k]
      BY <1>8, <2>1
    <3> QED
      BY <1>10, <3>1, <3>2
  <2>5. Image[at[i - 1] + 1] = Header(archive[i])
    <3>1. 1 \in 1 .. m + 1
      BY <2>1
    <3> QED
      BY <2>1, <2>4, <3>1
  <2>6. ASSUME NEW b \in 1 .. m PROVE Image[at[i - 1] + 1 + b] = TextBlocks(archive[i].text)[b]
    <3>0. m \in Nat /\ at[i - 1] \in Nat
      BY <2>1, <2>2
    <3>1. 1 + b \in 1 .. m + 1 /\ at[i - 1] + 1 + b = at[i - 1] + (1 + b)
      BY ONLY <3>0, b \in 1 .. m
    <3>2. Image[at[i - 1] + (1 + b)] = seqs[i][1 + b]
      BY <2>4, <3>1
    <3> QED
      BY <2>1, <3>1, <3>2
  <2> QED
    BY <2>3, <2>5, <2>6 DEF m
<1>12. Stored(at)
  <2>1. Image[at[n] + 1] = Block(NULs(TAR_BLOCKSIZE), 0)
    BY <1>5, <1>10 DEF end
  <2> QED
    BY <1>8, <1>10, <1>11, <2>1 DEF Stored, n
<1> QED
  BY <1>12

(* What TarParser reads there.                                             *)
LEMMA NamesAre ==
    ASSUME archive \in Archives, NEW at, Stored(at)
    PROVE  /\ \A i \in 1 .. Len(archive) :
                /\ NameAt(at[i - 1]) = archive[i].filename
                /\ SizeAt(at[i - 1]) = Len(archive[i].text)
                /\ nextHeader(at[i - 1]) = at[i]
           /\ NameAt(at[Len(archive)]) = NUL
<1>1. ASSUME NEW i \in 1 .. Len(archive)
      PROVE  /\ NameAt(at[i - 1]) = archive[i].filename
             /\ SizeAt(at[i - 1]) = Len(archive[i].text)
             /\ nextHeader(at[i - 1]) = at[i]
  <2> DEFINE l == Len(archive[i].text)
             d == l \div TAR_BLOCKSIZE
             e == IF l % TAR_BLOCKSIZE # 0 THEN 1 ELSE 0
  <2>1. Image[at[i - 1] + 1] = Header(archive[i])
    BY DEF Stored
  <2>2. NameAt(at[i - 1]) = archive[i].filename /\ SizeAt(at[i - 1]) = l
    BY <2>1, HeaderIs DEF NameAt, SizeAt
  <2>3. l \in Nat
    BY ArchiveIs
  <2>4. Blocks(l) \in Nat /\ d + e = Blocks(l) /\ d \in Int /\ e \in Int
    <3>1. Blocks(l) \in Nat /\ d + e = Blocks(l)
      BY <2>3, CeilDiv
    <3> HIDE DEF l
    <3>2. d \in Int /\ e \in Int
      BY <2>3, Sizes
    <3> QED
      BY <3>1, <3>2
  <2>5. nextHeader(at[i - 1]) = at[i - 1] + d + 1 + e
    BY <2>2 DEF nextHeader
  <2>6. at[i - 1] \in Nat /\ at[i] = at[i - 1] + 1 + Blocks(l)
    <3>1. Len(archive) \in Nat
      BY ArchiveIs
    <3>2. i - 1 \in 0 .. Len(archive)
      BY <3>1
    <3> QED
      BY <3>2 DEF Stored
  <2> HIDE DEF l, d, e
  <2>7. nextHeader(at[i - 1]) = at[i]
    BY ONLY <2>4, <2>5, <2>6
  <2> QED
    BY <2>2, <2>7 DEF l
<1>2. NULs(TAR_BLOCKSIZE)[1] = NUL
  BY Sizes DEF NULs
<1>3. NameAt(at[Len(archive)]) = NUL
  BY <1>2 DEF Stored, NameAt, Block
<1> QED
  BY <1>1, <1>3

LEMMA HeadersAre ==
    ASSUME archive \in Archives, NEW at, Stored(at), NEW n \in 0 .. Len(archive)
    PROVE  getHeaderAtIndex(n) = at[n]
<1> DEFINE Run(h) == h = [i \in 0 .. n |-> IF i = 0 THEN 0 ELSE nextHeader(h[i - 1])]
           p == CHOOSE h : Run(h)
           f == [i \in 0 .. n |-> at[i]]
<1>1. n \in Nat /\ \A i \in 1 .. n : i \in 1 .. Len(archive) /\ i - 1 \in 0 .. n
  BY ArchiveIs
<1>2. \A i \in 1 .. n : nextHeader(at[i - 1]) = at[i]
  BY <1>1, NamesAre
<1>3. at[0] = 0
  BY DEF Stored
<1>4. Run(f)
  <2>1. ASSUME NEW i \in 0 .. n PROVE f[i] = IF i = 0 THEN 0 ELSE nextHeader(f[i - 1])
    <3>1. CASE i = 0
      BY <1>3, <3>1
    <3>2. CASE i # 0
      <4>1. i \in 1 .. n /\ i - 1 \in 0 .. n
        BY <1>1, <3>2
      <4>2. f[i] = at[i] /\ f[i - 1] = at[i - 1]
        BY <4>1
      <4> HIDE DEF f
      <4> QED
        BY <1>2, <3>2, <4>1, <4>2
    <3> QED
      BY <3>1, <3>2
  <2>2. f = [i \in 0 .. n |-> f[i]]
    OBVIOUS
  <2> HIDE DEF f
  <2> QED
    BY <2>1, <2>2
<1>5. Run(p)
  <2> HIDE DEF Run, f
  <2> QED
    BY <1>4
<1>6. getHeaderAtIndex(n) = p[n]
  BY DEF getHeaderAtIndex
<1>7. \A i \in 0 .. n : p[i] = IF i = 0 THEN 0 ELSE nextHeader(p[i - 1])
  <2> HIDE DEF p
  <2> QED
    BY <1>5
<1> HIDE DEF p, f
<1> DEFINE A == {i \in 0 .. n : p[i] = at[i]}
<1>8. 0 .. n \subseteq A
  <2>1. 0 \in A
    BY <1>1, <1>3, <1>7
  <2>2. ASSUME NEW i \in 1 .. n, i - 1 \in A PROVE i \in A
    <3>1. i \in 0 .. n /\ i # 0 /\ p[i - 1] = at[i - 1]
      BY <1>1, <2>2
    <3>2. p[i] = nextHeader(at[i - 1])
      BY <1>7, <3>1
    <3> QED
      BY <1>2, <3>1, <3>2
  <2> HIDE DEF A
  <2> QED
    BY <1>1, <2>1, <2>2, UpTo
<1>9. n \in A
  <2>1. n \in 0 .. n
    BY <1>1
  <2> HIDE DEF A
  <2> QED
    BY <1>8, <2>1
<1> QED
  BY <1>6, <1>9

LEMMA CountIs ==
    ASSUME archive \in Archives
    PROVE  countHeaders = Len(archive)
<1> DEFINE n == Len(archive)
           N == Len(Image)
           P(m) == /\ IsEnd(getHeaderAtIndex(m))
                   /\ \A i \in 0 .. m - 1 : ~IsEnd(getHeaderAtIndex(i))
<1>1. PICK at : Stored(at)
  BY ImageIs
<1>2. n \in Nat /\ \A i \in 1 .. n : archive[i].filename # NUL
  BY ArchiveIs
<1>3. /\ at \in [0 .. n -> Nat] /\ at[0] = 0 /\ N = at[n] + 1
      /\ \A i \in 1 .. n : at[i] = at[i - 1] + 1 + Blocks(Len(archive[i].text))
  BY <1>1 DEF Stored
<1>4. n \in 0 .. N
  <2> DEFINE A == {i \in 0 .. n : at[i] >= i}
  <2>1. 0 \in A
    BY <1>2, <1>3
  <2>2. ASSUME NEW i \in 1 .. n, i - 1 \in A PROVE i \in A
    <3>1. Len(archive[i].text) \in Nat
      BY ArchiveIs
    <3>2. Blocks(Len(archive[i].text)) \in Nat
      BY <3>1, CeilDiv
    <3>a. i - 1 \in 0 .. n /\ i \in 0 .. n
      BY <1>2
    <3>b. at[i - 1] \in Nat /\ at[i] = at[i - 1] + 1 + Blocks(Len(archive[i].text))
      BY <1>3, <3>a
    <3>3. /\ at[i - 1] \in Nat /\ at[i - 1] >= i - 1 /\ i \in 0 .. n
          /\ at[i] = at[i - 1] + 1 + Blocks(Len(archive[i].text))
      BY <2>2, <3>a, <3>b
    <3>4. at[i] >= i
      BY ONLY <3>2, <3>3, i \in 1 .. n
    <3> QED
      BY <3>3, <3>4
  <2>3. 0 .. n \subseteq A
    <3> HIDE DEF A, n
    <3> QED
      BY <1>2, <2>1, <2>2, UpTo
  <2>4. at[n] >= n /\ at[n] \in Nat
    <3>1. n \in 0 .. n
      BY <1>2
    <3> QED
      BY <1>3, <2>3, <3>1
  <2> HIDE DEF n, N
  <2> QED
    BY <1>2, <1>3, <2>4
<1>5. IsEnd(getHeaderAtIndex(n))
  <2>1. n \in 0 .. n
    BY <1>2
  <2>2. getHeaderAtIndex(n) = at[n] /\ NameAt(at[n]) = NUL
    BY <1>1, <2>1, HeadersAre, NamesAre
  <2> QED
    BY <2>2 DEF IsEnd
<1>6. ASSUME NEW i \in 0 .. n - 1 PROVE ~IsEnd(getHeaderAtIndex(i))
  <2>1. i \in 0 .. n /\ i + 1 \in 1 .. n /\ i = (i + 1) - 1
    BY <1>2
  <2>2. getHeaderAtIndex(i) = at[i]
    BY <1>1, <2>1, HeadersAre
  <2>3. NameAt(at[(i + 1) - 1]) = archive[i + 1].filename
    BY <1>1, <2>1, NamesAre
  <2> QED
    BY <1>2, <2>1, <2>2, <2>3 DEF IsEnd
<1>7. countHeaders = CHOOSE m \in 0 .. N : P(m)
  BY DEF countHeaders
<1>8. P(n)
  BY <1>5, <1>6
<1> HIDE DEF N
<1>9. ASSUME NEW m \in 0 .. N, P(m) PROVE m = n
  <2> HIDE DEF n
  <2>1. ~(m < n)
    <3> SUFFICES ASSUME m < n PROVE FALSE
      OBVIOUS
    <3>1. m \in 0 .. n - 1
      BY <1>2
    <3> QED
      BY <1>6, <1>9, <3>1
  <2>2. ~(n < m)
    <3> SUFFICES ASSUME n < m PROVE FALSE
      OBVIOUS
    <3>1. n \in 0 .. m - 1
      BY <1>2
    <3> QED
      BY <1>5, <1>9, <3>1
  <2> QED
    BY <1>2, <2>1, <2>2
<1> HIDE DEF P, n
<1> QED
  BY <1>4, <1>7, <1>8, <1>9 DEF n

(* The nodes of RamDisk.c, which are the files of the VFS.                 *)
LEMMA FlattenOne ==
    ASSUME NEW S, NEW s \in Seq(S)
    PROVE  FlattenSeq(<<s>>) = s
<1> DEFINE seqs == <<s>>
<1>1. Len(seqs) = 1 /\ seqs[1] = s
  OBVIOUS
<1>2. seqs = [i \in 1 .. 1 |-> seqs[i]]
  OBVIOUS
<1> HIDE DEF seqs
<1>3. Sized(seqs) /\ \A i \in 1 .. Len(seqs) : seqs[i] \in Seq(S)
  BY <1>1, <1>2 DEF Sized
<1>4. PICK g \in [0 .. Len(seqs) -> Seq(S)] :
         /\ g[0] = <<>> /\ FlattenSeq(seqs) = g[Len(seqs)]
         /\ \A i \in 1 .. Len(seqs) : g[i] = g[i - 1] \o seqs[i]
  BY <1>3, FlattenRuns
<1>5. g[1] = <<>> \o s
  <2>1. 1 \in 1 .. Len(seqs) /\ 1 - 1 = 0
    BY <1>1
  <2>2. g[1] = g[1 - 1] \o seqs[1]
    BY <1>4, <2>1
  <2> QED
    BY <1>1, <1>4, <2>1, <2>2
<1>6. <<>> \o s = s
  BY ConcatEmptySeq
<1> QED
  BY <1>1, <1>4, <1>5, <1>6 DEF seqs

LEMMA AllFilesAre ==
    ASSUME archive \in Archives, NEW root, FS_mounts = <<scanTar(root)>>
    PROVE  /\ Len(AllFiles) = Len(archive) + 1 /\ DOMAIN AllFiles = 1 .. Len(archive) + 1
           /\ AllFiles[1] = root
           /\ \A i \in 1 .. Len(archive) :
                AllFiles[1 + i] = Node(archive[i].filename, Len(archive[i].text), i - 1)
<1> DEFINE n == Len(archive)
           node(i) == Node(archive[i].filename, Len(archive[i].text), i - 1)
           t == [i \in 1 .. countHeaders |->
                    LET header == getHeaderAtIndex(i - 1)
                    IN  Node(NameAt(header), SizeAt(header), i - 1)]
           S == {root} \cup {node(i) : i \in 1 .. n}
           h == <<root>>
<1>1. PICK at : Stored(at)
  BY ImageIs
<1>2. n \in Nat /\ countHeaders = n
  BY ArchiveIs, CountIs
<1>3. ASSUME NEW i \in 1 .. n PROVE t[i] = node(i)
  <2>1. i - 1 \in 0 .. n /\ i \in 1 .. countHeaders
    BY <1>2
  <2>2. getHeaderAtIndex(i - 1) = at[i - 1]
    BY <1>1, <2>1, HeadersAre
  <2>3. NameAt(at[i - 1]) = archive[i].filename /\ SizeAt(at[i - 1]) = Len(archive[i].text)
    BY <1>1, NamesAre
  <2>4. t[i] = Node(NameAt(getHeaderAtIndex(i - 1)), SizeAt(getHeaderAtIndex(i - 1)), i - 1)
    BY <2>1
  <2> HIDE DEF t
  <2> QED
    BY <2>2, <2>3, <2>4
<1>4. scanTar(root) = h \o t
  BY DEF scanTar
<1>5. t \in Seq(S) /\ Len(t) = n
  <2>1. t = [i \in 1 .. n |-> t[i]]
    BY <1>2
  <2>2. \A i \in 1 .. n : t[i] \in S
    <3> HIDE DEF t
    <3> QED
      BY <1>3
  <2> HIDE DEF t, n, S
  <2>3. [i \in 1 .. n |-> t[i]] \in Seq(S) /\ Len([i \in 1 .. n |-> t[i]]) = n
    BY <1>2, <2>2
  <2> QED
    BY <2>1, <2>3
<1>6. h \in Seq(S) /\ Len(h) = 1 /\ h[1] = root
  <2>1. root \in S
    OBVIOUS
  <2> HIDE DEF S
  <2> QED
    BY <2>1
<1> HIDE DEF h, t, S, n
<1>7. /\ h \o t \in Seq(S) /\ Len(h \o t) = Len(h) + Len(t)
      /\ \A k \in 1 .. Len(h) : (h \o t)[k] = h[k]
      /\ \A k \in 1 .. Len(t) : (h \o t)[Len(h) + k] = t[k]
  <2>1. h \in Seq(S) /\ t \in Seq(S)
    BY <1>5, <1>6
  <2> QED
    BY ONLY <2>1, Concatenated
<1>8. AllFiles = h \o t
  BY <1>4, <1>7, FlattenOne DEF AllFiles
<1>9. Len(AllFiles) = n + 1 /\ DOMAIN AllFiles = 1 .. n + 1 /\ AllFiles[1] = root
  <2>1. Len(h \o t) = n + 1 /\ 1 \in 1 .. Len(h)
    BY <1>2, <1>5, <1>6, <1>7
  <2>2. DOMAIN (h \o t) = 1 .. Len(h \o t)
    BY <1>7, LenProperties
  <2>3. (h \o t)[1] = root
    BY <1>6, <1>7, <2>1
  <2> QED
    BY <1>8, <2>1, <2>2, <2>3
<1>10. ASSUME NEW i \in 1 .. n PROVE AllFiles[1 + i] = node(i)
  <2>1. AllFiles[1 + i] = t[i]
    BY <1>5, <1>6, <1>7, <1>8
  <2> QED
    BY <1>3, <2>1
<1> QED
  BY <1>9, <1>10 DEF n

-----------------------------------------------------------------------------
(* The bytes of a file.                                                    *)
LEMMA Division ==
    ASSUME NEW B \in Nat, B > 0, NEW q \in Nat, NEW r \in 0 .. B - 1
    PROVE  (q * B + r) \div B = q /\ (q * B + r) % B = r
<1>1. q * B + r = B * q + r
  OBVIOUS
<1> QED
  BY <1>1

LEMMA WholeBlocks ==
    ASSUME NEW l \in Nat
    PROVE  Blocks(l) \in Nat /\ Blocks(l) * TAR_BLOCKSIZE >= l
<1> DEFINE B == TAR_BLOCKSIZE
           q == (l + B - 1) \div B
           r == (l + B - 1) % B
<1>1. B \in Nat /\ B > 0
  BY Sizes
<1> HIDE DEF B
<1>2. q \in Nat /\ r \in 0 .. B - 1 /\ l + B - 1 = B * q + r
  BY <1>1
<1> HIDE DEF q, r
<1>3. q * B >= l
  BY ONLY <1>1, <1>2, l \in Nat
<1>4. Blocks(l) = q
  BY DEF Blocks, q, B
<1> QED
  BY <1>2, <1>3, <1>4 DEF B

LEMMA TextBlocksAre ==
    ASSUME NEW S, NEW text \in Seq(S), NEW q \in Nat, NEW r \in 0 .. TAR_BLOCKSIZE - 1,
           q * TAR_BLOCKSIZE + r < Blocks(Len(text)) * TAR_BLOCKSIZE
    PROVE  LET k == q * TAR_BLOCKSIZE + r + 1
           IN  /\ q + 1 \in 1 .. Blocks(Len(text))
               /\ TextBlocks(text)[q + 1].bytes[r + 1] = IF k <= Len(text) THEN text[k] ELSE NUL
<1> DEFINE B == TAR_BLOCKSIZE
           l == Len(text)
           m == Blocks(l)
           nuls == NULs(m * B - l)
           padded == text \o nuls
           T == S \cup {NUL}
           k == q * B + r + 1
<1>1. B \in Nat /\ B > 0 /\ l \in Nat /\ m \in Nat /\ m * B >= l
  BY Sizes, WholeBlocks
<1>2. q + 1 \in 1 .. m
  <2> HIDE DEF m, l, B
  <2>1. q * B < m * B
    <3>1. q * B \in Nat /\ m * B \in Nat /\ q * B + r < m * B /\ r \in Nat
      BY <1>1 DEF m, l, B
    <3> QED
      BY ONLY <3>1, <1>1
  <2>2. ~(q >= m)
    <3> SUFFICES ASSUME q >= m PROVE FALSE
      OBVIOUS
    <3>1. q * B >= m * B
      BY <1>1
    <3>2. q * B \in Nat /\ m * B \in Nat
      BY <1>1
    <3> QED
      BY ONLY <2>1, <3>1, <3>2
  <2> QED
    BY <1>1, <2>2
<1>3. /\ nuls \in Seq(T) /\ text \in Seq(T) /\ Len(nuls) = m * B - l
      /\ \A i \in 1 .. m * B - l : nuls[i] = NUL
  <2>1. m * B - l \in Nat
    BY <1>1
  <2> DEFINE z == m * B - l
  <2>2. text \in Seq(T)
    BY SeqMonotonic
  <2> HIDE DEF z, T
  <2>3. NUL \in T
    BY DEF T
  <2>4. LET s == [i \in 1 .. z |-> NUL]
        IN  s \in Seq(T) /\ Len(s) = z /\ \A i \in 1 .. z : s[i] = NUL
    <3>1. z \in Nat
      BY <2>1 DEF z
    <3> QED
      BY <2>3, <3>1
  <2> QED
    BY <2>2, <2>4 DEF NULs, z
<1> HIDE DEF nuls, T
<1>4. /\ padded \in Seq(T)
      /\ \A i \in 1 .. l : padded[i] = text[i]
      /\ \A i \in 1 .. Len(nuls) : padded[l + i] = nuls[i]
  <2>0. text \in Seq(T) /\ nuls \in Seq(T)
    BY <1>3
  <2>1. /\ text \o nuls \in Seq(T) /\ Len(text \o nuls) = Len(text) + Len(nuls)
        /\ \A i \in 1 .. Len(text) : (text \o nuls)[i] = text[i]
        /\ \A i \in 1 .. Len(nuls) : (text \o nuls)[Len(text) + i] = nuls[i]
    BY ONLY <2>0, Concatenated
  <2> QED
    BY <2>1
<1> DEFINE from == q * B + 1
           to == (q + 1) * B
           V == {padded[i] : i \in from .. to}
           sub == SubSeq(padded, from, to)
<1> HIDE DEF padded
<1>5. from \in Int /\ to \in Int /\ to - from + 1 = B
  BY <1>1
<1>6. \A i \in from .. to : padded[i] \in V
  OBVIOUS
<1>7. sub[r + 1] = padded[k]
  <2>1. k = from + (r + 1) - 1 /\ r + 1 \in 1 .. B
    BY <1>1
  <2> HIDE DEF from, to, V, k
  <2>2. \A i \in 1 .. to - from + 1 : SubSeq(padded, from, to)[i] = padded[from + i - 1]
    BY <1>5, <1>6, SubSeqProperties
  <2> QED
    BY <1>5, <2>1, <2>2
<1>8. TextBlocks(text)[q + 1] = Block(sub, 0)
  <2>1. TextBlocks(text) = [b \in 1 .. m |-> Block(SubSeq(padded, (b - 1) * B + 1, b * B), 0)]
    BY DEF TextBlocks, padded, nuls
  <2>2. (q + 1) - 1 = q
    OBVIOUS
  <2>3. TextBlocks(text)[q + 1] = Block(SubSeq(padded, ((q + 1) - 1) * B + 1, (q + 1) * B), 0)
    <3> HIDE DEF m, B
    <3> QED
      BY <1>2, <2>1
  <2> QED
    BY <2>2, <2>3
<1>9. TextBlocks(text)[q + 1].bytes[r + 1] = sub[r + 1]
  <2> HIDE DEF sub
  <2>1. Block(sub, 0).bytes = sub
    BY DEF Block
  <2> QED
    BY <1>8, <2>1
<1>10. k \in 1 .. m * B
  <2>1. q * B + r \in Nat /\ q * B + r < m * B
    BY <1>1
  <2> HIDE DEF m, B, l
  <2> QED
    BY <1>1, <2>1
<1>11. padded[k] = IF k <= l THEN text[k] ELSE NUL
  <2> HIDE DEF k, m, B, l
  <2>1. CASE k <= l
    BY <1>1, <1>4, <1>10, <2>1
  <2>2. CASE ~(k <= l)
    <3> DEFINE i == k - l
    <3>1. i \in 1 .. m * B - l /\ k = l + i
      BY <1>1, <1>10, <2>2
    <3> HIDE DEF i
    <3>2. padded[l + i] = nuls[i] /\ nuls[i] = NUL
      BY <1>3, <1>4, <3>1
    <3> QED
      BY <2>2, <3>1, <3>2
  <2> QED
    BY <2>1, <2>2
<1> QED
  BY <1>2, <1>7, <1>9, <1>11

LEMMA ByteIs ==
    ASSUME archive \in Archives, NEW at, Stored(at), NEW i \in 1 .. Len(archive),
           NEW k \in 1 .. Blocks(Len(archive[i].text)) * TAR_BLOCKSIZE
    PROVE  Byte((at[i - 1] + 1) * TAR_BLOCKSIZE + k - 1)
               = IF k <= Len(archive[i].text) THEN archive[i].text[k] ELSE NUL
<1> DEFINE B == TAR_BLOCKSIZE
           text == archive[i].text
           a == at[i - 1] + 1
           q == (k - 1) \div B
           r == (k - 1) % B
           addr == a * B + k - 1
           z == Blocks(Len(text)) * B
<1>1. /\ B \in Nat /\ B > 0 /\ Len(text) \in Nat /\ text \in Seq(ToSet(text))
      /\ z \in Nat /\ k \in 1 .. z
  <2>1. B \in Nat /\ B > 0 /\ Len(text) \in Nat /\ text \in Seq(ToSet(text))
    BY Sizes, ArchiveIs
  <2> DEFINE m == Blocks(Len(text))
  <2>2. m \in Nat /\ k \in 1 .. m * B
    BY <2>1, WholeBlocks
  <2> HIDE DEF m, B
  <2>3. m * B \in Nat
    BY <2>1, <2>2
  <2> QED
    BY <2>1, <2>2, <2>3 DEF m
<1>2. a \in Nat
  <2>1. Len(archive) \in Nat
    BY ArchiveIs
  <2>2. i - 1 \in 0 .. Len(archive)
    BY <2>1
  <2>3. at[i - 1] \in Nat
    BY <2>2 DEF Stored
  <2> QED
    BY <2>3
<1>3. q \in Nat /\ r \in 0 .. B - 1 /\ k - 1 = B * q + r
  <2>1. k - 1 \in Nat
    BY <1>1
  <2> DEFINE j == k - 1
  <2> HIDE DEF B, j
  <2>2. j \in Nat
    BY <2>1 DEF j
  <2>3. j \div B \in Nat /\ j % B \in 0 .. B - 1 /\ j = B * (j \div B) + (j % B)
    BY ONLY <1>1, <2>2
  <2> QED
    BY <2>3 DEF j
<1> HIDE DEF q, r, B, a, z
<1>4. q * B + r = k - 1 /\ q * B + r < z /\ k = q * B + r + 1
  <2>1. q * B = B * q /\ q * B \in Nat
    BY <1>1, <1>3
  <2> QED
    BY <1>1, <1>3, <2>1
<1>5. addr \div B = a + q /\ addr % B = r
  <2>1. addr = (a + q) * B + r
    <3>1. (a + q) * B = a * B + q * B /\ a * B \in Nat /\ q * B \in Nat
      BY ONLY <1>1, <1>2, <1>3
    <3> QED
      BY <1>3, <1>4, <3>1
  <2>2. a + q \in Nat
    BY <1>2, <1>3
  <2> HIDE DEF addr
  <2> QED
    BY <1>1, <1>3, <2>1, <2>2, Division
<1>6. /\ q + 1 \in 1 .. Blocks(Len(text))
      /\ TextBlocks(text)[q + 1].bytes[r + 1] = IF k <= Len(text) THEN text[k] ELSE NUL
  BY <1>1, <1>3, <1>4, TextBlocksAre DEF B, z
<1>7. Image[a + (q + 1)] = TextBlocks(text)[q + 1]
  <2>1. \A b \in 1 .. Blocks(Len(text)) : Image[at[i - 1] + 1 + b] = TextBlocks(text)[b]
    BY DEF Stored
  <2> QED
    BY <1>6, <2>1 DEF a
<1>8. Byte(addr) = Image[a + q + 1].bytes[r + 1]
  BY <1>5 DEF Byte, B
<1>9. a + q + 1 = a + (q + 1)
  BY <1>2, <1>3
<1>10. Byte(addr) = IF k <= Len(text) THEN text[k] ELSE NUL
  <2> HIDE DEF text, addr
  <2> QED
    BY <1>6, <1>7, <1>8, <1>9
<1> QED
  BY <1>10 DEF a, B

(* One byte further than the text.                                         *)
LEMMA ByteBehind ==
    ASSUME archive \in Archives, NEW at, Stored(at), NEW i \in 1 .. Len(archive)
    PROVE  LET l == Len(archive[i].text)
           IN  Byte((at[i - 1] + 1) * TAR_BLOCKSIZE + l)
                   = IF l % TAR_BLOCKSIZE = 0 /\ i < Len(archive) THEN archive[i + 1].filename ELSE NUL
<1> DEFINE B == TAR_BLOCKSIZE
           n == Len(archive)
           l == Len(archive[i].text)
           q == l \div B
           r == l % B
           a == at[i - 1] + 1
           m == Blocks(l)
<1>1. B \in Nat /\ B > 0 /\ l \in Nat /\ n \in Nat
  BY Sizes, ArchiveIs
<1>2. a \in Nat /\ at[i] \in Nat /\ at[i] = a + m
  <2>1. i - 1 \in 0 .. n /\ i \in 0 .. n
    BY <1>1
  <2>2. at[i - 1] \in Nat /\ at[i] \in Nat /\ at[i] = at[i - 1] + 1 + m
    BY <2>1 DEF Stored
  <2> HIDE DEF m
  <2> QED
    BY <2>2
<1>3. m \in Nat /\ q + (IF r # 0 THEN 1 ELSE 0) = m
  BY <1>1, CeilDiv
<1> HIDE DEF a, B, m, n
<1>4. q \in Nat /\ r \in 0 .. B - 1 /\ l = B * q + r
  <2> HIDE DEF l
  <2> QED
    BY <1>1
<1> HIDE DEF q, r
<1>5. CASE r # 0
  <2>1. l + 1 \in 1 .. m * B
    <3>1. m = q + 1
      BY <1>3, <1>5
    <3>2. m * B = B * q + B /\ B * q \in Nat
      BY ONLY <1>1, <1>4, <3>1
    <3> QED
      BY ONLY <1>1, <1>4, <3>2
  <2>2. Byte(a * B + (l + 1) - 1) = NUL
    <3>1. ~(l + 1 <= l)
      BY <1>1
    <3> QED
      BY <2>1, <3>1, ByteIs DEF a, B, m
  <2>3. a * B + (l + 1) - 1 = a * B + l
    <3>1. a * B \in Nat
      BY <1>1, <1>2
    <3> QED
      BY ONLY <1>1, <3>1
  <2> QED
    BY <1>5, <2>2, <2>3 DEF a, B, r
<1>6. CASE r = 0
  <2>1. a * B + l = at[i] * B + 0
    <3>1. m = q /\ l = B * q
      BY <1>1, <1>3, <1>4, <1>6
    <3>2. (a + q) * B = a * B + B * q
      BY ONLY <1>1, <1>2, <1>4
    <3> QED
      BY <1>1, <1>2, <3>1, <3>2
  <2>2. (at[i] * B + 0) \div B = at[i] /\ (at[i] * B + 0) % B = 0
    <3>1. 0 \in 0 .. B - 1
      BY <1>1
    <3> QED
      BY <1>1, <1>2, <3>1, Division
  <2>3. Byte(a * B + l) = NameAt(at[i])
    BY <2>1, <2>2 DEF Byte, NameAt, B
  <2>4. CASE i < n
    <3>1. i + 1 \in 1 .. n /\ (i + 1) - 1 = i
      BY <1>1, <2>4 DEF n
    <3>2. NameAt(at[i]) = archive[i + 1].filename
      BY <3>1, NamesAre DEF n
    <3> QED
      BY <1>6, <2>3, <2>4, <3>2 DEF a, B, r, n
  <2>5. CASE ~(i < n)
    <3>1. i = n
      BY <1>1, <2>5 DEF n
    <3>2. NameAt(at[i]) = NUL
      BY <3>1, NamesAre DEF n
    <3> QED
      BY <2>3, <2>5, <3>2 DEF a, B, n
  <2> QED
    BY <2>4, <2>5
<1> QED
  BY <1>5, <1>6

-----------------------------------------------------------------------------
(* What the commands print.                                                *)
LEMMA CStringIs ==
    ASSUME NEW S, NEW s \in Seq(S), NUL \in ToSet(s)
    PROVE  /\ CString(s) \in Seq(S) /\ Len(CString(s)) < Len(s)
           /\ \A l \in 0 .. Len(s) - 1 : (\A k \in 1 .. l : s[k] # NUL) /\ s[l + 1] = NUL =>
                /\ Len(CString(s)) = l
                /\ \A k \in 1 .. l : CString(s)[k] = s[k]
<1> DEFINE n == Len(s)
           I == {i \in 1 .. n : s[i] = NUL}
           e == SelectInSeq(s, LAMBDA c : c = NUL)
<1>1. n \in Nat /\ DOMAIN s = 1 .. n
  BY LenProperties
<1>2. I # {} /\ I \in SUBSET Nat
  BY <1>1 DEF ToSet
<1>3. e = Min(I)
  BY <1>2 DEF SelectInSeq
<1>4. \E m \in I : \A k \in I : m <= k
  <2> HIDE DEF I
  <2> QED
    BY <1>2, Smallest
<1>5. Min(I) \in I /\ \A k \in I : Min(I) <= k
  <2> HIDE DEF I
  <2> QED
    BY <1>4 DEF Min
<1> HIDE DEF e
<1>6. e \in 1 .. n /\ s[e] = NUL
  BY <1>3, <1>5
<1>7. CString(s) = SubSeq(s, 1, e - 1)
  BY DEF CString, e
<1> HIDE DEF I, n
<1>8. \A i \in 1 .. e - 1 : s[i] \in S
  <2>1. \A i \in 1 .. e - 1 : i \in 1 .. n
    BY <1>1, <1>6
  <2> QED
    BY <2>1, ElementOfSeq DEF n
<1>9. 1 \in Int /\ e - 1 \in Int
  BY <1>1, <1>6
<1>10. /\ CString(s) \in Seq(S) /\ Len(CString(s)) = IF 1 <= e - 1 THEN (e - 1) - 1 + 1 ELSE 0
      /\ \A i \in 1 .. (e - 1) - 1 + 1 : CString(s)[i] = s[1 + i - 1]
  BY <1>7, <1>8, <1>9, SubSeqProperties
<1>11. Len(CString(s)) = e - 1 /\ \A i \in 1 .. e - 1 : CString(s)[i] = s[i]
  <2>1. Len(CString(s)) = e - 1
    BY <1>1, <1>6, <1>10
  <2>2. ASSUME NEW i \in 1 .. e - 1 PROVE CString(s)[i] = s[i]
    <3>1. i \in 1 .. (e - 1) - 1 + 1 /\ 1 + i - 1 = i
      BY <1>1, <1>6
    <3> QED
      BY <1>10, <3>1
  <2> QED
    BY <2>1, <2>2
<1>12. ASSUME NEW l \in 0 .. n - 1, \A k \in 1 .. l : s[k] # NUL, s[l + 1] = NUL
       PROVE  Len(CString(s)) = l /\ \A k \in 1 .. l : CString(s)[k] = s[k]
  <2>1. ~(e <= l)
    <3> SUFFICES ASSUME e <= l PROVE FALSE
      OBVIOUS
    <3>1. e \in 1 .. l
      BY <1>1, <1>6
    <3> QED
      BY <1>6, <1>12, <3>1
  <2>2. e <= l + 1
    <3>1. l + 1 \in I
      BY <1>1, <1>12 DEF I, n
    <3> QED
      BY <1>3, <1>5, <3>1
  <2>3. e - 1 = l
    BY <1>1, <1>6, <2>1, <2>2
  <2> QED
    BY <1>11, <2>3
<1>13. e - 1 < n
  BY <1>1, <1>6
<1> QED
  BY <1>10, <1>11, <1>12, <1>13 DEF n

LEMMA Single ==
    ASSUME NEW S, NEW x \in S
    PROVE  <<x>> \in Seq(S) /\ Len(<<x>>) = 1 /\ <<x>>[1] = x
OBVIOUS

LEMMA Pair ==
    ASSUME NEW S, NEW x \in S, NEW y \in S
    PROVE  <<x, y>> \in Seq(S) /\ Len(<<x, y>>) = 2
OBVIOUS

(* The names are at every third place, a comma and a space between them.   *)
LEMMA ls_OutputIs ==
    ASSUME archive \in Archives, NEW root, FS_mounts = <<scanTar(root)>>
    PROVE  /\ Len(ls_Output) \in Nat
           /\ Len(ls_Output) = IF archive = <<>> THEN 0 ELSE 3 * Len(archive) - 2
           /\ \A i \in DOMAIN archive : ls_Output[3 * i - 2] = archive[i].filename
<1> DEFINE n == Len(archive)
           name(i) == archive[i].filename
           S == {",", Space} \cup {name(i) : i \in 1 .. n}
           comma(i) == IF i > 1 THEN <<",", Space>> ELSE <<>>
           seqs == [i \in DOMAIN ls_Files |-> comma(i) \o <<ls_Files[i]>>]
           F == ls_Output
<1>1. n \in Nat /\ DOMAIN archive = 1 .. n /\ (archive = <<>> <=> n = 0)
  <2>1. n \in Nat /\ DOMAIN archive = 1 .. n
    BY ArchiveIs
  <2>2. archive \in Seq(ToSet(archive))
    BY StorageAssumption
  <2>3. archive = <<>> <=> n = 0
    BY <2>2, EmptySeq
  <2> QED
    BY <2>1, <2>3
<1>2. DOMAIN ls_Files = 1 .. n /\ \A i \in 1 .. n : ls_Files[i] = name(i)
  <2>0. /\ Len(AllFiles) = n + 1
        /\ \A i \in 1 .. n : AllFiles[1 + i] = Node(name(i), Len(archive[i].text), i - 1)
    BY AllFilesAre
  <2>1. Len(AllFiles) = n + 1 /\ \A i \in 1 .. n : AllFiles[1 + i].filename = name(i)
    <3>1. \A x, y, z : Node(x, y, z).filename = x
      BY DEF Node
    <3> HIDE DEF name
    <3> QED
      BY <2>0, <3>1
  <2>2. Len(AllFiles) - 1 = n
    BY <1>1, <2>1
  <2>3. ls_Files = [i \in 1 .. n |-> CHOOSE f \in getFileAtIndex(i) : TRUE]
    BY <2>2 DEF ls_Files
  <2>4. ASSUME NEW i \in 1 .. n PROVE ls_Files[i] = name(i)
    <3>1. i < Len(AllFiles) /\ i + 1 = 1 + i
      BY <1>1, <2>1
    <3>2. getFileAtIndex(i) = {name(i)}
      BY <2>1, <3>1 DEF getFileAtIndex
    <3>3. ls_Files[i] = CHOOSE f \in {name(i)} : TRUE
      BY <2>3, <3>2
    <3> HIDE DEF name
    <3> QED
      BY <3>3
  <2> QED
    BY <2>3, <2>4
<1>3. Len(seqs) = n /\ Sized(seqs) /\ \A i \in 1 .. n : seqs[i] = comma(i) \o <<name(i)>>
  <2>1. seqs = [i \in 1 .. n |-> comma(i) \o <<ls_Files[i]>>]
    BY <1>2
  <2> HIDE DEF seqs, n, comma
  <2>2. Len(seqs) = n /\ seqs = [i \in 1 .. n |-> seqs[i]]
    BY <1>1, <2>1
  <2>3. \A i \in 1 .. n : seqs[i] = comma(i) \o <<ls_Files[i]>>
    BY <2>1
  <2> QED
    BY <1>1, <1>2, <2>2, <2>3 DEF Sized
<1>4. F = FlattenSeq(seqs)
  BY DEF ls_Output
<1> HIDE DEF F, seqs
<1>5. ASSUME NEW i \in 1 .. n
      PROVE  /\ seqs[i] \in Seq(S)
             /\ i = 1 => Len(seqs[i]) = 1 /\ seqs[i][1] = name(i)
             /\ i # 1 => Len(seqs[i]) = 3 /\ seqs[i][3] = name(i)
  <2> DEFINE x == name(i)
  <2>1. "," \in S /\ Space \in S /\ x \in S
    <3>1. \A T : "," \in {",", Space} \cup T /\ Space \in {",", Space} \cup T
      OBVIOUS
    <3> QED
      BY <3>1
  <2> HIDE DEF S, x
  <2>2. CASE i = 1
    <3>1. comma(i) \o <<x>> = <<x>>
      BY <2>2
    <3>2. seqs[i] = <<x>>
      BY <1>3, <3>1 DEF x
    <3>3. <<x>> \in Seq(S) /\ Len(<<x>>) = 1 /\ <<x>>[1] = x
      BY <2>1, Single
    <3>4. x = name(i)
      BY DEF x
    <3> HIDE DEF name
    <3> QED
      BY ONLY <2>2, <3>2, <3>3, <3>4
  <2>3. CASE i # 1
    <3>1. i > 1
      BY <1>1, <2>3
    <3>2. comma(i) \o <<x>> = <<",", Space>> \o <<x>>
      BY <3>1
    <3> DEFINE u == <<",", Space>>
               v == <<x>>
    <3>3. u \in Seq(S) /\ v \in Seq(S) /\ Len(u) = 2 /\ Len(v) = 1 /\ v[1] = x
      BY <2>1, Single, Pair
    <3> HIDE DEF u, v
    <3>4. u \in Seq(S) /\ v \in Seq(S)
      BY <3>3
    <3>5. /\ u \o v \in Seq(S) /\ Len(u \o v) = Len(u) + Len(v)
          /\ \A k \in 1 .. Len(v) : (u \o v)[Len(u) + k] = v[k]
      BY ONLY <3>4, Concatenated
    <3>6. Len(u \o v) = 3 /\ (u \o v)[3] = x
      <4>1. 1 \in 1 .. Len(v) /\ Len(u) + 1 = 3
        BY <3>3
      <4> QED
        BY <3>3, <3>5, <4>1
    <3>7. seqs[i] = u \o v
      BY <1>3, <3>2 DEF x, u, v
    <3>8. x = name(i)
      BY DEF x
    <3> HIDE DEF name
    <3> QED
      BY ONLY <2>3, <3>5, <3>6, <3>7, <3>8
  <2> QED
    BY <2>2, <2>3
<1>6. F \in Seq(S) /\ \E at : LaidOut(seqs, F, at)
  <2> HIDE DEF S, n
  <2> QED
    BY <1>3, <1>4, <1>5, Flattened
<1>7. PICK at : LaidOut(seqs, F, at)
  BY <1>6
<1> HIDE DEF S, n, name
<1>8. /\ at \in [0 .. n -> Nat] /\ at[0] = 0 /\ Len(F) = at[n]
      /\ \A i \in 1 .. n : at[i] = at[i - 1] + Len(seqs[i])
      /\ \A i \in 1 .. n : \A k \in 1 .. Len(seqs[i]) : F[at[i - 1] + k] = seqs[i][k]
  BY <1>3, <1>7 DEF LaidOut
<1> DEFINE A == {i \in 0 .. n : at[i] = IF i = 0 THEN 0 ELSE 3 * i - 2}
<1>9. 0 .. n \subseteq A
  <2>1. 0 \in A
    BY <1>1, <1>8
  <2>2. ASSUME NEW i \in 1 .. n, i - 1 \in A PROVE i \in A
    <3>1. i \in 0 .. n /\ at[i] = at[i - 1] + Len(seqs[i])
      BY <1>1, <1>8
    <3>2. at[i - 1] = IF i - 1 = 0 THEN 0 ELSE 3 * (i - 1) - 2
      BY <2>2
    <3>3. Len(seqs[i]) = IF i = 1 THEN 1 ELSE 3
      BY <1>5
    <3>4. i \in Nat /\ i # 0
      BY <1>1
    <3>5. at[i] = 3 * i - 2
      BY ONLY <3>1, <3>2, <3>3, <3>4
    <3> QED
      BY <3>1, <3>4, <3>5
  <2> HIDE DEF A
  <2> QED
    BY <1>1, <2>1, <2>2, UpTo
<1>10. \A i \in 0 .. n : at[i] = IF i = 0 THEN 0 ELSE 3 * i - 2
  BY <1>9
<1>11. Len(F) = IF n = 0 THEN 0 ELSE 3 * n - 2
  <2>1. n \in 0 .. n
    BY <1>1
  <2> QED
    BY <1>8, <1>10, <2>1
<1>12. ASSUME NEW i \in 1 .. n PROVE F[3 * i - 2] = name(i)
  <2>1. i - 1 \in 0 .. n /\ i \in Nat
    BY <1>1
  <2>2. at[i - 1] = IF i - 1 = 0 THEN 0 ELSE 3 * (i - 1) - 2
    BY <1>10, <2>1
  <2>3. CASE i = 1
    <3>1. 1 \in 1 .. Len(seqs[i]) /\ seqs[i][1] = name(i)
      BY <1>5, <2>3
    <3>2. F[at[i - 1] + 1] = name(i)
      BY <1>8, <3>1
    <3>3. at[i - 1] + 1 = 3 * i - 2
      BY ONLY <2>1, <2>2, <2>3
    <3> QED
      BY <3>2, <3>3
  <2>4. CASE i # 1
    <3>1. 3 \in 1 .. Len(seqs[i]) /\ seqs[i][3] = name(i)
      BY <1>5, <2>4
    <3>2. F[at[i - 1] + 3] = name(i)
      BY <1>8, <3>1
    <3>3. at[i - 1] + 3 = 3 * i - 2
      BY ONLY <2>1, <2>2, <2>4
    <3> QED
      BY <3>2, <3>3
  <2> QED
    BY <2>3, <2>4
<1>13. Len(F) \in Nat
  BY <1>6
<1> QED
  BY <1>1, <1>11, <1>12, <1>13 DEF F, n, name

(* A file that open finds: the root, or the first one of its name.         *)
Files(root) == {root} \cup {Node(archive[i].filename, Len(archive[i].text), i - 1) : i \in DOMAIN archive}

LEMMA openIs ==
    ASSUME archive \in Archives, NEW root, FS_mounts = <<scanTar(root)>>, NEW f
    PROVE  /\ open(f) = {} \/ \E node \in Files(root) : open(f) = {node}
           /\ <<root.filename>> # f /\ Named(f) # {} =>
                LET i == Min(Named(f))
                IN  /\ i \in Named(f)
                    /\ open(f) = {Node(archive[i].filename, Len(archive[i].text), i - 1)}
<1> DEFINE n == Len(archive)
           node(i) == Node(archive[i].filename, Len(archive[i].text), i - 1)
           found == {j \in DOMAIN AllFiles : <<AllFiles[j].filename>> = f}
           first == CHOOSE i \in found : \A j \in found : i <= j
<1>1. n \in Nat /\ DOMAIN archive = 1 .. n
  BY ArchiveIs
<1>2. /\ DOMAIN AllFiles = 1 .. n + 1 /\ AllFiles[1] = root
      /\ \A i \in 1 .. n : AllFiles[1 + i] = node(i)
  BY AllFilesAre
<1>3. open(f) = IF found = {} THEN {} ELSE {AllFiles[first]}
  BY DEF open
<1>4. found \subseteq 1 .. n + 1 /\ found \in SUBSET Nat
  BY <1>1, <1>2
<1>5. ASSUME found # {}
      PROVE  first \in found /\ \A j \in found : first <= j
  <2>1. \E m \in found : \A j \in found : m <= j
    <3> HIDE DEF found
    <3> QED
      BY <1>4, <1>5, Smallest
  <2> HIDE DEF found
  <2> QED
    BY <2>1
<1> HIDE DEF first
<1>6. \A j \in 1 .. n + 1 : AllFiles[j] \in Files(root)
  <2>1. ASSUME NEW j \in 1 .. n + 1 PROVE AllFiles[j] \in Files(root)
    <3>1. CASE j = 1
      BY <1>2, <3>1 DEF Files
    <3>2. CASE j # 1
      <4>1. j - 1 \in 1 .. n /\ 1 + (j - 1) = j
        BY <1>1, <3>2
      <4>2. AllFiles[j] = node(j - 1)
        BY <1>2, <4>1
      <4> QED
        BY <1>1, <4>1, <4>2 DEF Files
    <3> QED
      BY <3>1, <3>2
  <2> QED
    BY <2>1
<1>7. open(f) = {} \/ \E m \in Files(root) : open(f) = {m}
  <2>1. CASE found = {}
    BY <1>3, <2>1
  <2>2. CASE found # {}
    <3>1. first \in 1 .. n + 1
      BY <1>4, <1>5, <2>2
    <3> QED
      BY <1>3, <1>6, <2>2, <3>1
  <2> QED
    BY <2>1, <2>2
<1>8. ASSUME <<root.filename>> # f, Named(f) # {}
      PROVE  LET i == Min(Named(f)) IN i \in Named(f) /\ open(f) = {node(i)}
  <2> DEFINE i == Min(Named(f))
  <2>0. \A j : j \in Named(f) <=> j \in 1 .. n /\ <<archive[j].filename>> = f
    BY <1>1 DEF Named
  <2>1. Named(f) \in SUBSET Nat
    BY <2>0
  <2>2. i \in Named(f) /\ \A j \in Named(f) : i <= j
    <3>1. \E m \in Named(f) : \A j \in Named(f) : m <= j
      BY <1>8, <2>1, Smallest
    <3> QED
      BY <3>1 DEF Min
  <2> HIDE DEF i
  <2>3. i \in 1 .. n /\ <<archive[i].filename>> = f
    BY <2>0, <2>2
  <2>4. \A j \in 1 .. n : AllFiles[1 + j].filename = archive[j].filename
    <3>1. \A x, y, z : Node(x, y, z).filename = x
      BY DEF Node
    <3> QED
      BY <1>2, <3>1
  <2>5. 1 + i \in found
    <3>1. 1 + i \in 1 .. n + 1
      BY <1>1, <2>3
    <3> QED
      BY <1>2, <2>3, <2>4, <3>1
  <2>6. ASSUME NEW j \in found PROVE 1 + i <= j
    <3>1. j \in 1 .. n + 1 /\ <<AllFiles[j].filename>> = f
      BY <1>2
    <3>2. j # 1
      BY <1>2, <1>8, <3>1
    <3>3. j - 1 \in 1 .. n /\ 1 + (j - 1) = j
      BY <1>1, <3>1, <3>2
    <3>4. <<archive[j - 1].filename>> = f
      BY <2>4, <3>1, <3>3
    <3>5. j - 1 \in Named(f)
      BY <2>0, <3>3, <3>4
    <3>6. i <= j - 1
      BY <2>2, <3>5
    <3> QED
      BY <1>1, <2>3, <3>3, <3>6
  <2> HIDE DEF found
  <2>7. first = 1 + i
    <3>1. first \in found /\ first <= 1 + i /\ 1 + i <= first
      BY <1>5, <2>5, <2>6
    <3>2. first \in Nat /\ 1 + i \in Nat
      BY <1>4, <2>5, <3>1
    <3> QED
      BY ONLY <3>1, <3>2
  <2>8. open(f) = {node(i)}
    BY <1>2, <1>3, <2>3, <2>5, <2>7
  <2> QED
    BY <2>2, <2>8 DEF i
<1> QED
  BY <1>7, <1>8

(* Files of text, none with the name of the root.                          *)
TextFiles ==
    \A files \in Archives : \A f \in DOMAIN files :
        files[f].filename # "C/" /\ NUL \notin ToSet(files[f].text)

(* A text t that is where the kernel reads, with a zero behind it or with  *)
(* one byte more than the file's size.                                     *)
LEMMA viewFile_OutputIs ==
    ASSUME NEW node, node.file_size \in Nat
    PROVE  LET l == node.file_size
               s == readFile(node, l + 1)
               out == viewFile_Output(node)
           IN  /\ Len(out) \in Nat
               /\ \A T : \A t \in Seq(T) :
                    /\ Len(t) <= l + 1
                    /\ \A k \in 1 .. Len(t) : s[k] = t[k] /\ t[k] # NUL
                    /\ Len(t) <= l => s[Len(t) + 1] = NUL
                    => out = t \o <<Newline>>
<1> DEFINE l == node.file_size
           s == readFile(node, l + 1)
           S == {s[k] : k \in 1 .. (l + 1) + 1} \cup {Newline}
           c == CString(s)
           out == viewFile_Output(node)
           end == <<Newline>>
<1>1. s \in Seq(S) /\ Len(s) = l + 2 /\ NUL \in ToSet(s) /\ s[l + 2] = NUL
  <2>1. s = [k \in 1 .. (l + 1) + 1 |-> s[k]]
    BY DEF readFile
  <2>2. \A k \in 1 .. (l + 1) + 1 : s[k] \in S
    OBVIOUS
  <2>3. (l + 1) + 1 \in Nat /\ (l + 1) + 1 = l + 2 /\ (l + 1) + 1 \in 1 .. (l + 1) + 1
    OBVIOUS
  <2>4. s[(l + 1) + 1] = NUL
    <3>1. ~((l + 1) + 1 <= l + 1)
      OBVIOUS
    <3> QED
      BY <2>3, <3>1 DEF readFile
  <2> DEFINE m == (l + 1) + 1
  <2> HIDE DEF s, S, m
  <2>5. [k \in 1 .. m |-> s[k]] \in Seq(S) /\ Len([k \in 1 .. m |-> s[k]]) = m
    BY <2>2, <2>3 DEF m
  <2>6. m \in DOMAIN s
    BY <2>1, <2>3 DEF m
  <2> QED
    BY <2>1, <2>3, <2>4, <2>5, <2>6 DEF m, ToSet
<1>2. end \in Seq(S) /\ Len(end) = 1
  <2>1. Newline \in S
    OBVIOUS
  <2> HIDE DEF S
  <2> QED
    BY <2>1, Single
<1>3. out = c \o end
  BY DEF viewFile_Output
<1> HIDE DEF s, S, end, out
<1>4. /\ c \in Seq(S) /\ Len(c) < Len(s)
      /\ \A m \in 0 .. Len(s) - 1 : (\A k \in 1 .. m : s[k] # NUL) /\ s[m + 1] = NUL =>
            Len(c) = m /\ \A k \in 1 .. m : c[k] = s[k]
  BY <1>1, CStringIs
<1> HIDE DEF c
<1>5. Len(out) \in Nat
  <2>1. c \in Seq(S) /\ end \in Seq(S)
    BY <1>2, <1>4
  <2>2. Len(c) \in Nat /\ Len(end) = 1 /\ Len(out) = Len(c) + Len(end)
    BY <1>2, <1>3, <2>1, Concatenated, LenProperties
  <2> QED
    BY <2>2
<1>6. ASSUME NEW T, NEW t \in Seq(T), Len(t) <= l + 1,
             \A k \in 1 .. Len(t) : s[k] = t[k] /\ t[k] # NUL,
             Len(t) <= l => s[Len(t) + 1] = NUL
      PROVE  out = t \o <<Newline>>
  <2> DEFINE m == Len(t)
             U == S \cup T
  <2>1. m \in 0 .. Len(s) - 1 /\ l \in Nat /\ m \in Nat
    BY <1>1, <1>6, LenProperties
  <2>2. s[m + 1] = NUL
    <3>1. m <= l \/ m + 1 = l + 2
      BY <1>6, <2>1
    <3> QED
      BY <1>1, <1>6, <3>1
  <2>3. \A k \in 1 .. m : s[k] # NUL /\ s[k] = t[k]
    BY <1>6
  <2>4. c \in Seq(U) /\ t \in Seq(U)
    BY <1>4, SeqMonotonic
  <2> HIDE DEF m, U
  <2>5. Len(c) = m /\ \A k \in 1 .. m : c[k] = t[k]
    BY <1>4, <2>1, <2>2, <2>3
  <2>6. Len(c) = Len(t) /\ \A k \in 1 .. Len(c) : c[k] = t[k]
    BY <2>5 DEF m
  <2>7. c = t
    BY <2>4, <2>6, SeqEqual
  <2> QED
    BY <1>3, <2>7 DEF end
<1> HIDE DEF l
<1> QED
  BY <1>5, <1>6 DEF l, s, out

LEMMA viewIs ==
    ASSUME archive \in Archives, TextFiles, NEW i \in 1 .. Len(archive)
    PROVE  LET text == archive[i].text
           IN  viewFile_Output(Node(archive[i].filename, Len(text), i - 1))
                   = text \o Behind(i) \o <<Newline>>
<1> DEFINE text == archive[i].text
           l == Len(text)
           node == Node(archive[i].filename, l, i - 1)
           s == readFile(node, l + 1)
           full == l % TAR_BLOCKSIZE = 0 /\ i < Len(archive)
           next == archive[i + 1].filename
           T == ToSet(text) \cup {next}
           b == Behind(i)
           t == text \o b
<1>1. PICK at : Stored(at)
  BY ImageIs
<1>2. /\ Len(archive) \in Nat /\ l \in Nat /\ DOMAIN archive = 1 .. Len(archive)
      /\ DOMAIN text = 1 .. l /\ text \in Seq(ToSet(text))
  BY ArchiveIs
<1>3. node.file_size = l /\ node.idx = i - 1
  BY DEF Node
<1> HIDE DEF node
<1>4. ASSUME NEW k \in 1 .. l + 1 PROVE s[k] = Byte((at[i - 1] + 1) * TAR_BLOCKSIZE + k - 1)
  <2>1. getHeaderAtIndex(node.idx) = at[i - 1]
    <3>1. i - 1 \in 0 .. Len(archive)
      BY <1>2
    <3> QED
      BY <1>1, <1>3, <3>1, HeadersAre
  <2>2. s[k] = Byte((getHeaderAtIndex(node.idx) + 1) * TAR_BLOCKSIZE + k - 1)
    <3> DEFINE m == l + 1
    <3>0. m \in Nat
      BY <1>2
    <3> HIDE DEF m
    <3>1. k \in 1 .. m /\ k \in 1 .. m + 1 /\ k <= m
      BY <3>0 DEF m
    <3>2. readFile(node, m)[k] = Byte((getHeaderAtIndex(node.idx) + 1) * TAR_BLOCKSIZE + k - 1)
      BY <3>1 DEF readFile
    <3> QED
      BY <3>2 DEF m
  <2> QED
    BY <2>1, <2>2
<1>5. ASSUME NEW k \in 1 .. l PROVE s[k] = text[k] /\ text[k] # NUL
  <2>1. k \in 1 .. l + 1
    BY <1>2
  <2>2. k \in 1 .. Blocks(l) * TAR_BLOCKSIZE
    <3>0. TAR_BLOCKSIZE \in Nat
      BY Sizes
    <3>1. Blocks(l) \in Nat /\ Blocks(l) * TAR_BLOCKSIZE >= l
      BY <1>2, WholeBlocks
    <3> DEFINE z == Blocks(l) * TAR_BLOCKSIZE
    <3>2. z \in Nat
      BY <3>0, <3>1
    <3> HIDE DEF z
    <3> QED
      BY <1>2, <3>1, <3>2 DEF z
  <2>3. Byte((at[i - 1] + 1) * TAR_BLOCKSIZE + k - 1) = text[k]
    <3>1. k <= l
      BY <1>2
    <3> QED
      BY <1>1, <2>2, <3>1, ByteIs
  <2>4. text[k] # NUL
    <3>1. NUL \notin ToSet(text)
      BY <1>2 DEF TextFiles
    <3> QED
      BY <1>2, <3>1 DEF ToSet
  <2> QED
    BY <1>4, <2>1, <2>3, <2>4
<1>6. s[l + 1] = IF full THEN next ELSE NUL
  <2>1. l + 1 \in 1 .. l + 1
    BY <1>2
  <2>2. (at[i - 1] + 1) * TAR_BLOCKSIZE + (l + 1) - 1 = (at[i - 1] + 1) * TAR_BLOCKSIZE + l
    <3>1. i - 1 \in 0 .. Len(archive)
      BY <1>2
    <3>2. at[i - 1] \in Nat /\ TAR_BLOCKSIZE \in Nat
      BY <1>1, <3>1, Sizes DEF Stored
    <3> DEFINE z == (at[i - 1] + 1) * TAR_BLOCKSIZE
    <3>3. z \in Nat
      BY <3>2
    <3> HIDE DEF z, l
    <3>4. z + (l + 1) - 1 = z + l
      BY <1>2, <3>3
    <3> QED
      BY <3>4 DEF z
  <2>3. s[l + 1] = Byte((at[i - 1] + 1) * TAR_BLOCKSIZE + (l + 1) - 1)
    BY <1>4, <2>1
  <2>4. Byte((at[i - 1] + 1) * TAR_BLOCKSIZE + l) = IF full THEN next ELSE NUL
    BY <1>1, ByteBehind
  <2> QED
    BY <2>2, <2>3, <2>4
<1>7. full => next # NUL
  <2>1. full => i + 1 \in 1 .. Len(archive)
    BY <1>2
  <2> QED
    BY <2>1, ArchiveIs
<1> HIDE DEF s
<1>8. /\ b \in Seq(T) /\ Len(b) = IF full THEN 1 ELSE 0
      /\ full => b[1] = next
  <2>1. b = IF full THEN <<next>> ELSE <<>>
    BY DEF Behind
  <2>2. next \in T
    OBVIOUS
  <2> HIDE DEF b, full, next, T
  <2>3. CASE full
    BY <2>1, <2>2, <2>3, Single
  <2>4. CASE ~full
    BY <2>1, <2>4
  <2> QED
    BY <2>3, <2>4
<1>9. text \in Seq(T)
  BY <1>2, SeqMonotonic
<1> HIDE DEF T, b, text, l
<1>10. /\ t \in Seq(T) /\ Len(t) = Len(text) + Len(b)
       /\ \A k \in 1 .. Len(text) : t[k] = text[k]
       /\ \A k \in 1 .. Len(b) : t[Len(text) + k] = b[k]
  <2>1. text \in Seq(T) /\ b \in Seq(T)
    BY <1>8, <1>9
  <2> QED
    BY ONLY <2>1, Concatenated
<1> HIDE DEF t
<1>11. Len(t) <= l + 1 /\ (Len(t) <= l => s[Len(t) + 1] = NUL)
  <2>1. CASE full
    <3>1. Len(t) = l + 1
      BY <1>8, <1>10, <2>1 DEF l
    <3> QED
      BY <1>2, <3>1
  <2>2. CASE ~full
    <3>0. Len(b) = 0 /\ Len(text) \in Nat
      BY <1>2, <1>8, <2>2 DEF l
    <3>1. Len(t) = l
      BY <1>10, <3>0 DEF l
    <3> QED
      BY <1>2, <1>6, <2>2, <3>1
  <2> QED
    BY <2>1, <2>2
<1>12. ASSUME NEW k \in 1 .. Len(t) PROVE s[k] = t[k] /\ t[k] # NUL
  <2>1. CASE k <= l
    <3>1. k \in 1 .. l /\ k \in 1 .. Len(text)
      BY <1>2, <2>1 DEF l
    <3> QED
      BY <1>5, <1>10, <3>1
  <2>2. CASE ~(k <= l)
    <3>1. full /\ k = l + 1 /\ 1 \in 1 .. Len(b)
      BY <1>2, <1>8, <1>10, <2>2 DEF l
    <3>2. t[k] = next
      BY <1>8, <1>10, <3>1 DEF l
    <3> QED
      BY <1>6, <1>7, <3>1, <3>2
  <2> QED
    BY <2>1, <2>2
<1>13. viewFile_Output(node) = t \o <<Newline>>
  <2>1. node.file_size \in Nat
    BY <1>2, <1>3
  <2>2. \A V : \A u \in Seq(V) :
            /\ Len(u) <= l + 1
            /\ \A k \in 1 .. Len(u) : s[k] = u[k] /\ u[k] # NUL
            /\ Len(u) <= l => s[Len(u) + 1] = NUL
            => viewFile_Output(node) = u \o <<Newline>>
    BY <1>3, <2>1, viewFile_OutputIs DEF s
  <2> QED
    BY <1>10, <1>11, <1>12, <2>2
<1> QED
  BY <1>13 DEF t, b, text, l, node

Root == Node("C/", 0, 0)
Mounted == archive \in Archives /\ FS_mounts = <<scanTar(Root)>>

LEMMA MessagesAre ==
    ASSUME NEW n \in Nat
    PROVE  Len(Messages(n)) \in Nat
BY DEF Messages

LEMMA OutputIs ==
    ASSUME Mounted, NEW cmd, NEW p1
    PROVE  Len(Output(cmd, p1)) \in Nat
<1>1. archive \in Archives /\ FS_mounts = <<scanTar(Root)>>
  BY DEF Mounted
<1>2. Len(ls_Output) \in Nat
  BY <1>1, ls_OutputIs
<1>3. Len(Messages(4)) \in Nat /\ Len(Messages(1)) \in Nat
  BY MessagesAre
<1>4. ASSUME open(p1) # {}
      PROVE  Len(viewFile_Output(CHOOSE n \in open(p1) : TRUE)) \in Nat
  <2>1. PICK node \in Files(Root) : open(p1) = {node}
    BY <1>1, <1>4, openIs
  <2>2. (CHOOSE n \in open(p1) : TRUE) = node
    BY <2>1
  <2>3. node.file_size \in Nat
    <3>1. \A x, y, z : Node(x, y, z).file_size = y
      BY DEF Node
    <3>2. CASE node = Root
      BY <3>1, <3>2 DEF Root
    <3>3. ASSUME NEW i \in DOMAIN archive, node = Node(archive[i].filename, Len(archive[i].text), i - 1)
          PROVE  node.file_size \in Nat
      <4>1. Len(archive[i].text) \in Nat
        BY <1>1, ArchiveIs
      <4> QED
        BY <3>1, <3>3, <4>1
    <3> QED
      BY <2>1, <3>2, <3>3 DEF Files
  <2> QED
    BY <2>2, <2>3, viewFile_OutputIs
<1>5. Len(<<>>) \in Nat
  OBVIOUS
<1> QED
  BY <1>2, <1>3, <1>4, <1>5 DEF Output

(* What ShowsFiles says of one command.                                    *)
Shows(cmd, p1, output) ==
    /\ cmd = <<"ls">> =>
         /\ Len(output) = IF archive = <<>> THEN 0 ELSE 3 * Len(archive) - 2
         /\ \A i \in DOMAIN archive : output[3 * i - 2] = archive[i].filename
    /\ cmd = <<"view">> /\ Named(p1) # {} =>
         LET i == Min(Named(p1))
         IN  output = archive[i].text \o Behind(i) \o <<Newline>>

LEMMA OutputShows ==
    ASSUME Mounted, TextFiles, NEW cmd, NEW p1
    PROVE  Shows(cmd, p1, Output(cmd, p1))
<1>1. archive \in Archives /\ FS_mounts = <<scanTar(Root)>>
  BY DEF Mounted
<1>2. ASSUME cmd = <<"ls">>
      PROVE  /\ Len(Output(cmd, p1)) = IF archive = <<>> THEN 0 ELSE 3 * Len(archive) - 2
             /\ \A i \in DOMAIN archive : Output(cmd, p1)[3 * i - 2] = archive[i].filename
  <2>1. Output(cmd, p1) = ls_Output
    BY <1>2 DEF Output
  <2> QED
    BY <1>1, <2>1, ls_OutputIs
<1>3. ASSUME cmd = <<"view">>, Named(p1) # {}
      PROVE  LET j == Min(Named(p1))
             IN  Output(cmd, p1) = archive[j].text \o Behind(j) \o <<Newline>>
  <2> DEFINE i == Min(Named(p1))
             node == Node(archive[i].filename, Len(archive[i].text), i - 1)
  <2>1. Root.filename = "C/"
    BY DEF Root, Node
  <2>2. <<Root.filename>> # p1
    <3>1. PICK j \in DOMAIN archive : <<archive[j].filename>> = p1
      BY <1>3 DEF Named
    <3>2. archive[j].filename # "C/"
      BY <1>1 DEF TextFiles
    <3> QED
      BY <2>1, <3>1, <3>2
  <2>3. i \in Named(p1) /\ open(p1) = {node}
    BY <1>1, <1>3, <2>2, openIs
  <2>4. Output(cmd, p1) = viewFile_Output(node)
    <3>1. cmd # <<"ls">> /\ cmd # <<"help">>
      BY <1>3
    <3>2. open(p1) # {} /\ (CHOOSE n \in open(p1) : TRUE) = node
      <4> HIDE DEF node
      <4> QED
        BY <2>3
    <3>3. Output(cmd, p1) = viewFile_Output(CHOOSE n \in open(p1) : TRUE)
      BY <1>3, <3>1, <3>2 DEF Output
    <3> QED
      BY <3>2, <3>3
  <2>5. i \in 1 .. Len(archive)
    <3>1. i \in DOMAIN archive
      <4> HIDE DEF i
      <4> QED
        BY <2>3 DEF Named
    <3> QED
      BY <1>1, <3>1, ArchiveIs
  <2> HIDE DEF i
  <2>6. viewFile_Output(node) = archive[i].text \o Behind(i) \o <<Newline>>
    BY <1>1, <2>5, viewIs
  <2> QED
    BY <2>4, <2>6 DEF i
<1> HIDE DEF Output
<1> QED
  BY <1>2, <1>3 DEF Shows

-----------------------------------------------------------------------------
(* strtok.                                                                 *)
Buffers == {s \in [0 .. MaxKeys -> Char] : s[MaxKeys] = NUL}

LEMMA Characters ==
    /\ NUL # Space /\ NUL # Tab /\ Space # Tab
    /\ NUL \notin Letter /\ Space \notin Letter /\ Tab \notin Letter
    /\ {NUL, Space, Tab} \subseteq Char /\ Letter \subseteq Char
<1>1. NUL # Space /\ NUL # Tab /\ Space # Tab
  BY DEF NUL, Space, Tab
<1>2. NUL \notin Letter /\ Space \notin Letter /\ Tab \notin Letter
  BY ShellAssumption
<1> QED
  BY <1>1, <1>2 DEF Char

LEMMA FirstFromIs ==
    ASSUME NEW s \in Buffers, NEW i \in 0 .. MaxKeys, NEW C, NUL \in C
    PROVE  /\ FirstFrom(s, i, C) \in i .. MaxKeys
           /\ s[FirstFrom(s, i, C)] \in C
           /\ \A k \in i .. FirstFrom(s, i, C) - 1 : s[k] \notin C
           /\ \A j \in i .. MaxKeys : s[j] \in C => FirstFrom(s, i, C) <= j
<1> DEFINE Hits == {j \in 0 .. MaxKeys : j >= i /\ s[j] \in C}
           Q(j) == j >= i /\ s[j] \in C /\ \A k \in i .. j - 1 : s[k] \notin C
           first == FirstFrom(s, i, C)
<1>1. MaxKeys \in Nat /\ DOMAIN s = 0 .. MaxKeys /\ s[MaxKeys] = NUL
  BY Sizes DEF Buffers
<1>2. Hits \in SUBSET Nat /\ Hits # {}
  <2>1. MaxKeys \in Hits
    BY <1>1
  <2> QED
    BY <2>1
<1>3. PICK m \in Hits : \A j \in Hits : m <= j
  <2> HIDE DEF Hits
  <2> QED
    BY <1>2, Smallest
<1>4. m \in DOMAIN s /\ Q(m)
  <2>1. m \in 0 .. MaxKeys /\ m >= i /\ s[m] \in C
    OBVIOUS
  <2>2. ASSUME NEW k \in i .. m - 1 PROVE s[k] \notin C
    <3>1. k \in 0 .. MaxKeys /\ k >= i /\ ~(m <= k)
      BY <1>1, <2>1
    <3> QED
      BY <1>3, <3>1
  <2> QED
    BY <1>1, <2>1, <2>2
<1>5. first = CHOOSE j \in DOMAIN s : Q(j)
  BY DEF FirstFrom
<1>6. first \in DOMAIN s /\ Q(first)
  <2> HIDE DEF Q, Hits
  <2> QED
    BY <1>4, <1>5
<1> HIDE DEF first
<1>7. first \in i .. MaxKeys /\ s[first] \in C /\ \A k \in i .. first - 1 : s[k] \notin C
  BY <1>1, <1>6
<1>8. ASSUME NEW j \in i .. MaxKeys, s[j] \in C PROVE first <= j
  <2> SUFFICES ASSUME ~(first <= j) PROVE FALSE
    OBVIOUS
  <2>1. j \in i .. first - 1
    BY <1>1, <1>7
  <2> QED
    BY <1>7, <1>8, <2>1
<1> QED
  BY <1>7, <1>8 DEF first

(* b is the start of the word, e its end.                                  *)
Scanned(s, at, b, e) ==
    [s |-> [i \in DOMAIN s |-> IF i \in at .. b - 1 \/ i = e THEN NUL ELSE s[i]],
     pos |-> IF s[e] = Space THEN e + 1 ELSE 0,
     token |-> IF b = e THEN {} ELSE {b}]

LEMMA StrtokIs ==
    ASSUME NEW s \in Buffers, NEW at \in 0 .. MaxKeys
    PROVE  \E b \in at .. MaxKeys, e \in at .. MaxKeys :
              /\ b <= e /\ Strtok(s, at) = Scanned(s, at, b, e)
              /\ s[b] \in Letter \cup {Tab, NUL} /\ s[e] \in {Space, NUL}
              /\ \A k \in at .. b - 1 : s[k] \notin Letter \cup {Tab, NUL}
              /\ \A k \in b .. e - 1 : s[k] \notin {Space, NUL}
              /\ \A j \in at .. MaxKeys : s[j] = NUL => b <= j
              /\ \A j \in b .. MaxKeys : s[j] = NUL => e <= j
<1> DEFINE C == Letter \cup {Tab, NUL}
           D == {Space, NUL}
           b == FirstFrom(s, at, C)
           e == FirstFrom(s, b, D)
<1>1. NUL \in C /\ NUL \in D
  OBVIOUS
<1>2. Strtok(s, at) = Scanned(s, at, b, e)
  BY DEF Strtok, Scanned
<1> HIDE DEF C
<1>3. /\ b \in at .. MaxKeys /\ s[b] \in C /\ \A k \in at .. b - 1 : s[k] \notin C
      /\ \A j \in at .. MaxKeys : s[j] \in C => b <= j
  BY <1>1, FirstFromIs
<1> HIDE DEF b, D
<1>4. at \in Nat /\ MaxKeys \in Nat /\ b \in 0 .. MaxKeys
  BY <1>3, Sizes
<1>5. /\ e \in b .. MaxKeys /\ s[e] \in D /\ \A k \in b .. e - 1 : s[k] \notin D
      /\ \A j \in b .. MaxKeys : s[j] \in D => e <= j
  BY <1>1, <1>4, FirstFromIs
<1> HIDE DEF e
<1>6. e \in at .. MaxKeys /\ b <= e
  BY <1>3, <1>4, <1>5
<1>7. \A j : s[j] = NUL => s[j] \in C /\ s[j] \in D
  BY <1>1
<1>8. /\ \A j \in at .. MaxKeys : s[j] = NUL => b <= j
      /\ \A j \in b .. MaxKeys : s[j] = NUL => e <= j
  BY <1>3, <1>5, <1>7
<1> QED
  BY <1>2, <1>3, <1>5, <1>6, <1>8 DEF C, D

LEMMA StrtokKeeps ==
    ASSUME NEW s \in Buffers, NEW at \in 0 .. MaxKeys
    PROVE  Strtok(s, at).s \in Buffers /\ Strtok(s, at).pos \in 0 .. MaxKeys
<1>1. PICK b \in at .. MaxKeys, e \in at .. MaxKeys :
         Strtok(s, at) = Scanned(s, at, b, e) /\ s[e] \in {Space, NUL}
  BY StrtokIs
<1>2. MaxKeys \in Nat /\ DOMAIN s = 0 .. MaxKeys /\ s[MaxKeys] = NUL /\ s \in [0 .. MaxKeys -> Char]
  BY Sizes DEF Buffers
<1> DEFINE t == [i \in DOMAIN s |-> IF i \in at .. b - 1 \/ i = e THEN NUL ELSE s[i]]
<1>3. Strtok(s, at).s = t /\ Strtok(s, at).pos = IF s[e] = Space THEN e + 1 ELSE 0
  BY <1>1 DEF Scanned
<1>4. t \in Buffers
  <2>1. NUL \in Char
    BY Characters
  <2>2. t \in [0 .. MaxKeys -> Char]
    BY <1>2, <2>1
  <2>3. t[MaxKeys] = NUL
    BY <1>2
  <2> HIDE DEF t
  <2> QED
    BY <2>2, <2>3 DEF Buffers
<1>5. s[e] = Space => e + 1 \in 0 .. MaxKeys
  <2>1. s[e] = Space => e # MaxKeys
    BY <1>2, Characters
  <2> QED
    BY <1>2, <2>1
<1>6. 0 \in 0 .. MaxKeys
  BY <1>2
<1> HIDE DEF t
<1> QED
  BY <1>3, <1>4, <1>5, <1>6

-----------------------------------------------------------------------------
(* The words of a line: one from x to y, with spaces or an end around it.  *)
Lines == Seq(Letter \cup {Space, Tab})

Spaces(l, x, y) == \A k \in x .. y : l[k] = Space
IsWord(l, x, y) ==
    /\ x \in 1 .. Len(l) /\ y \in x .. Len(l)
    /\ \A k \in x .. y : l[k] # Space
    /\ x = 1 \/ l[x - 1] = Space
    /\ y = Len(l) \/ l[y + 1] = Space

LEMMA LineIs ==
    ASSUME NEW l \in Lines
    PROVE  /\ Len(l) \in Nat /\ DOMAIN l = 1 .. Len(l)
           /\ \A k \in 1 .. Len(l) : l[k] \in Letter \cup {Space, Tab}
<1> DEFINE S == Letter \cup {Space, Tab}
<1>1. l \in Seq(S)
  BY DEF Lines
<1> HIDE DEF S
<1>2. Len(l) \in Nat /\ DOMAIN l = 1 .. Len(l) /\ \A k \in 1 .. Len(l) : l[k] \in S
  BY <1>1, LenProperties, ElementOfSeq
<1> QED
  BY <1>2 DEF S

LEMMA WordIs ==
    ASSUME NEW l \in Lines, NEW x, NEW y, IsWord(l, x, y)
    PROVE  x \in WordStarts(l) /\ Word(l, x) = SubSeq(l, x, y)
<1> DEFINE L == {j \in x .. Len(l) : \A k \in x .. j : l[k] # Space}
<1>1. /\ Len(l) \in Nat /\ DOMAIN l = 1 .. Len(l)
      /\ x \in 1 .. Len(l) /\ y \in x .. Len(l)
      /\ \A k \in x .. y : l[k] # Space
      /\ x = 1 \/ l[x - 1] = Space
      /\ y = Len(l) \/ l[y + 1] = Space
  BY LineIs DEF IsWord
<1>0. x \in Nat /\ y \in Nat /\ Len(l) \in Nat /\ x >= 1 /\ x <= y /\ y <= Len(l)
  <2>1. Len(l) \in Nat /\ x \in 1 .. Len(l) /\ y \in x .. Len(l)
    BY <1>1
  <2> QED
    BY ONLY <2>1
<1>2. x \in WordStarts(l)
  <2>1. l[x] # Space
    <3>1. x \in x .. y
      BY ONLY <1>0
    <3> QED
      BY <1>1, <3>1
  <2> QED
    BY <1>1, <2>1 DEF WordStarts
<1>3. y \in L
  BY <1>1
<1>4. ASSUME NEW j \in L PROVE y >= j
  <2> SUFFICES ASSUME ~(y >= j) PROVE FALSE
    OBVIOUS
  <2>1. j \in x .. Len(l) /\ \A k \in x .. j : l[k] # Space
    OBVIOUS
  <2>2. y + 1 \in x .. j /\ y # Len(l)
    <3>1. j \in x .. Len(l) /\ ~(y >= j)
      BY <2>1
    <3> QED
      BY ONLY <1>0, <3>1
  <2> QED
    BY <1>1, <2>1, <2>2
<1>5. L \subseteq Int
  <2>1. x .. Len(l) \subseteq Int
    BY ONLY <1>0
  <2> QED
    BY <2>1
<1>6. y = Max(L)
  <2>1. \E m \in L : \A j \in L : m >= j
    BY <1>3, <1>4
  <2> DEFINE M == Max(L)
  <2>2. M \in L /\ \A j \in L : M >= j
    <3> HIDE DEF L
    <3> QED
      BY <2>1 DEF Max
  <2> HIDE DEF M, L
  <2>3. M >= y /\ y >= M /\ M \in Int /\ y \in Int
    BY <1>3, <1>4, <1>5, <2>2
  <2>4. M = y
    BY ONLY <2>3
  <2> QED
    BY <2>4 DEF M
<1>7. Word(l, x) = SubSeq(l, x, Max(L))
  BY DEF Word
<1> QED
  BY <1>2, <1>6, <1>7

(* The words up to one, which NthWord counts.                              *)
UpToWord(l, i) == {j \in WordStarts(l) : j <= i}

LEMMA NthWordIs ==
    ASSUME NEW l \in Lines, NEW n, NEW i \in WordStarts(l), Cardinality(UpToWord(l, i)) = n,
           \A j \in WordStarts(l) : Cardinality(UpToWord(l, j)) = n => j = i
    PROVE  NthWord(l, n) = Word(l, i)
<1> DEFINE nth == {j \in WordStarts(l) : Cardinality(UpToWord(l, j)) = n}
<1>1. nth = {i}
  OBVIOUS
<1>2. NthWord(l, n) = IF nth = {} THEN None ELSE Word(l, CHOOSE j \in nth : TRUE)
  BY DEF NthWord, UpToWord
<1> HIDE DEF nth
<1> QED
  BY <1>1, <1>2

LEMMA NoWordIs ==
    ASSUME NEW l \in Lines, NEW n, \A j \in WordStarts(l) : Cardinality(UpToWord(l, j)) # n
    PROVE  NthWord(l, n) = None
BY DEF NthWord, UpToWord

LEMMA WordCounts ==
    ASSUME NEW l \in Lines, NEW i \in WordStarts(l)
    PROVE  IsFiniteSet(UpToWord(l, i)) /\ i \in UpToWord(l, i) /\ WordStarts(l) \subseteq 1 .. Len(l)
<1>1. Len(l) \in Nat /\ DOMAIN l = 1 .. Len(l)
  BY LineIs
<1>2. WordStarts(l) \subseteq 1 .. Len(l)
  BY <1>1 DEF WordStarts
<1>3. i <= i
  BY <1>1, <1>2
<1>4. UpToWord(l, i) \subseteq 1 .. Len(l) /\ i \in UpToWord(l, i)
  BY <1>2, <1>3 DEF UpToWord
<1>5. IsFiniteSet(1 .. Len(l))
  BY <1>1, FS_Interval
<1> QED
  BY <1>2, <1>4, <1>5, FS_Subset

(* No word, one word, the first of two, the second.                        *)
LEMMA WordlessIs ==
    ASSUME NEW l \in Lines, Spaces(l, 1, Len(l)), NEW n
    PROVE  NthWord(l, n) = None
<1>1. WordStarts(l) = {}
  BY LineIs DEF WordStarts, Spaces
<1> QED
  BY <1>1, NoWordIs

LEMMA FirstWordIs ==
    ASSUME NEW l \in Lines, NEW x, NEW y, IsWord(l, x, y), Spaces(l, 1, x - 1)
    PROVE  /\ NthWord(l, 1) = SubSeq(l, x, y)
           /\ UpToWord(l, x) = {x} /\ \A i \in WordStarts(l) : x <= i
<1>1. x \in WordStarts(l) /\ Word(l, x) = SubSeq(l, x, y) /\ WordStarts(l) \subseteq 1 .. Len(l)
  BY WordIs, WordCounts
<1>2. x \in 1 .. Len(l) /\ Len(l) \in Nat
  BY LineIs DEF IsWord
<1>3. ASSUME NEW i \in WordStarts(l) PROVE x <= i
  <2> SUFFICES ASSUME ~(x <= i) PROVE FALSE
    OBVIOUS
  <2>1. i \in 1 .. x - 1
    BY <1>1, <1>2
  <2>2. l[i] # Space
    BY DEF WordStarts
  <2> QED
    BY <2>1, <2>2 DEF Spaces
<1>4. UpToWord(l, x) = {x}
  <2>1. \A i \in WordStarts(l) : i <= x <=> i = x
    <3>1. ASSUME NEW i \in WordStarts(l) PROVE i <= x <=> i = x
      <4>1. x <= i /\ i \in Int /\ x \in Int
        BY <1>1, <1>2, <1>3
      <4> QED
        BY ONLY <4>1
    <3> QED
      BY <3>1
  <2> QED
    BY <1>1, <2>1 DEF UpToWord
<1>5. Cardinality(UpToWord(l, x)) = 1
  BY <1>4, FS_Singleton
<1>6. ASSUME NEW i \in WordStarts(l), Cardinality(UpToWord(l, i)) = 1 PROVE i = x
  <2>1. IsFiniteSet(UpToWord(l, i)) /\ i \in UpToWord(l, i)
    BY WordCounts
  <2>2. x \in UpToWord(l, i)
    BY <1>1, <1>3 DEF UpToWord
  <2>3. PICK z : UpToWord(l, i) = {z}
    BY <1>6, <2>1, FS_Singleton
  <2> QED
    BY <2>1, <2>2, <2>3
<1>7. NthWord(l, 1) = Word(l, x)
  BY <1>1, <1>5, <1>6, NthWordIs
<1> QED
  BY <1>1, <1>3, <1>4, <1>7

LEMMA OnlyWordIs ==
    ASSUME NEW l \in Lines, NEW x, NEW y, IsWord(l, x, y), Spaces(l, 1, x - 1),
           Spaces(l, y + 1, Len(l))
    PROVE  NthWord(l, 2) = None
<1>1. /\ Len(l) \in Nat /\ DOMAIN l = 1 .. Len(l) /\ x \in 1 .. Len(l) /\ y \in x .. Len(l)
      /\ \A k \in x .. y : l[k] # Space
  BY LineIs DEF IsWord
<1>2. UpToWord(l, x) = {x} /\ \A i \in WordStarts(l) : x <= i
  BY FirstWordIs
<1>3. ASSUME NEW i \in WordStarts(l) PROVE i = x
  <2>1. i \in 1 .. Len(l) /\ l[i] # Space /\ (i = 1 \/ l[i - 1] = Space) /\ x <= i
    BY <1>1, <1>2 DEF WordStarts
  <2>2. ~(i > y)
    <3> SUFFICES ASSUME i > y PROVE FALSE
      OBVIOUS
    <3>1. i \in y + 1 .. Len(l)
      BY <1>1, <2>1
    <3> QED
      BY <2>1, <3>1 DEF Spaces
  <2>3. ~(x < i)
    <3> SUFFICES ASSUME x < i PROVE FALSE
      OBVIOUS
    <3>1. i - 1 \in x .. y /\ i # 1
      BY <1>1, <2>1, <2>2
    <3> QED
      BY <1>1, <2>1, <3>1
  <2> QED
    BY <1>1, <2>1, <2>3
<1>4. \A i \in WordStarts(l) : Cardinality(UpToWord(l, i)) # 2
  <2>1. Cardinality({x}) = 1
    BY FS_Singleton
  <2>2. \A i \in WordStarts(l) : UpToWord(l, i) = {x}
    BY <1>2, <1>3
  <2>3. 1 # 2
    OBVIOUS
  <2> QED
    BY <2>1, <2>2, <2>3
<1> QED
  BY <1>4, NoWordIs

LEMMA SecondWordIs ==
    ASSUME NEW l \in Lines, NEW x, NEW y, IsWord(l, x, y), Spaces(l, 1, x - 1),
           NEW v, NEW w, IsWord(l, v, w), y < v, Spaces(l, y + 1, v - 1)
    PROVE  NthWord(l, 2) = SubSeq(l, v, w)
<1>1. /\ Len(l) \in Nat /\ DOMAIN l = 1 .. Len(l) /\ x \in 1 .. Len(l) /\ y \in x .. Len(l)
      /\ v \in 1 .. Len(l) /\ \A k \in x .. y : l[k] # Space
  BY LineIs DEF IsWord
<1>2. x \in Nat /\ y \in Nat /\ v \in Nat /\ x <= y /\ y < v /\ x >= 1
  BY ONLY <1>1, y < v
<1>3. /\ UpToWord(l, x) = {x} /\ \A i \in WordStarts(l) : x <= i
      /\ x \in WordStarts(l) /\ v \in WordStarts(l) /\ Word(l, v) = SubSeq(l, v, w)
      /\ WordStarts(l) \subseteq 1 .. Len(l)
  BY FirstWordIs, WordIs, WordCounts
<1>4. ASSUME NEW i \in WordStarts(l), i # x PROVE v <= i
  <2>1. i \in 1 .. Len(l) /\ l[i] # Space /\ (i = 1 \/ l[i - 1] = Space) /\ x <= i
    BY <1>1, <1>3 DEF WordStarts
  <2>2. i \in Nat /\ x < i
    <3>1. i \in 1 .. Len(l) /\ x <= i /\ i # x
      BY <1>4, <2>1
    <3> QED
      BY ONLY <1>1, <1>2, <3>1
  <2>3. ~(i <= y)
    <3> SUFFICES ASSUME i <= y PROVE FALSE
      OBVIOUS
    <3>1. i - 1 \in x .. y /\ i # 1
      BY <1>2, <2>2
    <3> QED
      BY <1>1, <2>1, <3>1
  <2>4. ~(i < v)
    <3> SUFFICES ASSUME i < v PROVE FALSE
      OBVIOUS
    <3>1. i \in y + 1 .. v - 1
      BY <1>2, <2>2, <2>3
    <3> QED
      BY <2>1, <3>1 DEF Spaces
  <2> QED
    BY <1>2, <2>2, <2>4
<1>5. UpToWord(l, v) = {x} \cup {v}
  <2>1. ASSUME NEW i \in WordStarts(l) PROVE i <= v <=> i = x \/ i = v
    <3>1. i \in Nat /\ (i = x \/ v <= i)
      BY <1>1, <1>3, <1>4
    <3> QED
      BY ONLY <1>2, <3>1
  <2> QED
    BY <1>3, <2>1 DEF UpToWord
<1>6. IsFiniteSet({x}) /\ Cardinality({x}) = 1 /\ v \notin {x}
  <2>1. v # x
    BY ONLY <1>2
  <2> QED
    BY <2>1, FS_Singleton
<1>7. IsFiniteSet({x} \cup {v}) /\ Cardinality({x} \cup {v}) = 2
  <2>1. /\ IsFiniteSet({x} \cup {v})
        /\ Cardinality({x} \cup {v}) = IF v \in {x} THEN Cardinality({x}) ELSE Cardinality({x}) + 1
    BY <1>6, FS_AddElement
  <2> QED
    BY <1>6, <2>1
<1>8. ASSUME NEW i \in WordStarts(l), Cardinality(UpToWord(l, i)) = 2 PROVE i = v
  <2>1. IsFiniteSet(UpToWord(l, i)) /\ i \in UpToWord(l, i)
    BY WordCounts
  <2>2. i # x
    <3> SUFFICES ASSUME i = x PROVE FALSE
      OBVIOUS
    <3>1. 1 # 2
      OBVIOUS
    <3> QED
      BY <1>3, <1>6, <1>8, <3>1
  <2>3. {x} \cup {v} \in SUBSET UpToWord(l, i)
    <3>1. v <= i /\ x <= i
      BY <1>3, <1>4, <2>2
    <3> QED
      BY <1>3, <3>1 DEF UpToWord
  <2>4. {x} \cup {v} = UpToWord(l, i)
    BY <1>7, <1>8, <2>1, <2>3, FS_Subset
  <2> QED
    BY <2>1, <2>2, <2>4
<1>9. NthWord(l, 2) = Word(l, v)
  <2>1. Cardinality(UpToWord(l, v)) = 2
    BY <1>5, <1>7
  <2> QED
    BY <1>3, <1>8, <2>1, NthWordIs
<1> QED
  BY <1>3, <1>9
-----------------------------------------------------------------------------
(* The buffer when Enter has been typed, and what strtok makes of it.      *)
Holds(s, l) ==
    /\ s \in Buffers /\ l \in Lines /\ Len(l) \in 0 .. MaxKeys
    /\ \A k \in 1 .. Len(l) : s[k - 1] = l[k]
    /\ s[Len(l)] = NUL

LEMMA TextIs ==
    ASSUME NEW s \in Buffers, NEW l \in Lines, NEW x \in 1 .. Len(l), NEW y \in x .. Len(l),
           y <= MaxKeys, \A k \in x .. y : s[k - 1] = l[k], s[y] = NUL
    PROVE  Text(s, {x - 1}) = SubSeq(l, x, y)
<1> DEFINE b == x - 1
           e == FirstFrom(s, b, {NUL})
           S == Letter \cup {Space, Tab}
           t == [i \in 1 .. e - b |-> s[b + i - 1]]
           u == SubSeq(l, x, y)
<1>1. /\ Len(l) \in Nat /\ MaxKeys \in Nat
      /\ \A k \in 1 .. Len(l) : l[k] \in S
  BY LineIs, Sizes
<1>2. /\ x \in Nat /\ y \in Nat /\ x >= 1 /\ x <= y /\ y <= Len(l) /\ y <= MaxKeys
      /\ b \in 0 .. MaxKeys /\ b \in Nat /\ x = b + 1
  BY <1>1
<1>3. /\ e \in b .. MaxKeys /\ s[e] = NUL
      /\ \A j \in b .. MaxKeys : s[j] = NUL => e <= j
  <2> DEFINE C == {NUL}
  <2>1. NUL \in C /\ \A c : c \in C <=> c = NUL
    OBVIOUS
  <2> HIDE DEF C, b
  <2>2. /\ FirstFrom(s, b, C) \in b .. MaxKeys /\ s[FirstFrom(s, b, C)] \in C
        /\ \A j \in b .. MaxKeys : s[j] \in C => FirstFrom(s, b, C) <= j
    BY <1>2, <2>1, FirstFromIs
  <2>3. e = FirstFrom(s, b, C)
    BY DEF C
  <2> HIDE DEF e
  <2> QED
    BY <2>1, <2>2, <2>3
<1>4. Text(s, {b}) = t
  <2>1. (CHOOSE c \in {b} : TRUE) = b
    OBVIOUS
  <2> QED
    BY <2>1 DEF Text
<1> HIDE DEF b, e
<1>5. e = y
  <2>1. e <= y
    <3>1. y \in b .. MaxKeys
      BY ONLY <1>2
    <3> QED
      BY <1>3, <3>1
  <2>2. ~(e < y)
    <3> SUFFICES ASSUME e < y PROVE FALSE
      OBVIOUS
    <3>1. e + 1 \in x .. y /\ e + 1 \in 1 .. Len(l) /\ (e + 1) - 1 = e
      <4>1. e \in b .. MaxKeys /\ e < y /\ Len(l) \in Nat /\ MaxKeys \in Nat
        BY <1>1, <1>3
      <4> QED
        BY ONLY <1>2, <4>1
    <3>2. s[e] = l[e + 1] /\ l[e + 1] \in S
      <4>1. s[(e + 1) - 1] = l[e + 1]
        BY <3>1
      <4> QED
        BY <1>1, <3>1, <4>1
    <3> QED
      BY <1>3, <3>2, Characters
  <2> QED
    BY <1>2, <1>3, <2>1, <2>2
<1>6. /\ u \in Seq(S) /\ Len(u) = y - x + 1
      /\ \A i \in 1 .. y - x + 1 : u[i] = l[x + i - 1]
  <2>1. \A i \in x .. y : l[i] \in S
    <3>1. \A i \in x .. y : i \in 1 .. Len(l)
      BY ONLY <1>1, <1>2
    <3> QED
      BY <1>1, <3>1
  <2>2. x \in Int /\ y \in Int
    BY <1>2
  <2> HIDE DEF S
  <2>3. /\ u \in Seq(S) /\ Len(u) = IF x <= y THEN y - x + 1 ELSE 0
        /\ \A i \in 1 .. y - x + 1 : u[i] = l[x + i - 1]
    BY <2>1, <2>2, SubSeqProperties
  <2> QED
    BY <1>2, <2>3
<1> HIDE DEF u, S
<1> DEFINE m == y - x + 1
<1>7. m \in Nat /\ e - b = m
  BY ONLY <1>2, <1>5
<1>8. t = [i \in 1 .. m |-> u[i]]
  <2>1. ASSUME NEW i \in 1 .. m PROVE s[b + i - 1] = u[i]
    <3>1. x + i - 1 \in x .. y /\ (x + i - 1) - 1 = b + i - 1
      BY ONLY <1>2, <1>7, i \in 1 .. m
    <3>2. s[(x + i - 1) - 1] = l[x + i - 1]
      BY <3>1
    <3> QED
      BY <1>6, <3>1, <3>2
  <2>2. t = [i \in 1 .. m |-> s[b + i - 1]]
    BY <1>7
  <2> HIDE DEF m, t
  <2> QED
    BY <2>1, <2>2
<1>9. u = [i \in 1 .. m |-> u[i]]
  <2>1. u \in [1 .. Len(u) -> S]
    BY <1>6, LenProperties
  <2> HIDE DEF m
  <2>2. Len(u) = m
    BY <1>6 DEF m
  <2> QED
    BY <2>1, <2>2
<1> QED
  BY <1>4, <1>8, <1>9 DEF b, u

LEMMA Scans ==
    ASSUME NEW s \in Buffers, NEW n \in 0 .. MaxKeys, NEW at \in 0 .. n, s[n] = NUL,
           \A k \in at .. n - 1 : s[k] # NUL
    PROVE  \E b \in at .. n, e \in at .. n :
              /\ b <= e /\ Strtok(s, at) = Scanned(s, at, b, e)
              /\ \A k \in at .. b - 1 : s[k] = Space
              /\ \A k \in b .. e - 1 : s[k] \notin {Space, NUL}
              /\ b < n => b < e
              /\ e < n => s[e] = Space
<1>0. MaxKeys \in Nat /\ n \in Nat /\ at \in Nat /\ at <= n /\ n <= MaxKeys
  <2>1. MaxKeys \in Nat
    BY Sizes
  <2> QED
    BY <2>1
<1>1. PICK b \in at .. MaxKeys, e \in at .. MaxKeys :
         /\ b <= e /\ Strtok(s, at) = Scanned(s, at, b, e)
         /\ s[b] \in Letter \cup {Tab, NUL} /\ s[e] \in {Space, NUL}
         /\ \A k \in at .. b - 1 : s[k] \notin Letter \cup {Tab, NUL}
         /\ \A k \in b .. e - 1 : s[k] \notin {Space, NUL}
         /\ \A j \in at .. MaxKeys : s[j] = NUL => b <= j
         /\ \A j \in b .. MaxKeys : s[j] = NUL => e <= j
  <2>1. at \in 0 .. MaxKeys
    BY <1>0
  <2> QED
    BY <2>1, StrtokIs
<1>2. b \in at .. n
  <2>1. n \in at .. MaxKeys
    BY <1>0
  <2>2. b <= n
    BY <1>1, <2>1
  <2> QED
    BY <1>0, <2>2
<1>3. e \in at .. n
  <2>1. n \in b .. MaxKeys
    BY <1>0, <1>2
  <2>2. e <= n
    BY <1>1, <2>1
  <2> QED
    BY <1>0, <2>2
<1>4. ASSUME NEW k \in at .. b - 1 PROVE s[k] = Space
  <2>1. k \in 0 .. MaxKeys
    BY <1>0
  <2>2. s[k] \in Char
    BY <2>1 DEF Buffers
  <2> QED
    BY <1>1, <2>2 DEF Char
<1>5. ASSUME b < n PROVE b < e
  <2>1. b \in at .. n - 1
    BY <1>0, <1>2, <1>5
  <2>2. s[b] \in Letter \cup {Tab}
    BY <1>1, <2>1
  <2>3. b # e
    BY <1>1, <2>2, Characters
  <2> QED
    BY <1>1, <1>2, <1>3, <2>3
<1>6. ASSUME e < n PROVE s[e] = Space
  <2>1. e \in at .. n - 1
    BY <1>0, <1>3, <1>6
  <2> QED
    BY <1>1, <2>1
<1> QED
  BY <1>1, <1>2, <1>3, <1>4, <1>5, <1>6

LEMMA HoldsIs ==
    ASSUME NEW s, NEW l, Holds(s, l)
    PROVE  /\ s \in Buffers /\ l \in Lines /\ MaxKeys \in Nat /\ Len(l) \in Nat /\ Len(l) <= MaxKeys
           /\ DOMAIN s = 0 .. MaxKeys /\ s[Len(l)] = NUL
           /\ \A k \in 0 .. Len(l) - 1 : s[k] = l[k + 1] /\ s[k] # NUL
<1>1. /\ s \in Buffers /\ l \in Lines /\ Len(l) \in 0 .. MaxKeys /\ s[Len(l)] = NUL
      /\ \A k \in 1 .. Len(l) : s[k - 1] = l[k]
  BY DEF Holds
<1>2. MaxKeys \in Nat /\ Len(l) \in Nat /\ Len(l) <= MaxKeys
  <2>1. MaxKeys \in Nat
    BY Sizes
  <2> QED
    BY <1>1, <2>1
<1>3. ASSUME NEW k \in 0 .. Len(l) - 1 PROVE s[k] = l[k + 1] /\ s[k] # NUL
  <2>1. k + 1 \in 1 .. Len(l) /\ (k + 1) - 1 = k
    BY <1>2
  <2>2. s[k] = l[k + 1]
    <3>1. s[(k + 1) - 1] = l[k + 1]
      BY <1>1, <2>1
    <3> QED
      BY <2>1, <3>1
  <2>3. l[k + 1] \in Letter \cup {Space, Tab}
    BY <1>1, <2>1, LineIs
  <2> QED
    BY <2>2, <2>3, Characters
<1>4. DOMAIN s = 0 .. MaxKeys
  BY <1>1 DEF Buffers
<1> QED
  BY <1>1, <1>2, <1>3, <1>4

(* A word found by strtok is one of the line.                              *)
FoundAt(l, at, b, e) ==
    /\ b \in at .. Len(l) /\ e \in b .. Len(l)
    /\ Spaces(l, at + 1, b)
    /\ \A k \in b + 1 .. e : l[k] # Space
    /\ b < Len(l) => b < e
    /\ e < Len(l) => l[e + 1] = Space

LEMMA FindsAt ==
    ASSUME NEW l, Len(l) \in Nat, Len(l) <= MaxKeys, NEW s \in Buffers, NEW at \in 0 .. Len(l),
           \A k \in at .. Len(l) - 1 : s[k] = l[k + 1] /\ s[k] # NUL, s[Len(l)] = NUL
    PROVE  \E b, e : Strtok(s, at) = Scanned(s, at, b, e) /\ FoundAt(l, at, b, e)
<1> DEFINE n == Len(l)
<1>1. MaxKeys \in Nat /\ n \in 0 .. MaxKeys /\ at \in Nat /\ at <= n /\ n \in Nat
  <2>1. MaxKeys \in Nat
    BY Sizes
  <2> QED
    BY <2>1
<1>2. PICK b \in at .. n, e \in at .. n :
         /\ b <= e /\ Strtok(s, at) = Scanned(s, at, b, e)
         /\ \A k \in at .. b - 1 : s[k] = Space
         /\ \A k \in b .. e - 1 : s[k] \notin {Space, NUL}
         /\ b < n => b < e
         /\ e < n => s[e] = Space
  <2> HIDE DEF n
  <2>1. s[n] = NUL /\ (\A k \in at .. n - 1 : s[k] # NUL) /\ at \in 0 .. n
    BY DEF n
  <2>2. s \in Buffers /\ n \in 0 .. MaxKeys
    BY <1>1
  <2> QED
    BY ONLY <2>1, <2>2, Scans
<1> HIDE DEF n
<1>3. b \in Nat /\ e \in Nat /\ at <= b /\ b <= e /\ e <= n /\ b \in at .. n /\ e \in b .. n
  <2>1. b \in at .. n /\ e \in at .. n /\ b <= e
    BY <1>2
  <2> QED
    BY ONLY <1>1, <2>1
<1>4. Spaces(l, at + 1, b)
  <2>1. ASSUME NEW k \in at + 1 .. b PROVE l[k] = Space
    <3>1. k - 1 \in at .. b - 1 /\ k - 1 \in at .. n - 1 /\ (k - 1) + 1 = k
      BY ONLY <1>1, <1>3, k \in at + 1 .. b
    <3>2. s[k - 1] = l[(k - 1) + 1]
      BY <3>1 DEF n
    <3> QED
      BY <1>2, <3>1, <3>2
  <2> QED
    BY <2>1 DEF Spaces
<1>5. ASSUME NEW k \in b + 1 .. e PROVE l[k] # Space
  <2>1. k - 1 \in b .. e - 1 /\ k - 1 \in at .. n - 1 /\ (k - 1) + 1 = k
    BY ONLY <1>1, <1>3, k \in b + 1 .. e
  <2>2. s[k - 1] = l[(k - 1) + 1]
    BY <2>1 DEF n
  <2> QED
    BY <1>2, <2>1, <2>2
<1>6. ASSUME e < n PROVE l[e + 1] = Space
  <2>1. e \in at .. n - 1
    BY ONLY <1>1, <1>3, <1>6
  <2>2. s[e] = l[e + 1]
    BY <2>1 DEF n
  <2> QED
    BY <1>2, <1>6, <2>2
<1>7. FoundAt(l, at, b, e)
  BY <1>2, <1>3, <1>4, <1>5, <1>6 DEF FoundAt, n
<1> QED
  BY <1>2, <1>7

LEMMA FoundIs ==
    ASSUME NEW l, Len(l) \in Nat, NEW at \in 0 .. Len(l), at = 0 \/ l[at] = Space,
           NEW b, NEW e, FoundAt(l, at, b, e), b < Len(l)
    PROVE  IsWord(l, b + 1, e) /\ b \in Nat /\ e \in Nat /\ b < e /\ e <= Len(l)
<1>1. /\ b \in at .. Len(l) /\ e \in b .. Len(l) /\ b < e
      /\ Spaces(l, at + 1, b)
      /\ \A k \in b + 1 .. e : l[k] # Space
      /\ e < Len(l) => l[e + 1] = Space
  BY DEF FoundAt
<1>2. b \in Nat /\ e \in Nat /\ at \in Nat /\ at <= b /\ b < e /\ e <= Len(l)
  <2>1. b \in at .. Len(l) /\ e \in b .. Len(l) /\ b < e
    BY <1>1
  <2> QED
    BY ONLY <2>1, at \in 0 .. Len(l), Len(l) \in Nat
<1>3. b + 1 = 1 \/ l[(b + 1) - 1] = Space
  <2>1. CASE b = at
    BY <1>2, <2>1
  <2>2. CASE b # at
    <3>1. b \in at + 1 .. b /\ (b + 1) - 1 = b
      BY ONLY <1>2, <2>2
    <3> QED
      BY <1>1, <3>1 DEF Spaces
  <2> QED
    BY <2>1, <2>2
<1>4. e = Len(l) \/ l[e + 1] = Space
  BY <1>1, <1>2
<1>5. b + 1 \in 1 .. Len(l) /\ e \in b + 1 .. Len(l)
  BY ONLY <1>2, Len(l) \in Nat
<1> QED
  BY <1>1, <1>2, <1>3, <1>4, <1>5 DEF IsWord

(* Nothing to find: the buffer stays as it is.                             *)
LEMMA NothingLeft ==
    ASSUME NEW s \in Buffers, NEW at \in 0 .. MaxKeys, s[at] = NUL
    PROVE  Strtok(s, at) = [s |-> s, pos |-> 0, token |-> {}]
<1>1. MaxKeys \in Nat /\ at \in at .. at /\ DOMAIN s = 0 .. MaxKeys /\ s = [i \in 0 .. MaxKeys |-> s[i]]
  BY Sizes DEF Buffers
<1>2. PICK b \in at .. at, e \in at .. at : Strtok(s, at) = Scanned(s, at, b, e)
  <2>1. \A k \in at .. at - 1 : s[k] # NUL
    BY <1>1
  <2> QED
    BY <1>1, <2>1, Scans
<1>3. b = at /\ e = at
  BY <1>1
<1>4. [i \in DOMAIN s |-> IF i \in at .. at - 1 \/ i = at THEN NUL ELSE s[i]] = s
  <2>1. \A i \in 0 .. MaxKeys : (IF i \in at .. at - 1 \/ i = at THEN NUL ELSE s[i]) = s[i]
    BY <1>1
  <2> QED
    BY <1>1, <2>1
<1>5. NUL # Space
  BY Characters
<1> QED
  BY <1>2, <1>3, <1>4, <1>5 DEF Scanned

(* What RunCommand understands.                                            *)
Understood(s, l) ==
    LET first == Strtok(s, 0)
        second == Strtok(first.s, first.pos)
    IN  /\ Text(second.s, first.token) = NthWord(l, 1)
        /\ Text(second.s, second.token) = Parameter(l)
        /\ second.pos # 0 => BehindSecond(l)

IsScanned(r, s, at, b, e) ==
    /\ \A i \in 0 .. MaxKeys : r.s[i] = IF i \in at .. b - 1 \/ i = e THEN NUL ELSE s[i]
    /\ r.pos = IF s[e] = Space THEN e + 1 ELSE 0
    /\ r.token = IF b = e THEN {} ELSE {b}

LEMMA ScannedIs ==
    ASSUME NEW s \in Buffers, NEW at, NEW b, NEW e
    PROVE  IsScanned(Scanned(s, at, b, e), s, at, b, e)
<1>1. DOMAIN s = 0 .. MaxKeys
  BY DEF Buffers
<1> QED
  BY <1>1 DEF Scanned, IsScanned

LEMMA UnderstoodNone ==
    ASSUME NEW s, NEW l, Holds(s, l), NEW b, NEW e, Strtok(s, 0) = Scanned(s, 0, b, e),
           FoundAt(l, 0, b, e), b = Len(l)
    PROVE  Understood(s, l)
<1> DEFINE n == Len(l)
           first == Strtok(s, 0)
           t == first.s
<1>1. /\ s \in Buffers /\ l \in Lines /\ MaxKeys \in Nat /\ n \in Nat /\ n <= MaxKeys
      /\ s[n] = NUL
  BY HoldsIs
<1>2. b = n /\ e = n /\ Spaces(l, 1, n)
  BY <1>1 DEF FoundAt
<1>3. 0 \in 0 .. MaxKeys
  BY <1>1
<1> HIDE DEF first
<1>12. /\ \A i \in 0 .. MaxKeys : t[i] = IF i \in 0 .. b - 1 \/ i = e THEN NUL ELSE s[i]
       /\ first.pos = IF s[e] = Space THEN e + 1 ELSE 0
       /\ first.token = IF b = e THEN {} ELSE {b}
  <2>1. first = Scanned(s, 0, b, e)
    BY DEF first
  <2>2. IsScanned(first, s, 0, b, e)
    BY <1>1, <2>1, ScannedIs
  <2> QED
    BY <2>2 DEF IsScanned
<1>4. first.token = {} /\ first.pos = 0 /\ t \in Buffers
  <2>1. first.token = {}
    BY <1>2, <1>12
  <2>2. s[e] # Space
    BY <1>1, <1>2, Characters
  <2>3. first.pos = 0
    BY <1>12, <2>2
  <2>4. t \in Buffers
    BY <1>1, <1>3, StrtokKeeps DEF first
  <2> QED
    BY <2>1, <2>3, <2>4
<1>5. t[0] = NUL
  <2>1. t[0] = IF 0 \in 0 .. b - 1 \/ 0 = e THEN NUL ELSE s[0]
    BY <1>3, <1>12
  <2>2. 0 \in 0 .. b - 1 \/ 0 = e
    BY <1>1, <1>2
  <2> QED
    BY <2>1, <2>2
<1> HIDE DEF t, n
<1>6. Strtok(t, 0) = [s |-> t, pos |-> 0, token |-> {}]
  BY <1>3, <1>4, <1>5, NothingLeft
<1>7. NthWord(l, 1) = None /\ NthWord(l, 2) = None /\ Parameter(l) = None
  <2>1. NthWord(l, 1) = None /\ NthWord(l, 2) = None
    BY <1>1, <1>2, WordlessIs DEF n
  <2> QED
    BY <2>1 DEF Parameter
<1>8. \A x : Text(x, {}) = None
  BY DEF Text
<1> DEFINE second == Strtok(first.s, first.pos)
<1>9. second = [s |-> t, pos |-> 0, token |-> {}]
  BY <1>4, <1>6 DEF t
<1>10. second.token = {} /\ second.pos = 0
  BY <1>9
<1>11. Text(second.s, first.token) = None /\ Text(second.s, second.token) = None
  BY <1>4, <1>8, <1>10
<1> QED
  BY <1>7, <1>10, <1>11 DEF Understood, first

(* The first word in what the second call of strtok leaves.                *)
LEMMA FirstText ==
    ASSUME NEW s, NEW l, Holds(s, l), NEW b, NEW e, FoundAt(l, 0, b, e), b < Len(l),
           NEW u \in Buffers, \A i \in b .. e - 1 : u[i] = s[i], u[e] = NUL
    PROVE  Text(u, {b}) = NthWord(l, 1) /\ IsWord(l, b + 1, e) /\ Spaces(l, 1, b)
<1>1. /\ s \in Buffers /\ l \in Lines /\ MaxKeys \in Nat /\ Len(l) \in Nat /\ Len(l) <= MaxKeys
      /\ \A k \in 0 .. Len(l) - 1 : s[k] = l[k + 1]
  BY HoldsIs
<1>2. IsWord(l, b + 1, e) /\ b \in Nat /\ e \in Nat /\ b < e /\ e <= Len(l)
  <2>1. 0 \in 0 .. Len(l)
    BY <1>1
  <2> QED
    BY <1>1, <2>1, FoundIs
<1>3. Spaces(l, 1, b)
  BY DEF FoundAt
<1>4. NthWord(l, 1) = SubSeq(l, b + 1, e)
  <2>1. (b + 1) - 1 = b
    BY <1>2
  <2> QED
    BY <1>1, <1>2, <1>3, <2>1, FirstWordIs
<1>5. \A k \in b + 1 .. e : u[k - 1] = l[k]
  <2>1. ASSUME NEW k \in b + 1 .. e PROVE u[k - 1] = l[k]
    <3>1. k - 1 \in b .. e - 1 /\ k - 1 \in 0 .. Len(l) - 1 /\ (k - 1) + 1 = k
      BY ONLY <1>1, <1>2, k \in b + 1 .. e
    <3>2. s[k - 1] = l[(k - 1) + 1]
      BY <1>1, <3>1
    <3> QED
      BY <3>1, <3>2
  <2> QED
    BY <2>1
<1>6. b + 1 \in 1 .. Len(l) /\ e \in b + 1 .. Len(l) /\ e <= MaxKeys /\ (b + 1) - 1 = b
  BY ONLY <1>1, <1>2
<1>7. Text(u, {(b + 1) - 1}) = SubSeq(l, b + 1, e)
  <2> DEFINE x == b + 1
  <2>1. x \in 1 .. Len(l) /\ e \in x .. Len(l) /\ \A k \in x .. e : u[k - 1] = l[k]
    BY <1>5, <1>6
  <2> HIDE DEF x
  <2>2. Text(u, {x - 1}) = SubSeq(l, x, e)
    BY <1>1, <1>6, <2>1, TextIs
  <2> QED
    BY <2>2 DEF x
<1> QED
  BY <1>2, <1>3, <1>4, <1>6, <1>7

(* The line ends behind its first word.                                    *)
LEMMA UnderstoodOne ==
    ASSUME NEW s, NEW l, Holds(s, l), NEW b, NEW e, Strtok(s, 0) = Scanned(s, 0, b, e),
           FoundAt(l, 0, b, e), b < Len(l), e = Len(l)
    PROVE  Understood(s, l)
<1> DEFINE n == Len(l)
           first == Strtok(s, 0)
           t == first.s
           second == Strtok(first.s, first.pos)
<1>1. /\ s \in Buffers /\ l \in Lines /\ MaxKeys \in Nat /\ n \in Nat /\ n <= MaxKeys
      /\ s[n] = NUL /\ \A k \in 0 .. n - 1 : s[k] = l[k + 1] /\ s[k] # NUL
  BY HoldsIs
<1>2. b \in Nat /\ b < n /\ e = n /\ 0 \in 0 .. MaxKeys /\ n \in 0 .. MaxKeys /\ b # n
  <2>1. b \in 0 .. n
    BY DEF FoundAt
  <2> QED
    BY <1>1, <2>1
<1> HIDE DEF first
<1>3. /\ \A i \in 0 .. MaxKeys : t[i] = IF i \in 0 .. b - 1 \/ i = n THEN NUL ELSE s[i]
      /\ first.pos = 0 /\ first.token = {b} /\ t \in Buffers
  <2>1. IsScanned(first, s, 0, b, e)
    BY <1>1, ScannedIs DEF first
  <2>2. s[e] # Space
    BY <1>1, Characters
  <2>3. t \in Buffers
    BY <1>1, <1>2, StrtokKeeps DEF first
  <2>4. first.pos = 0 /\ first.token = {b}
    BY <1>2, <2>1, <2>2 DEF IsScanned
  <2> QED
    BY <1>2, <2>1, <2>3, <2>4 DEF IsScanned
<1> HIDE DEF t
<1>4. second = Strtok(t, 0)
  BY <1>3 DEF t
<1> HIDE DEF second
<1>5. t[n] = NUL /\ \A i \in b .. n - 1 : t[i] = s[i]
  <2>1. t[n] = NUL
    BY <1>2, <1>3
  <2>2. ASSUME NEW i \in b .. n - 1 PROVE t[i] = s[i]
    <3>1. i \in 0 .. MaxKeys /\ i \notin 0 .. b - 1 /\ i # n
      BY ONLY <1>1, <1>2, i \in b .. n - 1
    <3> QED
      BY <1>3, <3>1
  <2> QED
    BY <2>1, <2>2
<1>6. Text(t, {b}) = NthWord(l, 1) /\ IsWord(l, b + 1, e) /\ Spaces(l, 1, b)
  <2>1. t \in Buffers /\ t[e] = NUL /\ (\A i \in b .. e - 1 : t[i] = s[i]) /\ b < Len(l)
    BY <1>2, <1>3, <1>5
  <2> HIDE DEF n
  <2> QED
    BY ONLY <2>1, Holds(s, l), FoundAt(l, 0, b, e), FirstText
<1>7. NthWord(l, 2) = None
  <2>1. (b + 1) - 1 = b
    BY <1>2
  <2>2. Spaces(l, e + 1, n)
    BY <1>1, <1>2 DEF Spaces
  <2> QED
    BY <1>1, <1>6, <2>1, <2>2, OnlyWordIs DEF n
<1>8. CASE b = 0
  <2>1. t = s
    <3>1. \A i \in 0 .. MaxKeys : t[i] = s[i]
      <4>1. ASSUME NEW i \in 0 .. MaxKeys PROVE t[i] = s[i]
        <5>1. i \notin 0 .. b - 1
          BY <1>8
        <5>2. t[i] = IF i = n THEN NUL ELSE s[i]
          BY <1>3, <5>1
        <5> QED
          BY <1>1, <5>2
      <4> QED
        BY <4>1
    <3>2. t \in [0 .. MaxKeys -> Char] /\ s \in [0 .. MaxKeys -> Char]
      BY <1>1, <1>3 DEF Buffers
    <3>3. t = [i \in 0 .. MaxKeys |-> t[i]] /\ s = [i \in 0 .. MaxKeys |-> s[i]]
      BY <3>2
    <3> QED
      BY <3>1, <3>3
  <2>2. second = first
    BY <1>4, <2>1 DEF first
  <2>3. second.s = t /\ second.token = {b} /\ second.pos = 0
    BY <1>3, <2>2 DEF t
  <2>4. Space \notin ToSet(l)
    <3>1. \A k \in 1 .. n : l[k] # Space
      BY <1>2, <1>8 DEF FoundAt, n
    <3>2. DOMAIN l = 1 .. n
      BY <1>1, LineIs
    <3> QED
      BY <3>1, <3>2 DEF ToSet
  <2>5. Parameter(l) = NthWord(l, 1)
    BY <1>7, <2>4 DEF Parameter
  <2> QED
    BY <1>3, <1>6, <2>3, <2>5 DEF Understood, first, second, t
<1>9. CASE b # 0
  <2>1. t[0] = NUL
    <3>1. 0 \in 0 .. b - 1
      BY <1>2, <1>9
    <3> QED
      BY <1>2, <1>3, <3>1
  <2>2. second = [s |-> t, pos |-> 0, token |-> {}]
    BY <1>2, <1>3, <1>4, <2>1, NothingLeft
  <2>3. second.s = t /\ second.token = {} /\ second.pos = 0
    BY <2>2
  <2>4. Text(t, {}) = None
    BY DEF Text
  <2>5. Space \in ToSet(l)
    <3>1. 1 \in 1 .. b /\ 1 \in 1 .. n
      BY <1>1, <1>2, <1>9
    <3>2. l[1] = Space
      BY <1>6, <3>1 DEF Spaces
    <3>3. DOMAIN l = 1 .. n
      BY <1>1, LineIs
    <3> QED
      BY <3>1, <3>2, <3>3 DEF ToSet
  <2>6. Parameter(l) = None
    BY <1>7, <2>5 DEF Parameter
  <2> QED
    BY <1>3, <1>6, <2>3, <2>4, <2>6 DEF Understood, first, second, t
<1> QED
  BY <1>8, <1>9

(* It goes on.                                                             *)
LEMMA UnderstoodMore ==
    ASSUME NEW s, NEW l, Holds(s, l), NEW b, NEW e, Strtok(s, 0) = Scanned(s, 0, b, e),
           FoundAt(l, 0, b, e), b < Len(l), e < Len(l)
    PROVE  Understood(s, l)
<1> DEFINE n == Len(l)
           first == Strtok(s, 0)
           t == first.s
           second == Strtok(first.s, first.pos)
           u == second.s
<1>1. /\ s \in Buffers /\ l \in Lines /\ MaxKeys \in Nat /\ n \in Nat /\ n <= MaxKeys
      /\ s[n] = NUL /\ \A k \in 0 .. n - 1 : s[k] = l[k + 1] /\ s[k] # NUL
  BY HoldsIs
<1>2. /\ b \in Nat /\ e \in Nat /\ b < e /\ e < n /\ l[e + 1] = Space
      /\ 0 \in 0 .. MaxKeys /\ n \in 0 .. MaxKeys /\ e \in 0 .. MaxKeys /\ e + 1 \in 0 .. n
      /\ e + 1 \in 0 .. MaxKeys
  <2>1. b \in 0 .. n /\ e \in b .. n /\ b < e /\ e < n /\ l[e + 1] = Space
    BY DEF FoundAt
  <2> QED
    BY <1>1, <2>1
<1>3. s[e] = Space
  <2>1. e \in 0 .. n - 1
    BY <1>1, <1>2
  <2> QED
    BY <1>1, <1>2, <2>1
<1> HIDE DEF first
<1>4. /\ \A i \in 0 .. MaxKeys : t[i] = IF i \in 0 .. b - 1 \/ i = e THEN NUL ELSE s[i]
      /\ first.pos = e + 1 /\ first.token = {b} /\ t \in Buffers
  <2>1. IsScanned(first, s, 0, b, e)
    BY <1>1, ScannedIs DEF first
  <2>2. t \in Buffers
    BY <1>1, <1>2, StrtokKeeps DEF first
  <2>3. b # e
    BY <1>2
  <2>4. first.pos = e + 1 /\ first.token = {b}
    BY <1>3, <2>1, <2>3 DEF IsScanned
  <2> QED
    BY <2>1, <2>2, <2>4 DEF IsScanned
<1> HIDE DEF t
<1>5. second = Strtok(t, e + 1)
  BY <1>4 DEF t
<1> HIDE DEF second
<1>6. /\ t[e] = NUL /\ \A i \in b .. e - 1 : t[i] = s[i]
      /\ \A i \in e + 1 .. n : t[i] = s[i]
  <2>1. t[e] = NUL
    BY <1>2, <1>4
  <2>2. ASSUME NEW i \in b .. e - 1 PROVE t[i] = s[i]
    <3>1. i \in 0 .. MaxKeys /\ i \notin 0 .. b - 1 /\ i # e
      BY ONLY <1>1, <1>2, i \in b .. e - 1
    <3> QED
      BY <1>4, <3>1
  <2>3. ASSUME NEW i \in e + 1 .. n PROVE t[i] = s[i]
    <3>1. i \in 0 .. MaxKeys /\ i \notin 0 .. b - 1 /\ i # e
      BY ONLY <1>1, <1>2, i \in e + 1 .. n
    <3> QED
      BY <1>4, <3>1
  <2> QED
    BY <2>1, <2>2, <2>3
<1>7. t[n] = NUL
  <2>1. n \in e + 1 .. n
    BY <1>1, <1>2
  <2> QED
    BY <1>1, <1>6, <2>1
<1>8. \A k \in e + 1 .. n - 1 : t[k] = l[k + 1] /\ t[k] # NUL
  <2>1. ASSUME NEW k \in e + 1 .. n - 1 PROVE t[k] = l[k + 1] /\ t[k] # NUL
    <3>1. k \in e + 1 .. n /\ k \in 0 .. n - 1
      BY ONLY <1>1, <1>2, k \in e + 1 .. n - 1
    <3> QED
      BY <1>1, <1>6, <3>1
  <2> QED
    BY <2>1
<1>9. PICK c, d : Strtok(t, e + 1) = Scanned(t, e + 1, c, d) /\ FoundAt(l, e + 1, c, d)
  <2> DEFINE at == e + 1
  <2>1. at \in 0 .. n /\ \A k \in at .. n - 1 : t[k] = l[k + 1] /\ t[k] # NUL
    BY <1>2, <1>8
  <2> HIDE DEF at
  <2>2. \E c, d : Strtok(t, at) = Scanned(t, at, c, d) /\ FoundAt(l, at, c, d)
    BY <1>1, <1>4, <1>7, <2>1, FindsAt
  <2> QED
    BY <2>2 DEF at
<1>10. /\ \A i \in 0 .. MaxKeys : u[i] = IF i \in e + 1 .. c - 1 \/ i = d THEN NUL ELSE t[i]
       /\ second.pos = (IF t[d] = Space THEN d + 1 ELSE 0)
       /\ second.token = (IF c = d THEN {} ELSE {c})
       /\ u \in Buffers
  <2>1. IsScanned(second, t, e + 1, c, d)
    BY <1>4, <1>5, <1>9, ScannedIs
  <2>2. u \in Buffers
    BY <1>2, <1>4, <1>5, StrtokKeeps
  <2> QED
    BY <2>1, <2>2 DEF IsScanned
<1> HIDE DEF u
<1>11. /\ c \in Nat /\ d \in Nat /\ e + 1 <= c /\ c <= d /\ d <= n
       /\ Spaces(l, e + 1, c) /\ (c < n => c < d)
       /\ \A k \in c + 1 .. d : l[k] # Space
       /\ d < n => l[d + 1] = Space
  <2>1. /\ c \in e + 1 .. n /\ d \in c .. n /\ Spaces(l, e + 1 + 1, c) /\ (c < n => c < d)
        /\ \A k \in c + 1 .. d : l[k] # Space
        /\ d < n => l[d + 1] = Space
    BY <1>9 DEF FoundAt
  <2>2. c \in Nat /\ d \in Nat /\ e + 1 <= c /\ c <= d /\ d <= n
    <3>1. c \in e + 1 .. n /\ d \in c .. n
      BY <2>1
    <3> QED
      BY ONLY <1>1, <1>2, <3>1
  <2>3. Spaces(l, e + 1, c)
    <3>1. ASSUME NEW k \in e + 1 .. c PROVE l[k] = Space
      <4>1. k = e + 1 \/ k \in e + 1 + 1 .. c
        BY ONLY <1>2, <2>2, k \in e + 1 .. c
      <4> QED
        BY <1>2, <2>1, <4>1 DEF Spaces
    <3> QED
      BY <3>1 DEF Spaces
  <2> QED
    BY <2>1, <2>2, <2>3
<1>12. u[e] = NUL /\ \A i \in b .. e - 1 : u[i] = s[i]
  <2>1. u[e] = NUL
    BY <1>2, <1>6, <1>10
  <2>2. ASSUME NEW i \in b .. e - 1 PROVE u[i] = s[i]
    <3>1. i \in 0 .. MaxKeys /\ i \notin e + 1 .. c - 1 /\ i # d
      BY ONLY <1>1, <1>2, <1>11, i \in b .. e - 1
    <3>2. u[i] = t[i]
      BY <1>10, <3>1
    <3> QED
      BY <1>6, <3>2
  <2> QED
    BY <2>1, <2>2
<1>13. Text(u, {b}) = NthWord(l, 1) /\ IsWord(l, b + 1, e) /\ Spaces(l, 1, b)
  BY <1>10, <1>12, FirstText
<1>14. Parameter(l) = NthWord(l, 2)
  <2>1. e + 1 \in 1 .. n
    BY <1>1, <1>2
  <2>2. DOMAIN l = 1 .. n
    BY <1>1, LineIs
  <2>3. Space \in ToSet(l)
    BY <1>2, <2>1, <2>2 DEF ToSet
  <2> QED
    BY <2>3 DEF Parameter
<1>15. (b + 1) - 1 = b
  BY <1>2
<1>16. CASE c = n
  <2>1. d = n
    BY <1>1, <1>11, <1>16
  <2>2. second.pos = 0 /\ second.token = {}
    <3>1. t[d] # Space
      BY <1>7, <2>1, Characters
    <3> QED
      BY <1>10, <1>16, <2>1, <3>1
  <2>3. NthWord(l, 2) = None
    <3>1. Spaces(l, e + 1, Len(l))
      BY <1>11, <1>16 DEF n
    <3> QED
      BY <1>1, <1>13, <1>15, <3>1, OnlyWordIs
  <2>4. Text(u, {}) = None
    BY DEF Text
  <2> QED
    BY <1>4, <1>13, <1>14, <2>2, <2>3, <2>4 DEF Understood, first, second, u
<1>17. CASE c # n
  <2>1. c < n /\ c < d /\ c # d /\ (c + 1) - 1 = c /\ e < c + 1 /\ c + 1 \in 1 .. n /\ d \in c + 1 .. n
    BY <1>1, <1>2, <1>11, <1>17
  <2>2. second.token = {c}
    BY <1>10, <2>1
  <2>3. IsWord(l, c + 1, d)
    <3> DEFINE at == e + 1
    <3>1. at \in 0 .. Len(l) /\ l[at] = Space /\ FoundAt(l, at, c, d)
      BY <1>2, <1>9
    <3> HIDE DEF at
    <3> QED
      BY <1>1, <2>1, <3>1, FoundIs
  <2>4. NthWord(l, 2) = SubSeq(l, c + 1, d)
    <3> DEFINE v == c + 1
               x == b + 1
    <3>1. IsWord(l, x, e) /\ Spaces(l, 1, x - 1) /\ IsWord(l, v, d) /\ e < v /\ Spaces(l, e + 1, v - 1)
      BY <1>11, <1>13, <1>15, <2>1, <2>3
    <3> HIDE DEF v, x
    <3>2. NthWord(l, 2) = SubSeq(l, v, d)
      BY <1>1, <3>1, SecondWordIs
    <3> QED
      BY <3>2 DEF v
  <2>5. Text(u, {c}) = SubSeq(l, c + 1, d)
    <3> DEFINE v == c + 1
    <3>1. ASSUME NEW k \in v .. d PROVE u[k - 1] = l[k]
      <4>1. /\ k - 1 \in 0 .. MaxKeys /\ k - 1 \notin e + 1 .. c - 1 /\ k - 1 # d
            /\ k - 1 \in e + 1 .. n - 1 /\ (k - 1) + 1 = k
        BY ONLY <1>1, <1>2, <1>11, k \in c + 1 .. d
      <4>2. u[k - 1] = t[k - 1]
        BY <1>10, <4>1
      <4>3. t[k - 1] = l[(k - 1) + 1]
        BY <1>8, <4>1
      <4> QED
        BY <4>1, <4>2, <4>3
    <3>2. u[d] = NUL
      <4>1. d \in 0 .. MaxKeys
        BY ONLY <1>1, <1>11
      <4> QED
        BY <1>10, <4>1
    <3>3. v \in 1 .. Len(l) /\ d \in v .. Len(l) /\ d <= MaxKeys
      <4>1. d <= MaxKeys
        BY ONLY <1>1, <1>11
      <4> QED
        BY <2>1, <4>1
    <3>4. v - 1 = c
      BY <2>1
    <3> HIDE DEF v
    <3>5. Text(u, {v - 1}) = SubSeq(l, v, d)
      BY <1>1, <1>10, <3>1, <3>2, <3>3, TextIs
    <3> QED
      BY <3>4, <3>5 DEF v
  <2>6. ASSUME second.pos # 0 PROVE BehindSecond(l)
    <3>1. t[d] = Space
      BY <1>10, <2>6
    <3>2. d # n
      BY <1>7, <3>1, Characters
    <3>3. d < n /\ l[d + 1] = Space
      BY <1>1, <1>11, <3>2
    <3>4. DOMAIN l = 1 .. n
      BY <1>1, LineIs
    <3> DEFINE i == b + 1
               j == c + 1
               k == d + 1
               m == e + 1
    <3>5. /\ i \in 1 .. n /\ j \in 1 .. n /\ k \in 1 .. n /\ i < j /\ j < k
          /\ m \in i + 1 .. j - 1
      BY ONLY <1>1, <1>2, <1>11, <2>1, <3>3
    <3>6. l[i] # Space /\ l[j] # Space
      <4>1. i \in i .. e /\ j \in j .. d
        BY ONLY <1>2, <1>11, <2>1
      <4> QED
        BY <1>13, <2>3, <4>1 DEF IsWord
    <3>7. l[k] = Space /\ l[m] = Space
      BY <1>2, <3>3
    <3> HIDE DEF i, j, k, m
    <3> QED
      BY <3>4, <3>5, <3>6, <3>7 DEF BehindSecond
  <2> QED
    BY <1>4, <1>13, <1>14, <2>2, <2>4, <2>5, <2>6 DEF Understood, first, second, u
<1> QED
  BY <1>16, <1>17

LEMMA Understands ==
    ASSUME NEW s, NEW l, Holds(s, l)
    PROVE  Understood(s, l)
<1>1. /\ s \in Buffers /\ Len(l) \in Nat /\ Len(l) <= MaxKeys /\ s[Len(l)] = NUL
      /\ \A k \in 0 .. Len(l) - 1 : s[k] = l[k + 1] /\ s[k] # NUL
  BY HoldsIs
<1>2. 0 \in 0 .. Len(l)
  BY <1>1
<1>3. PICK b, e : Strtok(s, 0) = Scanned(s, 0, b, e) /\ FoundAt(l, 0, b, e)
  BY <1>1, <1>2, FindsAt
<1>4. b \in 0 .. Len(l) /\ e \in b .. Len(l)
  BY <1>3 DEF FoundAt
<1>5. b = Len(l) \/ (b < Len(l) /\ e = Len(l)) \/ (b < Len(l) /\ e < Len(l))
  BY <1>1, <1>4
<1> QED
  BY <1>3, <1>5, UnderstoodNone, UnderstoodOne, UnderstoodMore

-----------------------------------------------------------------------------
(* The invariant, part by part.  The buffer's last byte is never written,  *)
(* and every child started has taken an Enter.                             *)
Structure ==
    /\ pc \in {"boot", "prompt", "gets", "run", "dead", "panicked"}
    /\ inputBuffer \in Buffers
    /\ line \in Lines /\ index = Len(line)
    /\ keys \in 0 .. MaxKeys /\ index <= keys /\ index < MaxKeys
    /\ pos \in 0 .. MaxKeys
    /\ started \in Nat /\ cleared \in Nat /\ started + cleared <= keys
    /\ pc = "run" => started + cleared < keys
    /\ plain \in BOOLEAN /\ trailing \in BOOLEAN

(* What is typed is in the buffer, whatever older lines left there.        *)
Typed ==
    /\ pc \in {"gets", "run"} => \A k \in 1 .. Len(line) : inputBuffer[k - 1] = line[k]
    /\ pc = "run" => inputBuffer[index] = NUL

Disk ==
    /\ archive \in Archives
    /\ pc # "boot" => Mounted

(* strtok starts at the front of a line, unless it was left behind.        *)
Unparsed ==
    /\ pc = "boot" => line = <<>> /\ ran = Ran(None, None, <<>>, FALSE)
    /\ pc \in {"boot", "gets", "run"} /\ ~trailing => pos = 0
    /\ pc = "prompt" /\ ~trailing => pos = 0 \/ BehindSecond(line)

Inv == Structure /\ Typed /\ Disk /\ OnScreen(screen)

LEMMA InvInit ==
    ASSUME Init
    PROVE  Inv /\ Unparsed
<1> USE DEF Init, inputVars
<1>1. <<>> \in Lines /\ Len(<<>>) = 0
  BY DEF Lines
<1>2. inputBuffer \in Buffers
  <2>1. MaxKeys \in 0 .. MaxKeys
    BY Sizes
  <2> QED
    BY <2>1, Characters DEF Buffers
<1>3. Structure
  BY <1>1, <1>2, Sizes DEF Structure
<1>4. Typed /\ Disk /\ Unparsed
  BY DEF Typed, Disk, StorageInit, Unparsed
<1>5. OnScreen(screen)
  <2>1. Cleared \in Screens({Blank})
    BY ClearedIs
  <2> QED
    BY <2>1 DEF ConsoleInit, OnScreen
<1> QED
  BY <1>3, <1>4, <1>5 DEF Inv

(* The screen stays a screen.                                              *)
LEMMA OnScreenStep ==
    ASSUME Inv, [Next]_allVars
    PROVE  OnScreen(screen')
<1>1. OnScreen(screen) /\ Disk
  BY DEF Inv
<1>2. OnScreen(Cleared)
  <2>1. Cleared \in Screens({Blank})
    BY ClearedIs
  <2> QED
    BY <2>1 DEF OnScreen
<1>3. CASE Boot
  <2> DEFINE text == <<Newline, Message, Newline, Message>>
  <2>1. Len(text) \in Nat
    OBVIOUS
  <2>2. screen' = PutStr(Cleared, text)
    BY <1>3 DEF Boot
  <2> HIDE DEF text
  <2> QED
    BY <1>2, <2>1, <2>2, ScreenKept
<1>4. CASE Prompt
  <2> DEFINE text == <<Newline, ">", Space>>
  <2>1. Len(text) \in Nat
    OBVIOUS
  <2>2. screen' = PutStr(screen, text)
    BY <1>4 DEF Prompt, VGA_putStr
  <2> HIDE DEF text
  <2> QED
    BY <1>1, <2>1, <2>2, ScreenKept
<1>5. ASSUME NEW c, screen' = PutStr(screen, <<c>>) PROVE OnScreen(screen')
  <2>1. Len(<<c>>) \in Nat
    OBVIOUS
  <2> QED
    BY <1>1, <1>5, <2>1, ScreenKept
<1>6. ASSUME NEW c \in Letter \cup {Space, Tab}, Type(c) PROVE OnScreen(screen')
  BY <1>5, <1>6 DEF Type, VGA_putStr
<1>7. CASE Erase
  BY <1>5, <1>7 DEF Erase, VGA_putStr
<1>8. CASE Enter
  BY <1>5, <1>8 DEF Enter, VGA_putStr
<1>9. CASE RunCommand
  <2>1. Mounted
    BY <1>1, <1>9 DEF Disk, RunCommand
  <2>2. screen' = PutStr(screen, ran'.output)
    BY <1>9 DEF RunCommand, VGA_putStr
  <2>3. PICK cmd, p1, faults, leaks :
                ran' = Ran(cmd, p1, IF faults THEN <<>> ELSE Output(cmd, p1), leaks)
    BY <1>9 DEF RunCommand
  <2>4. ran'.output = IF faults THEN <<>> ELSE Output(cmd, p1)
    BY <2>3 DEF Ran
  <2>5. Len(<<>>) \in Nat /\ Len(Output(cmd, p1)) \in Nat
    BY <2>1, OutputIs
  <2>6. Len(ran'.output) \in Nat
    BY <2>4, <2>5
  <2> QED
    BY <1>1, <2>2, <2>6, ScreenKept
<1>10. CASE ChildClears
  BY <1>2, <1>10 DEF ChildClears, VGA_cls
<1>11. CASE ChildPrints
  <2>1. Len(Messages(1)) \in Nat
    BY MessagesAre
  <2>2. screen' = PutStr(screen, Messages(1))
    BY <1>11 DEF ChildPrints, VGA_putStr
  <2> QED
    BY <1>1, <2>1, <2>2, ScreenKept
<1>12. CASE UNCHANGED allVars
  BY <1>1, <1>12 DEF allVars
<1> QED
  BY <1>3, <1>4, <1>6, <1>7, <1>8, <1>9, <1>10, <1>11, <1>12 DEF Next

LEMMA ScanKept ==
    ASSUME archive' = archive
    PROVE  scanTar(Root)' = scanTar(Root)
BY DEF scanTar, countHeaders, getHeaderAtIndex, nextHeader, IsEnd, NameAt, SizeAt, Image, Root

LEMMA DiskStep ==
    ASSUME Inv, [Next]_allVars
    PROVE  Disk'
<1>1. Disk
  BY DEF Inv
<1>2. CASE Boot
  <2>1. archive' = archive /\ FS_mounts' = <<scanTar(Root)>>
    BY <1>2 DEF Boot, RamDisk_init, Root
  <2>2. scanTar(Root)' = scanTar(Root)
    BY <2>1, ScanKept
  <2> QED
    BY <1>1, <2>1, <2>2 DEF Disk, Mounted
<1>3. CASE pc # "boot" /\ UNCHANGED storageVars
  <2>1. archive' = archive /\ FS_mounts' = FS_mounts
    BY <1>3 DEF storageVars
  <2>2. scanTar(Root)' = scanTar(Root)
    BY <2>1, ScanKept
  <2> QED
    BY <1>1, <1>3, <2>1, <2>2 DEF Disk, Mounted
<1>4. CASE pc' = "boot" /\ UNCHANGED storageVars
  BY <1>1, <1>4 DEF Disk, storageVars
<1> QED
  BY <1>2, <1>3, <1>4 DEF Next, Prompt, Type, Erase, Enter, RunCommand, ChildClears, ChildPrints, allVars

LEMMA LineGrows ==
    ASSUME NEW l \in Lines, NEW c \in Letter \cup {Space, Tab}
    PROVE  /\ Append(l, c) \in Lines /\ Len(Append(l, c)) = Len(l) + 1
           /\ \A k \in 1 .. Len(l) : Append(l, c)[k] = l[k]
           /\ Append(l, c)[Len(l) + 1] = c
<1> DEFINE S == Letter \cup {Space, Tab}
<1>1. l \in Seq(S) /\ c \in S
  BY DEF Lines
<1> HIDE DEF S
<1>2. /\ Append(l, c) \in Seq(S) /\ Len(Append(l, c)) = Len(l) + 1
      /\ \A k \in 1 .. Len(l) : Append(l, c)[k] = l[k]
      /\ Append(l, c)[Len(l) + 1] = c
  BY <1>1, AppendProperties
<1> QED
  BY <1>2 DEF Lines, S

LEMMA LineShrinks ==
    ASSUME NEW l \in Lines, Len(l) > 0
    PROVE  /\ Front(l) \in Lines /\ Len(Front(l)) = Len(l) - 1
           /\ \A k \in 1 .. Len(l) - 1 : Front(l)[k] = l[k]
<1> DEFINE S == Letter \cup {Space, Tab}
           n == Len(l) - 1
           f == Front(l)
<1>1. Len(l) \in Nat /\ (\A k \in 1 .. Len(l) : l[k] \in S) /\ n \in Nat /\ n = Len(l) - 1
  <2>1. Len(l) \in Nat /\ \A k \in 1 .. Len(l) : l[k] \in S
    BY LineIs
  <2> QED
    BY <2>1
<1> HIDE DEF S, n
<1>2. \A k \in 1 .. n : k \in 1 .. Len(l) /\ l[k] \in S
  <2>1. \A k \in 1 .. n : k \in 1 .. Len(l)
    BY <1>1
  <2> QED
    BY <1>1, <2>1
<1>3. f = SubSeq(l, 1, n)
  BY <1>1 DEF Front
<1> HIDE DEF f
<1>4. /\ f \in Seq(S) /\ Len(f) = IF 1 <= n THEN n - 1 + 1 ELSE 0
      /\ \A k \in 1 .. n - 1 + 1 : f[k] = l[1 + k - 1]
  <2>1. 1 \in Int /\ n \in Int /\ \A k \in 1 .. n : l[k] \in S
    BY <1>1, <1>2
  <2> QED
    BY <1>3, <2>1, SubSeqProperties
<1>5. Len(f) = n
  BY <1>1, <1>4
<1>6. \A k \in 1 .. n : f[k] = l[k]
  <2>1. ASSUME NEW k \in 1 .. n PROVE f[k] = l[k]
    <3>1. k \in 1 .. n - 1 + 1 /\ 1 + k - 1 = k
      BY <1>1
    <3> QED
      BY <1>4, <3>1
  <2> QED
    BY <2>1
<1> QED
  BY <1>1, <1>4, <1>5, <1>6 DEF Lines, S, f

(* A write in front of the last byte.                                      *)
LEMMA BufferKept ==
    ASSUME NEW s \in Buffers, NEW i \in 0 .. MaxKeys - 1, NEW c \in Char
    PROVE  /\ [s EXCEPT ![i] = c] \in Buffers /\ [s EXCEPT ![i] = c][i] = c
           /\ \A j \in 0 .. MaxKeys : j # i => [s EXCEPT ![i] = c][j] = s[j]
<1>1. MaxKeys \in Nat
  BY Sizes
<1>2. s \in [0 .. MaxKeys -> Char] /\ s[MaxKeys] = NUL
  BY DEF Buffers
<1>3. i \in 0 .. MaxKeys /\ MaxKeys \in 0 .. MaxKeys /\ MaxKeys # i
  BY <1>1
<1>4. [s EXCEPT ![i] = c] \in [0 .. MaxKeys -> Char]
  BY <1>2
<1>5. /\ [s EXCEPT ![i] = c][i] = c
      /\ \A j \in 0 .. MaxKeys : j # i => [s EXCEPT ![i] = c][j] = s[j]
  BY <1>2, <1>3, Updated
<1>6. [s EXCEPT ![i] = c][MaxKeys] = NUL
  BY <1>2, <1>3, <1>5
<1> QED
  BY <1>4, <1>5, <1>6 DEF Buffers

LEMMA StructureStep ==
    ASSUME Inv, [Next]_allVars
    PROVE  Structure'
<1>1. Structure
  BY DEF Inv
<1>2. /\ inputBuffer \in Buffers /\ line \in Lines /\ index = Len(line) /\ index \in Nat
      /\ keys \in 0 .. MaxKeys /\ index <= keys /\ index < MaxKeys /\ MaxKeys \in Nat
      /\ pos \in 0 .. MaxKeys /\ started \in Nat /\ cleared \in Nat /\ started + cleared <= keys
      /\ plain \in BOOLEAN /\ trailing \in BOOLEAN
  <2>1. MaxKeys \in Nat
    BY Sizes
  <2>2. index \in Nat
    BY <1>1, LineIs DEF Structure
  <2> QED
    BY <1>1, <2>1, <2>2 DEF Structure
<1> USE DEF Structure
<1>3. CASE Boot
  BY <1>1, <1>2, <1>3 DEF Boot, inputVars, childVars, lineVars
<1>4. CASE Prompt
  <2>1. /\ pc' = "gets" /\ index' = 0 /\ line' = <<>> /\ plain' = TRUE
        /\ trailing' = (trailing \/ BehindSecond(line))
        /\ inputBuffer' = inputBuffer /\ pos' = pos /\ started' = started /\ cleared' = cleared
        /\ keys' = keys
    BY <1>4 DEF Prompt, childVars
  <2>2. <<>> \in Lines /\ Len(<<>>) = 0
    BY DEF Lines
  <2>3. trailing' \in BOOLEAN
    BY <1>2, <2>1 DEF BehindSecond
  <2>4. 0 <= keys /\ 0 < MaxKeys
    BY <1>2, Sizes
  <2> QED
    BY <1>2, <2>1, <2>2, <2>3, <2>4
<1>5. ASSUME NEW c \in Letter \cup {Space, Tab}, Type(c) PROVE Structure'
  <2>1. /\ pc' = pc /\ pc = "gets" /\ keys < MaxKeys - 1 /\ keys' = keys + 1
        /\ inputBuffer' = [inputBuffer EXCEPT ![index] = c]
        /\ index' = index + 1 /\ line' = Append(line, c)
        /\ pos' = pos /\ started' = started /\ cleared' = cleared /\ trailing' = trailing
    BY <1>5 DEF Type, childVars
  <2>2. plain' \in BOOLEAN
    BY <1>5 DEF Type
  <2>3. line' \in Lines /\ Len(line') = index'
    BY <1>2, <2>1, LineGrows
  <2>4. inputBuffer' \in Buffers
    <3>1. c \in Char /\ index \in 0 .. MaxKeys - 1
      BY <1>2 DEF Char
    <3> QED
      BY <1>2, <2>1, <3>1, BufferKept
  <2>5. /\ keys' \in 0 .. MaxKeys /\ index' <= keys' /\ index' < MaxKeys
        /\ started' + cleared' <= keys'
    BY <1>2, <2>1
  <2> QED
    BY <1>2, <2>1, <2>2, <2>3, <2>4, <2>5
<1>6. CASE Erase
  <2>1. /\ pc' = pc /\ pc = "gets" /\ keys < MaxKeys - 1 /\ index > 0 /\ keys' = keys + 1
        /\ inputBuffer' = [inputBuffer EXCEPT ![index - 1] = NUL]
        /\ index' = index - 1 /\ line' = Front(line)
        /\ pos' = pos /\ started' = started /\ cleared' = cleared
        /\ plain' = plain /\ trailing' = trailing
    BY <1>6 DEF Erase, Erased, childVars
  <2>2. line' \in Lines /\ Len(line') = index'
    BY <1>2, <2>1, LineShrinks
  <2>3. inputBuffer' \in Buffers
    <3>1. NUL \in Char /\ index - 1 \in 0 .. MaxKeys - 1
      BY <1>2, <2>1 DEF Char
    <3> QED
      BY <1>2, <2>1, <3>1, BufferKept
  <2>4. /\ keys' \in 0 .. MaxKeys /\ index' <= keys' /\ index' < MaxKeys
        /\ started' + cleared' <= keys'
    BY <1>2, <2>1
  <2> QED
    BY <1>2, <2>1, <2>2, <2>3, <2>4
<1>7. CASE Enter
  <2>1. /\ pc' = "run" /\ keys < MaxKeys /\ keys' = keys + 1
        /\ inputBuffer' = [inputBuffer EXCEPT ![index] = NUL]
        /\ index' = index /\ line' = line
        /\ pos' = pos /\ started' = started /\ cleared' = cleared
        /\ plain' = plain /\ trailing' = trailing
    BY <1>7 DEF Enter, Ended, childVars
  <2>2. inputBuffer' \in Buffers
    <3>1. NUL \in Char /\ index \in 0 .. MaxKeys - 1
      BY <1>2 DEF Char
    <3> QED
      BY <1>2, <2>1, <3>1, BufferKept
  <2>3. keys' \in 0 .. MaxKeys /\ index' <= keys' /\ started' + cleared' < keys' /\ started' + cleared' <= keys'
    BY <1>2, <2>1
  <2> QED
    BY <1>2, <2>1, <2>2, <2>3
<1>8. CASE RunCommand
  <2> DEFINE first == Strtok(inputBuffer, pos)
             second == Strtok(first.s, first.pos)
  <2>1. /\ inputBuffer' = second.s /\ pos' = second.pos
        /\ pc' \in {"panicked", "dead", "prompt"} /\ started' \in {started, started + 1}
        /\ index' = index /\ cleared' = cleared /\ line' = line /\ keys' = keys
        /\ plain' = plain /\ trailing' = trailing
    BY <1>8 DEF RunCommand
  <2>2. first.s \in Buffers /\ first.pos \in 0 .. MaxKeys
    BY <1>2, StrtokKeeps
  <2> HIDE DEF first
  <2>3. second.s \in Buffers /\ second.pos \in 0 .. MaxKeys
    BY <2>2, StrtokKeeps
  <2>4. started + cleared < keys
    BY <1>1, <1>8 DEF RunCommand
  <2>5. started' \in Nat /\ started' + cleared' <= keys'
    <3>1. started' = started \/ started' = started + 1
      BY <2>1
    <3>2. /\ started \in Nat /\ cleared \in Nat /\ keys \in Int
          /\ cleared' = cleared /\ keys' = keys
      BY <1>2, <2>1
    <3> QED
      BY ONLY <2>4, <3>1, <3>2
  <2> HIDE DEF second
  <2> QED
    BY <1>2, <2>1, <2>3, <2>5
<1>9. CASE ChildClears
  <2>1. /\ started > 0 /\ started' = started - 1 /\ cleared' = cleared + 1 /\ plain' = FALSE
        /\ pc' = pc /\ inputBuffer' = inputBuffer /\ index' = index /\ pos' = pos
        /\ line' = line /\ keys' = keys /\ trailing' = trailing
    BY <1>9 DEF ChildClears, inputVars
  <2>2. /\ started' \in Nat /\ cleared' \in Nat /\ started' + cleared' = started + cleared
    BY <1>2, <2>1
  <2> QED
    BY <1>1, <1>2, <2>1, <2>2
<1>10. CASE ChildPrints
  <2>1. /\ cleared > 0 /\ cleared' = cleared - 1 /\ started' = started /\ plain' = FALSE
        /\ pc' = pc /\ inputBuffer' = inputBuffer /\ index' = index /\ pos' = pos
        /\ line' = line /\ keys' = keys /\ trailing' = trailing
    BY <1>10 DEF ChildPrints, inputVars
  <2>2. /\ cleared' \in Nat /\ started' + cleared' <= keys'
        /\ started + cleared < keys => started' + cleared' < keys'
    BY <1>2, <2>1
  <2> QED
    BY <1>1, <1>2, <2>1, <2>2
<1>11. CASE UNCHANGED allVars
  BY <1>1, <1>11 DEF allVars, inputVars, childVars, lineVars
<1> QED
  BY <1>3, <1>4, <1>5, <1>6, <1>7, <1>8, <1>9, <1>10, <1>11 DEF Next

LEMMA TypedStep ==
    ASSUME Inv, [Next]_allVars
    PROVE  Typed'
<1> DEFINE Agree == \A k \in 1 .. Len(line) : inputBuffer[k - 1] = line[k]
<1>1. /\ Typed /\ inputBuffer \in Buffers /\ line \in Lines /\ index = Len(line)
      /\ index \in Nat /\ index < MaxKeys /\ MaxKeys \in Nat
  <2>1. Typed /\ Structure /\ MaxKeys \in Nat
    BY Sizes DEF Inv
  <2>2. line \in Lines /\ index = Len(line) /\ inputBuffer \in Buffers /\ index < MaxKeys
    BY <2>1 DEF Structure
  <2> QED
    BY <2>1, <2>2, LineIs
<1>2. ASSUME NEW c \in Letter \cup {Space, Tab}, Type(c) PROVE Typed'
  <2>1. /\ pc = "gets" /\ pc' = "gets" /\ line' = Append(line, c)
        /\ inputBuffer' = [inputBuffer EXCEPT ![index] = c]
    BY <1>2 DEF Type
  <2>2. Agree
    BY <1>1, <2>1 DEF Typed
  <2>3. /\ Len(line') = index + 1 /\ line'[index + 1] = c
        /\ \A k \in 1 .. index : line'[k] = line[k]
    BY <1>1, <2>1, LineGrows
  <2>4. /\ inputBuffer'[index] = c
        /\ \A j \in 0 .. MaxKeys : j # index => inputBuffer'[j] = inputBuffer[j]
    <3>1. c \in Char /\ index \in 0 .. MaxKeys - 1
      BY <1>1 DEF Char
    <3> QED
      BY <1>1, <2>1, <3>1, BufferKept
  <2>5. ASSUME NEW k \in 1 .. index + 1 PROVE inputBuffer'[k - 1] = line'[k]
    <3>1. CASE k = index + 1
      <4>1. k - 1 = index
        BY <1>1, <3>1
      <4> QED
        BY <2>3, <2>4, <3>1, <4>1
    <3>2. CASE k # index + 1
      <4>1. k \in 1 .. index /\ k - 1 \in 0 .. MaxKeys /\ k - 1 # index
        <5>1. index \in Nat /\ index < MaxKeys /\ MaxKeys \in Nat
          BY <1>1
        <5> QED
          BY ONLY <3>2, <5>1, k \in 1 .. index + 1
      <4> QED
        BY <1>1, <2>2, <2>3, <2>4, <4>1
    <3> QED
      BY <3>1, <3>2
  <2> QED
    BY <2>1, <2>3, <2>5 DEF Typed
<1>3. CASE Erase
  <2>1. /\ pc = "gets" /\ pc' = "gets" /\ line' = Front(line) /\ index > 0
        /\ inputBuffer' = [inputBuffer EXCEPT ![index - 1] = NUL]
    BY <1>3 DEF Erase, Erased
  <2>2. Agree
    BY <1>1, <2>1 DEF Typed
  <2>3. /\ Len(line') = index - 1
        /\ \A k \in 1 .. index - 1 : line'[k] = line[k]
    BY <1>1, <2>1, LineShrinks
  <2>4. \A j \in 0 .. MaxKeys : j # index - 1 => inputBuffer'[j] = inputBuffer[j]
    <3> DEFINE i == index - 1
    <3>1. NUL \in Char /\ i \in 0 .. MaxKeys - 1
      BY <1>1, <2>1 DEF Char
    <3>2. inputBuffer' = [inputBuffer EXCEPT ![i] = NUL]
      BY <2>1
    <3> HIDE DEF i
    <3>3. \A j \in 0 .. MaxKeys : j # i => inputBuffer'[j] = inputBuffer[j]
      BY <1>1, <3>1, <3>2, BufferKept
    <3> QED
      BY <3>3 DEF i
  <2>5. ASSUME NEW k \in 1 .. index - 1 PROVE inputBuffer'[k - 1] = line'[k]
    <3>1. k \in 1 .. index /\ k - 1 \in 0 .. MaxKeys /\ k - 1 # index - 1
      <4>1. index \in Nat /\ index < MaxKeys /\ MaxKeys \in Nat
        BY <1>1
      <4> QED
        BY ONLY <4>1, k \in 1 .. index - 1
    <3> QED
      BY <1>1, <2>2, <2>3, <2>4, <3>1
  <2> QED
    BY <2>1, <2>3, <2>5 DEF Typed
<1>4. CASE Enter
  <2>1. /\ pc = "gets" /\ pc' = "run" /\ line' = line /\ index' = index
        /\ inputBuffer' = [inputBuffer EXCEPT ![index] = NUL]
    BY <1>4 DEF Enter, Ended
  <2>2. Agree
    BY <1>1, <2>1 DEF Typed
  <2>3. /\ inputBuffer'[index] = NUL
        /\ \A j \in 0 .. MaxKeys : j # index => inputBuffer'[j] = inputBuffer[j]
    <3>1. NUL \in Char /\ index \in 0 .. MaxKeys - 1
      BY <1>1 DEF Char
    <3> QED
      BY <1>1, <2>1, <3>1, BufferKept
  <2>4. ASSUME NEW k \in 1 .. index PROVE inputBuffer'[k - 1] = line'[k]
    <3>1. k - 1 \in 0 .. MaxKeys /\ k - 1 # index
      <4>1. index \in Nat /\ index < MaxKeys /\ MaxKeys \in Nat
        BY <1>1
      <4> QED
        BY ONLY <4>1, k \in 1 .. index
    <3> QED
      BY <1>1, <2>1, <2>2, <2>3, <3>1
  <2> QED
    BY <1>1, <2>1, <2>3, <2>4 DEF Typed
<1>5. CASE Prompt
  <2>1. pc' = "gets" /\ line' = <<>>
    BY <1>5 DEF Prompt
  <2>2. Len(line') = 0
    BY <2>1
  <2>3. \A k \in 1 .. Len(line') : inputBuffer'[k - 1] = line'[k]
    BY <2>2
  <2> QED
    BY <2>1, <2>3 DEF Typed
<1>6. CASE Boot \/ RunCommand
  <2>1. pc' \in {"prompt", "dead", "panicked"}
    BY <1>6 DEF Boot, RunCommand
  <2> QED
    BY <2>1 DEF Typed
<1>7. CASE pc' = pc /\ inputBuffer' = inputBuffer /\ line' = line /\ index' = index
  BY <1>1, <1>7 DEF Typed
<1> QED
  BY <1>2, <1>3, <1>4, <1>5, <1>6, <1>7 DEF Next, ChildClears, ChildPrints, allVars, inputVars, lineVars

LEMMA InvStep ==
    ASSUME Inv, [Next]_allVars
    PROVE  Inv'
<1>1. Structure' /\ Typed' /\ Disk'
  BY StructureStep, TypedStep, DiskStep
<1>2. OnScreen(screen)'
  BY OnScreenStep DEF OnScreen, Screens
<1> QED
  BY <1>1, <1>2 DEF Inv

THEOREM SpecInv == Spec => []Inv
<1>1. Init => Inv
  BY InvInit
<1>2. Inv /\ [Next]_allVars => Inv'
  BY InvStep
<1> QED
  BY <1>1, <1>2, PTL DEF Spec

(* Whatever is typed, the shell's state is of its types: the buffer is     *)
(* ended, and no child is started that no Enter stands for.                *)
LEMMA STypeOKOf == Inv => STypeOK
<1> SUFFICES ASSUME Inv PROVE STypeOK
  OBVIOUS
<1>1. Structure /\ MaxKeys \in Nat
  BY Sizes DEF Inv
<1>2. /\ inputBuffer \in [0 .. MaxKeys -> Char] /\ line \in Lines /\ index \in Nat
  BY <1>1, LineIs DEF Structure, Buffers
<1>3. line \in Seq(Char)
  <2> DEFINE S == Letter \cup {Space, Tab}
  <2>1. S \subseteq Char /\ line \in Seq(S)
    BY <1>2 DEF Char, Lines
  <2> HIDE DEF S
  <2> QED
    BY <2>1, SeqMonotonic
<1>4. index \in 0 .. MaxKeys /\ started \in 0 .. MaxKeys /\ cleared \in 0 .. MaxKeys
  <2>1. /\ index < MaxKeys /\ started \in Nat /\ cleared \in Nat /\ started + cleared <= keys
        /\ keys \in 0 .. MaxKeys
    BY <1>1 DEF Structure
  <2> QED
    BY ONLY <1>1, <1>2, <2>1
<1> QED
  BY <1>1, <1>2, <1>3, <1>4 DEF STypeOK, Structure

THEOREM TypeCorrect == Spec => []STypeOK
BY SpecInv, STypeOKOf, PTL

(* The cursor stays on the screen and its row as wide as that, whatever    *)
(* the shell, its commands and its children print.                         *)
THEOREM CursorStaysOnScreen == Spec => []CursorOnScreen
<1>1. Inv => CursorOnScreen
  BY DEF Inv, OnScreen, Screens, CursorOnScreen
<1> QED
  BY <1>1, SpecInv, PTL

-----------------------------------------------------------------------------
(* A line is parsed as it was typed.                                       *)
LEMMA ParsedStep ==
    ASSUME Inv, Unparsed, ParsedAsTyped, [Next]_allVars
    PROVE  Unparsed' /\ ParsedAsTyped'
<1>1. Structure /\ Typed
  BY DEF Inv
<1>2. CASE Boot
  <2>1. /\ pc = "boot" /\ pc' = "prompt" /\ line' = line /\ ran' = ran /\ pos' = pos
        /\ trailing' = trailing
    BY <1>2 DEF Boot, inputVars, lineVars
  <2>2. line' = <<>> /\ ran' = Ran(None, None, <<>>, FALSE) /\ (~trailing' => pos' = 0)
    BY <2>1 DEF Unparsed
  <2>3. <<>> \in Lines /\ Spaces(<<>>, 1, Len(<<>>))
    BY DEF Lines, Spaces
  <2>4. NthWord(<<>>, 1) = None /\ NthWord(<<>>, 2) = None
    BY <2>3, WordlessIs
  <2>5. Parameter(<<>>) = None
    BY <2>4 DEF Parameter
  <2>6. ran'.cmd = None /\ ran'.p1 = None
    BY <2>2 DEF Ran
  <2>7. NthWord(line', 1) = None /\ Parameter(line') = None
    BY <2>2, <2>4, <2>5
  <2>8. Unparsed'
    BY <2>1, <2>2 DEF Unparsed
  <2>9. ParsedAsTyped'
    BY <2>1, <2>6, <2>7 DEF ParsedAsTyped
  <2> QED
    BY <2>8, <2>9
<1>3. CASE Prompt
  <2>1. /\ pc = "prompt" /\ pc' = "gets" /\ pos' = pos
        /\ trailing' = (trailing \/ BehindSecond(line))
    BY <1>3 DEF Prompt
  <2>2. ~trailing' => pos' = 0
    BY <2>1 DEF Unparsed
  <2> QED
    BY <2>1, <2>2 DEF Unparsed, ParsedAsTyped
<1>4. CASE RunCommand
  <2> DEFINE first == Strtok(inputBuffer, pos)
             second == Strtok(first.s, first.pos)
             cmd == Text(second.s, first.token)
             p1 == Text(second.s, second.token)
  <2>1. /\ pc = "run" /\ pos' = second.pos
        /\ ran'.cmd = cmd /\ ran'.p1 = p1
        /\ pc' = "panicked" => Faults(cmd, p1)
        /\ pc' \in {"prompt", "dead", "panicked"}
        /\ line' = line /\ trailing' = trailing
    BY <1>4 DEF RunCommand, Ran
  <2>2. ASSUME ~trailing
        PROVE  /\ cmd = NthWord(line, 1) /\ p1 = Parameter(line)
               /\ second.pos # 0 => BehindSecond(line)
    <3>1. pos = 0
      BY <2>1, <2>2 DEF Unparsed
    <3>2. Holds(inputBuffer, line)
      <4>1. /\ inputBuffer \in Buffers /\ line \in Lines /\ index = Len(line) /\ index < MaxKeys
            /\ inputBuffer[index] = NUL
            /\ \A k \in 1 .. Len(line) : inputBuffer[k - 1] = line[k]
        BY <1>1, <2>1 DEF Structure, Typed
      <4>2. Len(line) \in 0 .. MaxKeys
        <5>1. Len(line) \in Nat /\ MaxKeys \in Nat /\ Len(line) < MaxKeys
          BY <4>1, LineIs, Sizes
        <5> QED
          BY ONLY <5>1
      <4> QED
        BY <4>1, <4>2 DEF Holds
    <3>3. Understood(inputBuffer, line)
      BY <3>2, Understands
    <3> QED
      BY <3>1, <3>3 DEF Understood
  <2> HIDE DEF first, second, cmd, p1
  <2>3. Unparsed'
    BY <2>1, <2>2 DEF Unparsed
  <2>4. ASSUME pc' = "panicked", ~trailing PROVE Parameter(line) = None
    BY <2>1, <2>2, <2>4 DEF Faults
  <2>5. (ran.cmd)' = ran'.cmd /\ (ran.p1)' = ran'.p1
    OBVIOUS
  <2>6. NthWord(line, 1)' = NthWord(line, 1) /\ Parameter(line)' = Parameter(line)
    <3>1. line' = line
      BY <2>1
    <3> QED
      BY <3>1
  <2>7. ParsedAsTyped'
    BY <2>1, <2>2, <2>4, <2>6 DEF ParsedAsTyped
  <2> QED
    BY <2>3, <2>7
<1>5. CASE pc = "gets" /\ pc' \in {"gets", "run"} /\ pos' = pos /\ trailing' = trailing
  BY <1>5 DEF Unparsed, ParsedAsTyped
<1>6. CASE pc' = pc /\ pos' = pos /\ trailing' = trailing /\ line' = line /\ ran' = ran
  <2>1. BehindSecond(line)' <=> BehindSecond(line)
    BY <1>6
  <2>2. NthWord(line, 1)' = NthWord(line, 1) /\ Parameter(line)' = Parameter(line)
    BY <1>6
  <2>3. Unparsed'
    BY <1>6, <2>1 DEF Unparsed
  <2>4. ParsedAsTyped'
    BY <1>6, <2>2 DEF ParsedAsTyped
  <2> QED
    BY <2>3, <2>4
<1>7. ASSUME NEW c \in Letter \cup {Space, Tab}, Type(c)
      PROVE  pc = "gets" /\ pc' = "gets" /\ pos' = pos /\ trailing' = trailing
  BY <1>7 DEF Type
<1>8. ASSUME Erase \/ Enter
      PROVE  pc = "gets" /\ pc' \in {"gets", "run"} /\ pos' = pos /\ trailing' = trailing
  BY <1>8 DEF Erase, Enter
<1>9. ASSUME ChildClears \/ ChildPrints \/ UNCHANGED allVars
      PROVE  pc' = pc /\ pos' = pos /\ trailing' = trailing /\ line' = line /\ ran' = ran
  BY <1>9 DEF ChildClears, ChildPrints, allVars, inputVars, lineVars
<1> QED
  BY <1>2, <1>3, <1>4, <1>5, <1>6, <1>7, <1>8, <1>9 DEF Next

(* For every line, whatever was corrected in it and whatever lines came    *)
(* before: the command and the parameter are those its words say, unless a *)
(* line before had a space behind its second word.                         *)
THEOREM LineIsParsed == Spec => []ParsedAsTyped
<1>1. Init => Inv /\ Unparsed /\ ParsedAsTyped
  <2>1. Init => ParsedAsTyped
    BY DEF Init, ParsedAsTyped
  <2> QED
    BY <2>1, InvInit
<1>2. Inv /\ Unparsed /\ ParsedAsTyped /\ [Next]_allVars => Unparsed' /\ ParsedAsTyped'
  BY ParsedStep
<1> QED
  BY <1>1, <1>2, SpecInv, PTL DEF Spec
-----------------------------------------------------------------------------
(* What is typed stands on the screen, behind the prompt.                  *)
Echoed(s, l) ==
    /\ s.x = Len(l) + 2 /\ s.row[0] = ">" /\ s.row[1] = Space
    /\ \A k \in 1 .. Len(l) : s.row[k + 1] = l[k]

LEMMA PromptedIs ==
    ASSUME NEW l \in Lines
    PROVE  /\ Len(Prompted(l)) = Len(l) + 2 /\ Prompted(l)[1] = ">" /\ Prompted(l)[2] = Space
           /\ \A k \in 1 .. Len(l) : Prompted(l)[2 + k] = l[k]
<1> DEFINE S == Letter \cup {Space, Tab, ">"}
           p == <<">", Space>>
<1>1. p \in Seq(S) /\ Len(p) = 2 /\ p[1] = ">" /\ p[2] = Space
  OBVIOUS
<1>2. l \in Seq(S)
  <2> DEFINE T == Letter \cup {Space, Tab}
  <2>1. l \in Seq(T) /\ T \subseteq S
    BY DEF Lines
  <2> HIDE DEF S, T
  <2> QED
    BY <2>1, SeqMonotonic
<1>3. Prompted(l) = p \o l
  BY DEF Prompted
<1>4. Len(l) \in Nat
  BY LineIs
<1> HIDE DEF S, p
<1>5. /\ Len(p \o l) = Len(p) + Len(l)
      /\ \A k \in 1 .. Len(p) : (p \o l)[k] = p[k]
      /\ \A k \in 1 .. Len(l) : (p \o l)[Len(p) + k] = l[k]
  <2>1. p \in Seq(S)
    BY <1>1
  <2> QED
    BY ONLY <1>2, <2>1, Concatenated
<1>6. 1 \in 1 .. Len(p) /\ 2 \in 1 .. Len(p)
  BY <1>1
<1> QED
  BY <1>1, <1>3, <1>4, <1>5, <1>6

LEMMA EchoedIs ==
    ASSUME NEW s, NEW l \in Lines
    PROVE  Echoed(s, l) <=> /\ s.x = Len(Prompted(l))
                            /\ \A i \in 1 .. s.x : s.row[i - 1] = Prompted(l)[i]
<1>1. Len(l) \in Nat
  BY LineIs
<1>2. /\ Len(Prompted(l)) = Len(l) + 2 /\ Prompted(l)[1] = ">" /\ Prompted(l)[2] = Space
      /\ \A k \in 1 .. Len(l) : Prompted(l)[2 + k] = l[k]
  BY PromptedIs
<1>3. ASSUME Echoed(s, l), NEW i \in 1 .. s.x PROVE s.row[i - 1] = Prompted(l)[i]
  <2>1. s.x = Len(l) + 2 /\ s.row[0] = ">" /\ s.row[1] = Space /\ \A k \in 1 .. Len(l) : s.row[k + 1] = l[k]
    BY <1>3 DEF Echoed
  <2>2. i = 1 \/ i = 2 \/ (i - 2 \in 1 .. Len(l) /\ i - 2 + 1 = i - 1 /\ 2 + (i - 2) = i)
    BY <1>1, <2>1
  <2>3. CASE i = 1
    BY <1>2, <2>1, <2>3
  <2>4. CASE i = 2
    BY <1>2, <2>1, <2>4
  <2>5. CASE i - 2 \in 1 .. Len(l) /\ i - 2 + 1 = i - 1 /\ 2 + (i - 2) = i
    <3>1. s.row[i - 2 + 1] = l[i - 2] /\ Prompted(l)[2 + (i - 2)] = l[i - 2]
      BY <1>2, <2>1, <2>5
    <3> QED
      BY <2>5, <3>1
  <2> QED
    BY <2>2, <2>3, <2>4, <2>5
<1>4. ASSUME s.x = Len(Prompted(l)), \A i \in 1 .. s.x : s.row[i - 1] = Prompted(l)[i]
      PROVE  Echoed(s, l)
  <2>1. s.x = Len(l) + 2
    BY <1>2, <1>4
  <2>2. 1 \in 1 .. s.x /\ 2 \in 1 .. s.x /\ 1 - 1 = 0 /\ 2 - 1 = 1
    BY <1>1, <2>1
  <2>3. s.row[0] = ">" /\ s.row[1] = Space
    <3>1. s.row[1 - 1] = Prompted(l)[1] /\ s.row[2 - 1] = Prompted(l)[2]
      BY <1>4, <2>2
    <3> QED
      BY <1>2, <2>2, <3>1
  <2>4. ASSUME NEW k \in 1 .. Len(l) PROVE s.row[k + 1] = l[k]
    <3>1. 2 + k \in 1 .. s.x /\ 2 + k - 1 = k + 1
      BY <1>1, <2>1
    <3>2. s.row[2 + k - 1] = Prompted(l)[2 + k]
      BY <1>4, <3>1
    <3> QED
      BY <1>2, <3>1, <3>2
  <2> QED
    BY <2>1, <2>3, <2>4 DEF Echoed
<1>5. ASSUME Echoed(s, l) PROVE s.x = Len(Prompted(l))
  BY <1>2, <1>5 DEF Echoed
<1> QED
  BY <1>3, <1>4, <1>5

(* A key in front of the last column, and the key that takes it back.      *)
LEMMA KeyEchoes ==
    ASSUME NEW s, OnScreen(s), NEW l \in Lines, Echoed(s, l),
           NEW c \in Letter \cup {Space}, Len(l) + 3 < VGA_WIDTH
    PROVE  Echoed(PutStr(s, <<c>>), Append(l, c))
<1> DEFINE r == PutStr(s, <<c>>)
           a == Append(l, c)
           E == {c}
<1>1. PICK D : s \in Screens(D) /\ Blank \in D /\ E \subseteq D
  <2> HIDE DEF E
  <2> QED
    BY Wider
<1>2. c \in D /\ Ordinary(c)
  <2>1. c # Backspace /\ c # Tab /\ c # Newline
    BY ShellAssumption DEF Space, Backspace, Tab, Newline
  <2> QED
    BY <1>1, <2>1 DEF Ordinary
<1>3. /\ s.x = Len(l) + 2 /\ s.row[0] = ">" /\ s.row[1] = Space
      /\ \A k \in 1 .. Len(l) : s.row[k + 1] = l[k]
  BY DEF Echoed
<1>4. Len(l) \in Nat /\ VGA_WIDTH \in Nat
  BY LineIs, Sizes
<1>5. s.x + 1 < VGA_WIDTH /\ s.x \in 0 .. VGA_WIDTH - 1
  BY <1>3, <1>4
<1>6. r.x = s.x + 1 /\ r.row = [s.row EXCEPT ![s.x] = c]
  <2>1. r = PutChar(s, c)
    BY <1>1, <1>2, PutOne
  <2>2. /\ Moved(s, c).x = s.x + 1 /\ Moved(s, c).row = [s.row EXCEPT ![s.x] = c]
        /\ PutChar(s, c) = Moved(s, c)
    BY <1>1, <1>2, <1>5, WrittenIs
  <2> HIDE DEF r
  <2> QED
    BY <2>1, <2>2
<1> HIDE DEF r
<1>7. r.row[s.x] = c /\ \A j \in 0 .. VGA_WIDTH - 1 : j # s.x => r.row[j] = s.row[j]
  <2>1. s.row \in [0 .. VGA_WIDTH - 1 -> D]
    BY <1>1 DEF Screens
  <2> QED
    BY <1>5, <1>6, <2>1, Updated
<1>8. /\ Len(a) = Len(l) + 1 /\ a[Len(l) + 1] = c
      /\ \A k \in 1 .. Len(l) : a[k] = l[k]
  <2>1. c \in Letter \cup {Space, Tab}
    OBVIOUS
  <2> QED
    BY <2>1, LineGrows
<1> HIDE DEF a
<1>9. r.x = Len(a) + 2
  BY <1>3, <1>4, <1>6, <1>8
<1>10. r.row[0] = ">" /\ r.row[1] = Space
  <2>1. 0 \in 0 .. VGA_WIDTH - 1 /\ 0 # s.x /\ 1 \in 0 .. VGA_WIDTH - 1 /\ 1 # s.x
    BY <1>3, <1>4, <1>5
  <2> QED
    BY <1>3, <1>7, <2>1
<1>11. ASSUME NEW k \in 1 .. Len(a) PROVE r.row[k + 1] = a[k]
  <2>1. \/ k = Len(l) + 1 /\ k + 1 = s.x
        \/ k \in 1 .. Len(l) /\ k + 1 \in 0 .. VGA_WIDTH - 1 /\ k + 1 # s.x
    BY <1>3, <1>4, <1>5, <1>8
  <2> QED
    BY <1>3, <1>7, <1>8, <2>1
<1> QED
  BY <1>9, <1>10, <1>11 DEF Echoed, r, a

LEMMA BackspaceEchoes ==
    ASSUME NEW s, OnScreen(s), NEW l \in Lines, Echoed(s, l), Len(l) > 0
    PROVE  Echoed(PutStr(s, <<Backspace>>), Front(l))
<1> DEFINE r == PutStr(s, <<Backspace>>)
           f == Front(l)
           E == {Backspace}
<1>1. PICK D : s \in Screens(D) /\ Blank \in D /\ E \subseteq D
  <2> HIDE DEF E
  <2> QED
    BY Wider
<1>2. /\ s.x = Len(l) + 2 /\ s.row[0] = ">" /\ s.row[1] = Space
      /\ \A k \in 1 .. Len(l) : s.row[k + 1] = l[k]
  BY DEF Echoed
<1>3. Len(l) \in Nat /\ s.x \in 0 .. VGA_WIDTH - 1 /\ VGA_WIDTH \in Nat
  BY <1>1, LineIs, Sizes DEF Screens
<1>4. Left(s.x) = s.x - 1
  <2>1. VGA_WIDTH < Unsigned /\ Unsigned = 65536
    BY Sizes
  <2>2. ASSUME NEW x \in 0 .. VGA_WIDTH - 1, x > 0 PROVE (x - 1) % Unsigned = x - 1
    BY <1>3, <2>1, <2>2
  <2>3. s.x > 0
    BY <1>2, <1>3
  <2> QED
    BY <1>3, <2>2, <2>3 DEF Left
<1>5. r.x = s.x - 1 /\ r.row = s.row
  <2>1. Moved(s, Backspace) = [s EXCEPT !.x = Left(s.x)]
    BY DEF Moved, Backspace, Tab, Newline
  <2>2. Moved(s, Backspace).x = s.x - 1 /\ Moved(s, Backspace).row = s.row
    <3>1. s = [x |-> s.x, y |-> s.y, row |-> s.row]
      BY <1>1 DEF Screens
    <3> QED
      BY <1>4, <2>1, <3>1
  <2>3. PutChar(s, Backspace) = Moved(s, Backspace)
    <3>1. ~(s.x - 1 >= VGA_WIDTH)
      BY <1>3
    <3> QED
      BY <2>2, <3>1 DEF PutChar, Wrapped
  <2>4. r = PutChar(s, Backspace)
    <3>1. Backspace \in D
      BY <1>1
    <3> QED
      BY <1>1, <3>1, PutOne
  <2> HIDE DEF r
  <2> QED
    BY <2>2, <2>3, <2>4
<1> HIDE DEF r
<1>6. Len(f) = Len(l) - 1 /\ \A k \in 1 .. Len(l) - 1 : f[k] = l[k]
  BY LineShrinks
<1> HIDE DEF f
<1>7. r.x = Len(f) + 2
  BY <1>2, <1>3, <1>5, <1>6
<1>8. ASSUME NEW k \in 1 .. Len(f) PROVE r.row[k + 1] = f[k]
  <2>1. k \in 1 .. Len(l) /\ k \in 1 .. Len(l) - 1
    BY <1>3, <1>6
  <2> QED
    BY <1>2, <1>5, <1>6, <2>1
<1> QED
  BY <1>2, <1>5, <1>7, <1>8 DEF Echoed, r, f

(* EchoMatches, by its two halves.                                         *)
LEMMA EchoMatchesIs ==
    ASSUME Inv
    PROVE  EchoMatches <=> (pc = "gets" /\ plain => Echoed(screen, line))
<1>1. line \in Lines /\ index = Len(line)
  BY DEF Inv, Structure
<1>2. pc = "gets" => \A i \in 1 .. index : inputBuffer[i - 1] = line[i]
  BY <1>1 DEF Inv, Typed
<1>3. Echoed(screen, line) <=> /\ screen.x = Len(Prompted(line))
                               /\ \A i \in 1 .. screen.x : screen.row[i - 1] = Prompted(line)[i]
  BY <1>1, EchoedIs
<1> QED
  BY <1>1, <1>2, <1>3 DEF EchoMatches

LEMMA EchoStep ==
    ASSUME Inv, EchoMatches, [Next]_allVars
    PROVE  EchoMatches'
<1>1. line \in Lines /\ line' \in Lines /\ OnScreen(screen) /\ index = Len(line)
  BY InvStep DEF Inv, Structure
<1>2. pc = "gets" /\ plain => Echoed(screen, line)
  BY EchoMatchesIs
<1>3. SUFFICES ASSUME pc' = "gets", plain' PROVE Echoed(screen', line')
  <2>1. line' \in Lines /\ index' = Len(line')
    BY InvStep DEF Inv, Structure
  <2>2. pc' = "gets" => \A i \in 1 .. index' : inputBuffer'[i - 1] = line'[i]
    BY <2>1, InvStep DEF Inv, Typed
  <2>3. Echoed(screen', line') <=> /\ screen'.x = Len(Prompted(line'))
                                   /\ \A i \in 1 .. screen'.x : screen'.row[i - 1] = Prompted(line')[i]
    BY <2>1, EchoedIs
  <2> QED
    BY <2>1, <2>2, <2>3 DEF EchoMatches, Prompted
<1>4. CASE Prompt
  <2> DEFINE E == {Newline, ">"}
             r == PutStr(screen, <<Newline, ">", Space>>)
  <2>1. PICK D : screen \in Screens(D) /\ Blank \in D /\ E \subseteq D
    <3> HIDE DEF E
    <3> QED
      BY <1>1, Wider
  <2>2. {Blank, Newline, ">"} \subseteq D
    BY <2>1
  <2>3. r.x = 2 /\ r.row[0] = ">" /\ r.row[1] = Space
    BY <2>1, <2>2, PromptIs
  <2>4. screen' = r /\ line' = <<>>
    BY <1>4 DEF Prompt, VGA_putStr
  <2> HIDE DEF r
  <2> QED
    BY <2>3, <2>4 DEF Echoed
<1>5. ASSUME NEW c \in Letter \cup {Space, Tab}, Type(c) PROVE Echoed(screen', line')
  <2>1. /\ pc = "gets" /\ plain /\ c # Tab /\ Len(Prompted(line')) < VGA_WIDTH
        /\ line' = Append(line, c) /\ screen' = PutStr(screen, <<c>>)
    BY <1>3, <1>5 DEF Type, VGA_putStr
  <2>2. Len(line) + 3 < VGA_WIDTH
    <3>1. Len(Prompted(line')) = Len(line') + 2
      BY <1>1, PromptedIs
    <3>2. Len(line') = Len(line) + 1
      BY <1>1, <2>1, LineGrows
    <3>3. Len(line) \in Nat
      BY <1>1, LineIs
    <3>4. Len(Prompted(line')) < VGA_WIDTH
      BY <2>1
    <3> QED
      BY ONLY <3>1, <3>2, <3>3, <3>4
  <2>3. c \in Letter \cup {Space}
    BY <2>1
  <2>4. Echoed(PutStr(screen, <<c>>), Append(line, c))
    BY <1>1, <1>2, <2>1, <2>2, <2>3, KeyEchoes
  <2> QED
    BY <2>1, <2>4
<1>6. CASE Erase
  <2>1. /\ pc = "gets" /\ plain /\ index > 0
        /\ line' = Front(line) /\ screen' = PutStr(screen, <<Backspace>>)
    BY <1>3, <1>6 DEF Erase, VGA_putStr
  <2>2. Echoed(PutStr(screen, <<Backspace>>), Front(line))
    BY <1>1, <1>2, <2>1, BackspaceEchoes
  <2> QED
    BY <2>1, <2>2
<1>7. CASE UNCHANGED allVars
  BY <1>2, <1>3, <1>7 DEF allVars, lineVars
<1>8. ASSUME Boot \/ Enter \/ RunCommand \/ ChildClears \/ ChildPrints PROVE FALSE
  BY <1>3, <1>8 DEF Boot, Enter, RunCommand, ChildClears, ChildPrints
<1> QED
  BY <1>4, <1>5, <1>6, <1>7, <1>8 DEF Next

(* Whatever is typed and taken back: the text between the prompt and the   *)
(* cursor is the line that gets has collected and the shell will run, as   *)
(* long as that fits into the row, has no tab and no child clears the      *)
(* screen.                                                                 *)
THEOREM EchoIsLine == Spec => []EchoMatches
<1>1. Init => EchoMatches
  BY DEF Init, EchoMatches
<1>2. Inv /\ EchoMatches /\ [Next]_allVars => EchoMatches'
  BY EchoStep
<1> QED
  BY <1>1, <1>2, SpecInv, PTL DEF Spec
-----------------------------------------------------------------------------
(* Files on the screen.                                                    *)
LEMMA ShowsStep ==
    ASSUME TextFiles, Inv, Unparsed, ShowsFiles, [Next]_allVars
    PROVE  ShowsFiles'
<1>1. Disk
  BY DEF Inv
<1>2. archive' = archive
  <2>1. CASE Boot
    BY <2>1 DEF Boot, RamDisk_init
  <2>2. CASE RunCommand
    BY <2>2 DEF RunCommand, storageVars
  <2>3. CASE Prompt \/ Erase \/ Enter \/ \E c \in Letter \cup {Space, Tab} : Type(c)
    BY <2>3 DEF Prompt, Erase, Enter, Type, storageVars
  <2>4. CASE ChildClears \/ ChildPrints \/ UNCHANGED allVars
    BY <2>4 DEF ChildClears, ChildPrints, allVars, storageVars
  <2> QED
    BY <2>1, <2>2, <2>3, <2>4 DEF Next
<1>3. ShowsFiles <=> (pc \notin {"boot", "panicked"} => Shows(ran.cmd, ran.p1, ran.output))
  BY DEF ShowsFiles, Shows
<1>4. ShowsFiles' <=> (pc' \notin {"boot", "panicked"} => Shows(ran'.cmd, ran'.p1, ran'.output))
  BY <1>2 DEF ShowsFiles, Shows, Named, Behind
<1>5. CASE Boot
  <2>1. ran' = Ran(None, None, <<>>, FALSE)
    BY <1>5 DEF Boot, lineVars, Unparsed
  <2>2. ran'.cmd = None
    BY <2>1 DEF Ran
  <2>3. Shows(ran'.cmd, ran'.p1, ran'.output)
    BY <2>2 DEF Shows, None
  <2> QED
    BY <1>4, <2>3
<1>6. CASE RunCommand
  <2>1. Mounted
    BY <1>1, <1>6 DEF Disk, RunCommand
  <2>2. PICK cmd, p1, faults, leaks :
                /\ ran' = Ran(cmd, p1, IF faults THEN <<>> ELSE Output(cmd, p1), leaks)
                /\ faults => pc' = "panicked"
    BY <1>6 DEF RunCommand
  <2>3. ASSUME pc' \notin {"boot", "panicked"} PROVE Shows(ran'.cmd, ran'.p1, ran'.output)
    <3>1. ran'.cmd = cmd /\ ran'.p1 = p1 /\ ran'.output = Output(cmd, p1)
      BY <2>2, <2>3 DEF Ran
    <3> QED
      BY <2>1, <3>1, OutputShows
  <2> QED
    BY <1>4, <2>3
<1>7. CASE ran' = ran /\ pc \notin {"boot", "panicked"}
  BY <1>3, <1>4, <1>7
<1>8. CASE ran' = ran /\ pc' = pc
  BY <1>3, <1>4, <1>8
<1> QED
  BY <1>5, <1>6, <1>7, <1>8 DEF Next, Prompt, Type, Erase, Enter, ChildClears, ChildPrints, allVars, lineVars

(* For every archive of text files: ls lists all of them in their order,   *)
(* and view shows one, through tar's blocks and the kernel's walk over     *)
(* them, followed by the next file's name if the text fills its last block *)
(* and by nothing else.                                                    *)
THEOREM FilesAreShown ==
    ASSUME TextFiles
    PROVE  Spec => []ShowsFiles
<1>1. Init => ShowsFiles
  BY DEF Init, ShowsFiles
<1>2. Inv /\ Unparsed /\ ShowsFiles /\ [Next]_allVars => ShowsFiles'
  BY ShowsStep
<1>3. Init => Unparsed /\ ParsedAsTyped
  BY InvInit DEF Init, ParsedAsTyped
<1>4. Inv /\ Unparsed /\ ParsedAsTyped /\ [Next]_allVars => Unparsed' /\ ParsedAsTyped'
  BY ParsedStep
<1> QED
  BY <1>1, <1>2, <1>3, <1>4, SpecInv, PTL DEF Spec
================================================================================
