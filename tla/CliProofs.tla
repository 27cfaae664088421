----------------------------- MODULE CliProofs -----------------------------
(***************************************************************************)
(* Proofs about what the command line comes to: about Filter, for every    *)
(* pattern, value, filter and derivation; about Startup, for any number of *)
(* starts and commands; about Arguments and Query, for every command line. *)
(*                                                                         *)
(* wildcard_matches first. Glob satisfies the equations that the code      *)
(* computes the table by, and so the cells that the loops have passed      *)
(* agree with Glob; what has been found of the patterns tried so far       *)
(* agrees with their answers.                                              *)
(*                                                                         *)
(* normalize_args is, at each step, behind one setting and before the      *)
(* next, or before the value of an option that is not packed, and what it  *)
(* has told is what the settings so far come to. What the option parser    *)
(* finds in that is what the settings mean.                                *)
(***************************************************************************)
EXTENDS Query, Startup, SequenceTheorems, WellFoundedInduction, FiniteSetTheorems,
        TLAPS

(* The set of strings is never opened: only that they are sequences of     *)
(* characters.                                                             *)
LEMMA Lengths ==
  ASSUME NEW p \in Seq(Char), NEW v \in Seq(Char)
  PROVE  Len(p) \in Nat /\ Len(v) \in Nat
OBVIOUS

(* No character of the pattern matches exactly the empty value.            *)
LEMMA GlobNone ==
  ASSUME NEW p, NEW v \in Seq(Char), NEW y \in 0..Len(v)
  PROVE  Glob(p, v, 0, y) <=> y = 0
<1>1. ASSUME Glob(p, v, 0, y) PROVE y = 0
  BY <1>1 DEF Glob, IsCut
<1>2. ASSUME y = 0 PROVE Glob(p, v, 0, y)
  <2> DEFINE cut == [k \in 0..0 |-> 0]
  <2>1. cut \in [0..0 -> 0..Len(v)]
    OBVIOUS
  <2>2. IsCut(p, v, 0, y, cut)
    BY <1>2 DEF IsCut
  <2> QED BY <2>1, <2>2 DEF Glob
<1> QED BY <1>1, <1>2

(* A cut of a shorter pattern can be extended by the end of one more       *)
(* piece; the pieces before it stay as they are.                           *)
LEMMA Extend ==
  ASSUME NEW p \in Seq(Char), NEW v \in Seq(Char),
         NEW x \in 1..Len(p), NEW z \in 0..Len(v), NEW y \in 0..Len(v),
         NEW cut \in [0..(x - 1) -> 0..Len(v)],
         IsCut(p, v, x - 1, z, cut),
         IF p[x] = Star THEN z <= y
           ELSE y = z + 1 /\ (p[x] = Any \/ p[x] = v[y])
  PROVE  Glob(p, v, x, y)
<1> DEFINE longer == [k \in 0..x |-> IF k = x THEN y ELSE cut[k]]
<1>1. longer \in [0..x -> 0..Len(v)]
  OBVIOUS
<1>2. longer[0] = 0 /\ longer[x] = y /\ longer[x - 1] = z
  BY DEF IsCut
<1>3. ASSUME NEW k \in 1..x PROVE Piece(p, v, longer, k)
  <2>1. CASE k = x
    BY <2>1, <1>2 DEF Piece
  <2>2. CASE k # x
    <3>1. k \in 1..(x - 1) /\ longer[k] = cut[k] /\ longer[k - 1] = cut[k - 1]
      BY <2>2
    <3>2. Piece(p, v, cut, k)
      BY <3>1 DEF IsCut
    <3> QED BY <3>1, <3>2 DEF Piece
  <2> QED BY <2>1, <2>2
<1> QED BY <1>1, <1>2, <1>3 DEF Glob, IsCut

(* And the last piece of a cut can be taken away.                          *)
LEMMA Shorten ==
  ASSUME NEW p \in Seq(Char), NEW v \in Seq(Char),
         NEW x \in 1..Len(p), NEW y \in 0..Len(v),
         NEW cut \in [0..x -> 0..Len(v)],
         IsCut(p, v, x, y, cut)
  PROVE  /\ cut[x - 1] \in 0..Len(v)
         /\ Glob(p, v, x - 1, cut[x - 1])
         /\ Piece(p, v, cut, x)
         /\ cut[x] = y
<1> DEFINE shorter == [k \in 0..(x - 1) |-> cut[k]]
<1>1. shorter \in [0..(x - 1) -> 0..Len(v)] /\ x - 1 \in 0..x
  OBVIOUS
<1>2. ASSUME NEW k \in 1..(x - 1) PROVE Piece(p, v, shorter, k)
  <2>1. k \in 1..x /\ shorter[k] = cut[k] /\ shorter[k - 1] = cut[k - 1]
    OBVIOUS
  <2>2. Piece(p, v, cut, k)
    BY <2>1 DEF IsCut
  <2> QED BY <2>1, <2>2 DEF Piece
<1>3. IsCut(p, v, x - 1, cut[x - 1], shorter)
  BY <1>1, <1>2 DEF IsCut
<1>4. Glob(p, v, x - 1, cut[x - 1])
  BY <1>1, <1>3 DEF Glob
<1>5. cut[x - 1] \in 0..Len(v)
  BY <1>1
<1>6. x \in 1..x
  OBVIOUS
<1> QED BY <1>4, <1>5, <1>6 DEF IsCut

(* What a star does: it stands for nothing, or for one character more.     *)
LEMMA GlobStar ==
  ASSUME NEW p \in Seq(Char), NEW v \in Seq(Char),
         NEW x \in 1..Len(p), NEW y \in 1..Len(v), p[x] = Star
  PROVE  Glob(p, v, x, y) <=> Glob(p, v, x - 1, y) \/ Glob(p, v, x, y - 1)
<1>1. ASSUME Glob(p, v, x, y) PROVE Glob(p, v, x - 1, y) \/ Glob(p, v, x, y - 1)
  <2>1. PICK cut \in [0..x -> 0..Len(v)] : IsCut(p, v, x, y, cut)
    BY <1>1 DEF Glob
  <2>2. /\ cut[x - 1] \in 0..Len(v) /\ Glob(p, v, x - 1, cut[x - 1])
        /\ cut[x - 1] <= y
    BY <2>1, Shorten, SMTT(30) DEF Piece
  <2>3. CASE cut[x - 1] = y
    BY <2>2, <2>3
  <2>4. CASE cut[x - 1] # y
    <3>1. PICK shorter \in [0..(x - 1) -> 0..Len(v)] :
            IsCut(p, v, x - 1, cut[x - 1], shorter)
      BY <2>2 DEF Glob
    <3>2. cut[x - 1] <= y - 1 /\ y - 1 \in 0..Len(v)
      BY <2>2, <2>4
    <3>3. Glob(p, v, x, y - 1)
      BY <2>2, <3>1, <3>2, Extend
    <3> QED BY <3>3
  <2> QED BY <2>3, <2>4
<1>2. y \in 0..Len(v) /\ y <= y /\ y - 1 \in 0..Len(v)
  OBVIOUS
<1>3. ASSUME Glob(p, v, x - 1, y) PROVE Glob(p, v, x, y)
  <2>1. PICK cut \in [0..(x - 1) -> 0..Len(v)] : IsCut(p, v, x - 1, y, cut)
    BY <1>3 DEF Glob
  <2> QED BY <1>2, <2>1, Extend
<1>4. ASSUME Glob(p, v, x, y - 1) PROVE Glob(p, v, x, y)
  <2>1. PICK cut \in [0..x -> 0..Len(v)] : IsCut(p, v, x, y - 1, cut)
    BY <1>4 DEF Glob
  <2>2. /\ cut[x - 1] \in 0..Len(v) /\ Glob(p, v, x - 1, cut[x - 1])
        /\ Piece(p, v, cut, x) /\ cut[x] = y - 1
    BY <1>2, <2>1, Shorten, ZenonT(60)
  <2>3. cut[x - 1] <= y
    BY <2>2 DEF Piece
  <2>4. PICK shorter \in [0..(x - 1) -> 0..Len(v)] :
          IsCut(p, v, x - 1, cut[x - 1], shorter)
    BY <2>2 DEF Glob
  <2> QED BY <1>2, <2>2, <2>3, <2>4, Extend
<1> QED BY <1>1, <1>3, <1>4

(* What any other character does: it stands for one character, itself      *)
(* unless it is `?`.                                                       *)
LEMMA GlobChar ==
  ASSUME NEW p \in Seq(Char), NEW v \in Seq(Char),
         NEW x \in 1..Len(p), NEW y \in 1..Len(v), p[x] # Star
  PROVE  Glob(p, v, x, y) <=>
           (p[x] = Any \/ p[x] = v[y]) /\ Glob(p, v, x - 1, y - 1)
<1>1. ASSUME Glob(p, v, x, y)
      PROVE  (p[x] = Any \/ p[x] = v[y]) /\ Glob(p, v, x - 1, y - 1)
  <2>1. PICK cut \in [0..x -> 0..Len(v)] : IsCut(p, v, x, y, cut)
    BY <1>1 DEF Glob
  <2>2. /\ cut[x - 1] \in 0..Len(v) /\ Glob(p, v, x - 1, cut[x - 1])
        /\ y = cut[x - 1] + 1 /\ (p[x] = Any \/ p[x] = v[y])
    BY <2>1, Shorten, SMTT(30) DEF Piece
  <2>3. cut[x - 1] = y - 1
    BY <2>2
  <2> QED BY <2>2, <2>3
<1>2. ASSUME p[x] = Any \/ p[x] = v[y], Glob(p, v, x - 1, y - 1)
      PROVE  Glob(p, v, x, y)
  <2>1. PICK cut \in [0..(x - 1) -> 0..Len(v)] : IsCut(p, v, x - 1, y - 1, cut)
    BY <1>2 DEF Glob
  <2>2. y - 1 \in 0..Len(v) /\ y \in 0..Len(v) /\ y = (y - 1) + 1
    OBVIOUS
  <2>3. IF p[x] = Star THEN y - 1 <= y
          ELSE y = (y - 1) + 1 /\ (p[x] = Any \/ p[x] = v[y])
    BY <1>2, <2>2
  <2> QED BY <2>1, <2>2, <2>3, Extend
<1> QED BY <1>1, <1>2

(* The first column: only stars match the empty value.                     *)
LEMMA GlobEmpty ==
  ASSUME NEW p \in Seq(Char), NEW v \in Seq(Char), NEW x \in 1..Len(p)
  PROVE  Glob(p, v, x, 0) <=> p[x] = Star /\ Glob(p, v, x - 1, 0)
<1>0. 0 \in 0..Len(v)
  OBVIOUS
<1>1. ASSUME Glob(p, v, x, 0) PROVE p[x] = Star /\ Glob(p, v, x - 1, 0)
  <2>1. PICK cut \in [0..x -> 0..Len(v)] : IsCut(p, v, x, 0, cut)
    BY <1>1 DEF Glob
  <2>2. /\ cut[x - 1] \in 0..Len(v) /\ Glob(p, v, x - 1, cut[x - 1])
        /\ Piece(p, v, cut, x) /\ cut[x] = 0
    BY <1>0, <2>1, Shorten, ZenonT(60)
  <2>3. p[x] = Star /\ cut[x - 1] = 0
    BY <2>2 DEF Piece
  <2> QED BY <2>2, <2>3
<1>2. ASSUME p[x] = Star, Glob(p, v, x - 1, 0) PROVE Glob(p, v, x, 0)
  <2>1. PICK cut \in [0..(x - 1) -> 0..Len(v)] : IsCut(p, v, x - 1, 0, cut)
    BY <1>2 DEF Glob
  <2> QED BY <1>0, <1>2, <2>1, Extend, SMTT(30)
<1> QED BY <1>1, <1>2

-----------------------------------------------------------------------------
(* The algorithm. Besides the passed cells being right, the first row and  *)
(* the cells not yet reached in the first column are as Init left them,    *)
(* and the loop variables belong to the loop.                              *)

Untouched ==
  pc = "column" =>
    \A x \in 0..M : \A y \in 0..N :
      y > 0 \/ x >= i => (matches[x][y] <=> x = 0 /\ y = 0)

InLoop ==
  /\ pc = "column" => j = 0
  /\ pc # "column" => j >= 1
  /\ pc = "done" => i = M + 1

IInv == WTypeOK /\ TableRight /\ Untouched /\ InLoop /\ ResultRight

(* A table as the code starts with it.                                     *)
Begun ==
  /\ pattern \in Seq(Char) /\ value \in Seq(Char)
  /\ matches = [x \in 0..M |-> [y \in 0..N |-> x = 0 /\ y = 0]]
  /\ pc = "column" /\ i = 1 /\ j = 0 /\ result = FALSE

(* They hold of it,                                                        *)
LEMMA BegunRight == Begun => IInv
<1> SUFFICES ASSUME Begun PROVE IInv
  OBVIOUS
<1>1. M \in Nat /\ N \in Nat /\ value \in Seq(Char)
  BY Lengths DEF Begun, M, N
<1>2. WTypeOK
  <2>1. matches \in [0..M -> [0..N -> BOOLEAN]]
    BY DEF Begun
  <2>2. i \in 1..(M + 1) /\ j \in 0..(N + 1)
    BY <1>1 DEF Begun
  <2> QED BY <2>1, <2>2 DEF Begun, WTypeOK
<1>3. Untouched /\ InLoop /\ ResultRight
  BY <1>1 DEF Begun, Untouched, InLoop, ResultRight
<1>4. TableRight
  <2> SUFFICES ASSUME NEW x \in 0..M, NEW y \in 0..N, Passed(x, y)
               PROVE  matches[x][y] <=> Glob(pattern, value, x, y)
    BY DEF TableRight
  <2>1. x = 0
    BY <1>1 DEF Passed, Begun
  <2>2. Glob(pattern, value, 0, y) <=> y = 0
    BY <1>1, GlobNone DEF N
  <2>3. matches[x][y] <=> y = 0
    BY <2>1 DEF Begun
  <2> QED BY <2>1, <2>2, <2>3
<1> QED BY <1>2, <1>3, <1>4 DEF IInv

(* and so of the states in which the code starts.                          *)
LEMMA InvInit == Init => IInv
BY BegunRight, WildcardAssumption DEF Init, Begun

(* Within the table, what a cell holds before a step and after it: only    *)
(* the cell that is set changes.                                           *)
LEMMA SetCell ==
  ASSUME WTypeOK, NEW a \in 0..M, NEW c \in 0..N, NEW b \in BOOLEAN, Set(a, c, b)
  PROVE  /\ matches' \in [0..M -> [0..N -> BOOLEAN]]
         /\ matches'[a][c] = b
         /\ \A x \in 0..M : \A y \in 0..N :
              x # a \/ y # c => matches'[x][y] = matches[x][y]
BY DEF WTypeOK, Set

(* One step of FirstColumn keeps the table right.                          *)
LEMMA FirstColumnKeeps ==
  ASSUME IInv, FirstColumn
  PROVE  IInv'
<1>1. /\ M \in Nat /\ N \in Nat /\ M' = M /\ N' = N
      /\ pattern \in Seq(Char) /\ value \in Seq(Char)
  BY Lengths DEF IInv, WTypeOK, FirstColumn, M, N
<1>2. WTypeOK /\ i \in 1..M /\ j = 0 /\ ColumnCell \in BOOLEAN
  BY <1>1 DEF IInv, WTypeOK, FirstColumn, InLoop, ColumnCell
<1>3. i \in 0..M /\ i - 1 \in 0..M /\ 0 \in 0..N
  BY <1>1, <1>2
<1>4. /\ matches' \in [0..M -> [0..N -> BOOLEAN]]
      /\ matches'[i][0] = ColumnCell
      /\ \A x \in 0..M : \A y \in 0..N :
           x # i \/ y # 0 => matches'[x][y] = matches[x][y]
  BY <1>2, <1>3, SetCell DEF FirstColumn
<1>5. WTypeOK'
  BY <1>1, <1>2, <1>4 DEF WTypeOK, FirstColumn
<1>6. TableRight'
  <2> SUFFICES ASSUME NEW x \in 0..M, NEW y \in 0..N, Passed(x, y)'
               PROVE  matches'[x][y] <=> Glob(pattern, value, x, y)
    BY <1>1 DEF TableRight, FirstColumn
  <2>1. CASE x = i /\ y = 0
    <3>1. Passed(i - 1, 0)
      BY <1>2 DEF Passed, FirstColumn
    <3>2. matches[i - 1][0] <=> Glob(pattern, value, i - 1, 0)
      BY <1>3, <3>1 DEF IInv, TableRight
    <3>3. Glob(pattern, value, i, 0)
            <=> pattern[i] = Star /\ Glob(pattern, value, i - 1, 0)
      BY <1>1, <1>2, GlobEmpty DEF M
    <3> QED BY <1>4, <2>1, <3>2, <3>3 DEF ColumnCell
  <2>2. CASE x # i \/ y # 0
    <3>1. Passed(x, y)
      BY <1>2, <2>2 DEF Passed, FirstColumn
    <3> QED BY <1>4, <2>2, <3>1 DEF IInv, TableRight
  <2> QED BY <2>1, <2>2
<1>7. Untouched'
  <2> SUFFICES ASSUME NEW x \in 0..M, NEW y \in 0..N, y > 0 \/ x >= i + 1
               PROVE  matches'[x][y] <=> x = 0 /\ y = 0
    BY <1>1 DEF Untouched, FirstColumn
  <2>1. (x # i \/ y # 0) /\ (y > 0 \/ x >= i)
    BY <1>2
  <2> QED BY <1>4, <2>1 DEF IInv, Untouched, FirstColumn
<1>8. InLoop' /\ ResultRight'
  BY <1>2 DEF InLoop, ResultRight, FirstColumn
<1> QED BY <1>5, <1>6, <1>7, <1>8 DEF IInv

(* When the first column is complete, row 0 and column 0 are right.        *)
LEMMA ColumnEndsKeeps ==
  ASSUME IInv, ColumnEnds
  PROVE  IInv'
<1>1. M \in Nat /\ N \in Nat /\ M' = M /\ N' = N
  BY Lengths DEF IInv, WTypeOK, ColumnEnds, M, N
<1>2. WTypeOK'
  BY <1>1 DEF IInv, WTypeOK, ColumnEnds
<1>3. TableRight'
  <2> SUFFICES ASSUME NEW x \in 0..M, NEW y \in 0..N, Passed(x, y)'
               PROVE  matches[x][y] <=> Glob(pattern, value, x, y)
    BY <1>1 DEF TableRight, ColumnEnds
  <2>1. Passed(x, y)
    BY <1>1 DEF Passed, ColumnEnds, IInv, WTypeOK
  <2> QED BY <2>1 DEF IInv, TableRight
<1>4. Untouched' /\ InLoop' /\ ResultRight'
  BY DEF Untouched, InLoop, ResultRight, ColumnEnds
<1> QED BY <1>2, <1>3, <1>4 DEF IInv

(* The cell that Fill computes is right if the three it looks at are.      *)
LEMMA FillKeeps ==
  ASSUME IInv, Fill
  PROVE  IInv'
<1>1. /\ M \in Nat /\ N \in Nat /\ M' = M /\ N' = N
      /\ pattern \in Seq(Char) /\ value \in Seq(Char)
  BY Lengths DEF IInv, WTypeOK, Fill, M, N
<1>2. WTypeOK /\ i \in 1..M /\ j \in 1..N
  BY <1>1 DEF IInv, WTypeOK, Fill, InLoop
<1>3. i \in 0..M /\ i - 1 \in 0..M /\ j \in 0..N /\ j - 1 \in 0..N
  BY <1>1, <1>2
<1>4. Cell \in BOOLEAN
  BY <1>2, <1>3 DEF WTypeOK, Cell
<1>5. /\ matches' \in [0..M -> [0..N -> BOOLEAN]]
      /\ matches'[i][j] = Cell
      /\ \A x \in 0..M : \A y \in 0..N :
           x # i \/ y # j => matches'[x][y] = matches[x][y]
  BY <1>2, <1>3, <1>4, SetCell DEF Fill
<1>6. WTypeOK'
  BY <1>1, <1>2, <1>5 DEF WTypeOK, Fill
<1>7. Cell <=> Glob(pattern, value, i, j)
  <2>1. /\ matches[i - 1][j] <=> Glob(pattern, value, i - 1, j)
        /\ matches[i][j - 1] <=> Glob(pattern, value, i, j - 1)
        /\ matches[i - 1][j - 1] <=> Glob(pattern, value, i - 1, j - 1)
    <3>1. Passed(i - 1, j) /\ Passed(i, j - 1) /\ Passed(i - 1, j - 1)
      BY <1>2 DEF Passed, Fill
    <3> QED BY <1>3, <3>1 DEF IInv, TableRight
  <2>2. CASE pattern[i] = Star
    <3>1. Glob(pattern, value, i, j) <=>
            Glob(pattern, value, i - 1, j) \/ Glob(pattern, value, i, j - 1)
      BY <1>1, <1>2, <2>2, GlobStar DEF M, N
    <3> QED BY <2>1, <2>2, <3>1 DEF Cell
  <2>3. CASE pattern[i] # Star
    <3>1. Glob(pattern, value, i, j) <=>
            /\ pattern[i] = Any \/ pattern[i] = value[j]
            /\ Glob(pattern, value, i - 1, j - 1)
      BY <1>1, <1>2, <2>3, GlobChar DEF M, N
    <3> QED BY <2>1, <2>3, <3>1 DEF Cell
  <2> QED BY <2>2, <2>3
<1>8. TableRight'
  <2> SUFFICES ASSUME NEW x \in 0..M, NEW y \in 0..N, Passed(x, y)'
               PROVE  matches'[x][y] <=> Glob(pattern, value, x, y)
    BY <1>1 DEF TableRight, Fill
  <2>1. CASE x = i /\ y = j
    BY <1>5, <1>7, <2>1
  <2>2. CASE x # i \/ y # j
    <3>1. Passed(x, y)
      BY <1>2, <2>2 DEF Passed, Fill
    <3> QED BY <1>5, <2>2, <3>1 DEF IInv, TableRight
  <2> QED BY <2>1, <2>2
<1>9. Untouched' /\ InLoop' /\ ResultRight'
  BY <1>2 DEF Untouched, InLoop, ResultRight, Fill
<1> QED BY <1>6, <1>8, <1>9 DEF IInv

(* A row that has ended was filled to its end.                             *)
LEMMA RowEndsKeeps ==
  ASSUME IInv, RowEnds
  PROVE  IInv'
<1>1. M \in Nat /\ N \in Nat /\ M' = M /\ N' = N
  BY Lengths DEF IInv, WTypeOK, RowEnds, M, N
<1>2. WTypeOK'
  BY <1>1 DEF IInv, WTypeOK, RowEnds
<1>3. TableRight'
  <2> SUFFICES ASSUME NEW x \in 0..M, NEW y \in 0..N, Passed(x, y)'
               PROVE  matches[x][y] <=> Glob(pattern, value, x, y)
    BY <1>1 DEF TableRight, RowEnds
  <2>1. Passed(x, y)
    BY <1>1 DEF Passed, RowEnds, IInv, WTypeOK
  <2> QED BY <2>1 DEF IInv, TableRight
<1>4. Untouched' /\ InLoop' /\ ResultRight'
  BY DEF Untouched, InLoop, ResultRight, RowEnds
<1> QED BY <1>2, <1>3, <1>4 DEF IInv

(* Every row has ended when the last cell is returned.                     *)
LEMMA ReturnKeeps ==
  ASSUME IInv, Return
  PROVE  IInv'
<1>1. M \in Nat /\ N \in Nat /\ M' = M /\ N' = N
  BY Lengths DEF IInv, WTypeOK, Return, M, N
<1>2. M \in 0..M /\ N \in 0..N
  BY <1>1
<1>3. WTypeOK' /\ Untouched' /\ InLoop'
  BY <1>1, <1>2 DEF IInv, WTypeOK, Untouched, InLoop, Return
<1>4. \A x \in 0..M : \A y \in 0..N :
        Passed(x, y) /\ (matches[x][y] <=> Glob(pattern, value, x, y))
  BY <1>1 DEF IInv, WTypeOK, TableRight, Passed, Return
<1>5. TableRight'
  BY <1>1, <1>4 DEF TableRight, Return
<1>6. ResultRight'
  BY <1>1, <1>2, <1>4 DEF ResultRight, Return
<1> QED BY <1>3, <1>5, <1>6 DEF IInv

(* and after every step.                                                   *)
LEMMA InvStep == IInv /\ [Next]_vars => IInv'
<1> SUFFICES ASSUME IInv, [Next]_vars PROVE IInv'
  OBVIOUS
<1>1. CASE Next
  BY <1>1, FirstColumnKeeps, ColumnEndsKeeps, FillKeeps, RowEndsKeeps,
     ReturnKeeps DEF Next
<1>2. CASE UNCHANGED vars
  BY <1>2 DEF vars, IInv, WTypeOK, TableRight, Passed, Untouched, InLoop,
              ResultRight, M, N
<1> QED BY <1>1, <1>2

(* The table and the loop variables keep their shape: no index leaves the  *)
(* table, for any pattern and value.                                       *)
THEOREM TypeCorrect == Spec => []WTypeOK
<1>1. IInv => WTypeOK
  BY DEF IInv
<1> QED BY <1>1, InvInit, InvStep, PTL DEF Spec

(* Every cell that the loops have passed says whether that much of the     *)
(* pattern matches that much of the value, for any pattern and value.      *)
THEOREM TableCorrect == Spec => []TableRight
<1>1. IInv => TableRight
  BY DEF IInv
<1> QED BY <1>1, InvInit, InvStep, PTL DEF Spec

(* wildcard_matches returns true exactly if the value can be cut into the  *)
(* pieces that the pattern asks for, for any pattern and value.            *)
THEOREM ResultCorrect == Spec => []ResultRight
<1>1. IInv => ResultRight
  BY DEF IInv
<1> QED BY <1>1, InvInit, InvStep, PTL DEF Spec

-----------------------------------------------------------------------------
(* matches_filter.                                                         *)

PatternFields == {"include_patterns", "exclude_patterns"}

(* The patterns of a field, as they are tried.                             *)
Listed(field) == IF filter[field] = None THEN << >> ELSE filter[field]

(* One of the first n of them matches.                                     *)
Hit(field, n) == \E m \in 1..n : Globs(Listed(field)[m])

(* wildcard_matches is at work on the pattern that is tried.               *)
Matching ==
  /\ Trying
  /\ at <= Len(Tried)
  /\ IInv
  /\ pattern = Tried[at] /\ value = drv.attr

(* What has been found is what the patterns before this one have answered, *)
(* and after one that matches no other is tried.                           *)
Searched ==
  Trying =>
    /\ at \in 1..(Len(Tried) + 1)
    /\ found[stage] <=> Hit(stage, at - 1)
    /\ found[stage] => at = Len(Tried) + 1 /\ pc = "idle"

(* The fields come one after the other.                                    *)
Settled ==
  /\ stage = "include_patterns" => ~found["exclude_patterns"]
  /\ stage # "include_patterns" =>
       (found["include_patterns"]
          <=> Hit("include_patterns", Len(Listed("include_patterns"))))
  /\ stage \in {"decide", "return"} =>
       (found["exclude_patterns"]
          <=> Hit("exclude_patterns", Len(Listed("exclude_patterns"))))

FTypeOK ==
  /\ question \in Questions
  /\ stage \in {"include_patterns", "exclude_patterns", "decide", "return"}
  /\ found \in [PatternFields -> BOOLEAN]
  /\ answer \in BOOLEAN

FInv ==
  /\ FTypeOK
  /\ pc = "idle" \/ Matching
  /\ Searched /\ Settled
  /\ FilterRight

(* What may be asked is about strings.                                     *)
LEMMA Asked ==
  ASSUME question \in Questions
  PROVE  /\ drv.attr \in Seq(Char) /\ Len(drv.attr) \in Nat
         /\ \A p : Globs(p) <=> Glob(p, drv.attr, Len(p), Len(drv.attr))
         /\ \A f \in PatternFields :
              /\ Listed(f) \in Seq(Seq(Char)) /\ Len(Listed(f)) \in Nat
              /\ \A n \in 1..Len(Listed(f)) :
                   Listed(f)[n] \in Seq(Char) /\ Len(Listed(f)[n]) \in Nat
<1>1. /\ drv.attr \in Seq(Char) /\ drv.attr = Rendered(drv.attr_path)
      /\ filter.include_patterns \in Seq(Seq(Char)) \cup {None}
      /\ filter.exclude_patterns \in Seq(Seq(Char)) \cup {None}
  BY FilterAssumption DEF Strings, drv, filter
<1>2. \A p : Globs(p) <=> Glob(p, drv.attr, Len(p), Len(drv.attr))
  BY <1>1 DEF Globs
<1>3. ASSUME NEW f \in PatternFields PROVE Listed(f) \in Seq(Seq(Char))
  <2>1. filter[f] \in Seq(Seq(Char)) \cup {None}
    BY <1>1 DEF PatternFields
  <2>2. << >> \in Seq(Seq(Char))
    OBVIOUS
  <2> QED BY <2>1, <2>2 DEF Listed
<1>4. ASSUME NEW f \in PatternFields, NEW n \in 1..Len(Listed(f))
      PROVE  Listed(f)[n] \in Seq(Char) /\ Len(Listed(f)[n]) \in Nat
  <2>1. Listed(f)[n] \in Seq(Char)
    BY <1>3
  <2> QED BY <2>1
<1>5. \A f \in PatternFields : Len(Listed(f)) \in Nat
  BY <1>3
<1>6. Len(drv.attr) \in Nat
  BY <1>1
<1> QED BY <1>1, <1>2, <1>3, <1>4, <1>5, <1>6

(* A question that is asked has not been looked at.                        *)
LEMMA FilterInit == FInit => FInv
<1> SUFFICES ASSUME FInit PROVE FInv
  OBVIOUS
<1>1. FTypeOK /\ pc = "idle" /\ stage = "include_patterns" /\ at = 1
  BY DEF FInit, FTypeOK, PatternFields
<1>2. /\ ~found["include_patterns"] /\ ~found["exclude_patterns"]
  BY DEF FInit
<1>3. Len(Tried) \in Nat /\ \A f : ~Hit(f, 0)
  BY <1>1, Asked DEF FTypeOK, Tried, Listed, PatternFields, Hit
<1>4. Searched /\ Settled /\ FilterRight
  BY <1>1, <1>2, <1>3 DEF Searched, Settled, FilterRight
<1> QED BY <1>1, <1>4 DEF FInv

(* The same stays asked, and the same has been listed, in all steps.       *)
LEMMA SameQuestion ==
  ASSUME UNCHANGED question
  PROVE  /\ drv' = drv /\ filter' = filter
         /\ \A f : Listed(f)' = Listed(f)
         /\ \A f, n : Hit(f, n)' <=> Hit(f, n)
         /\ \A p : Globs(p)' <=> Globs(p)
         /\ stage' = stage => Tried' = Tried /\ (Trying' <=> Trying)
BY DEF drv, filter, Listed, Hit, Globs, Tried, Trying

(* A call starts with a table that is right.                               *)
LEMMA CallKeeps ==
  ASSUME FInv, Call
  PROVE  FInv'
<1>1. /\ UNCHANGED fvars /\ Trying /\ at <= Len(Tried) /\ pc = "idle" /\ pc' = "column"
      /\ pattern' = Tried[at] /\ value' = drv.attr
  BY DEF Call
<1>2. /\ FTypeOK' /\ Settled' /\ (Tried' = Tried) /\ drv' = drv
      /\ Trying' /\ at' = at
  BY <1>1, SameQuestion DEF FInv, fvars, FTypeOK, Settled
<1>3. at \in 1..Len(Tried) /\ Tried = Listed(stage) /\ stage \in PatternFields
  BY <1>1, Asked DEF FInv, FTypeOK, Searched, Trying, PatternFields, Tried, Listed
<1>4. ~found[stage]
  BY <1>1, <1>3, Asked DEF FInv, FTypeOK, Searched
<1>5. Begun'
  BY <1>1, <1>3, Asked DEF Begun, FInv, FTypeOK, Call
<1>6. IInv'
  BY <1>5, BegunRight, PTL
<1>7. Searched'
  BY <1>1, <1>4, SameQuestion DEF FInv, fvars, Searched
<1>8. FilterRight'
  BY <1>2 DEF FilterRight, Trying
<1> QED BY <1>1, <1>2, <1>6, <1>7, <1>8 DEF FInv, Matching

(* wildcard_matches fills its table,                                       *)
LEMMA MatchKeeps ==
  ASSUME FInv, Match
  PROVE  FInv'
<1>1. UNCHANGED fvars /\ Next /\ UNCHANGED <<pattern, value>> /\ pc # "idle"
  BY DEF Match, Next, FirstColumn, ColumnEnds, Fill, RowEnds, Return
<1>2. Matching
  BY <1>1 DEF FInv
<1>3. IInv'
  BY <1>1, <1>2, InvStep DEF Matching
<1>4. FTypeOK' /\ Settled' /\ Matching'
  BY <1>1, <1>2, <1>3, SameQuestion DEF FInv, fvars, FTypeOK, Settled, Matching
<1>5. Searched' /\ FilterRight'
  BY <1>1, <1>2, SameQuestion DEF FInv, fvars, Searched, FilterRight, Matching, Trying
<1> QED BY <1>4, <1>5 DEF FInv

(* and its answer is that of the pattern.                                  *)
LEMMA ReturnedKeeps ==
  ASSUME FInv, Returned
  PROVE  FInv'
<1>1. /\ UNCHANGED <<question, stage, answer, pattern, value>>
      /\ Trying /\ pc = "done" /\ pc' = "idle" /\ Matching
      /\ found' = [found EXCEPT ![stage] = result]
      /\ at' = IF result THEN Len(Tried) + 1 ELSE at + 1
  BY DEF Returned, FInv
<1>2. /\ stage \in PatternFields /\ Tried = Listed(stage) /\ Len(Tried) \in Nat
      /\ at \in 1..Len(Tried)
  BY <1>1, Asked DEF FInv, FTypeOK, Searched, Matching, Trying, PatternFields, Tried, Listed
<1>3. result \in BOOLEAN /\ (result <=> Globs(Tried[at]))
  BY <1>1, <1>2, Asked DEF Matching, IInv, WTypeOK, ResultRight, M, N, FInv, FTypeOK
<1>4. FTypeOK' /\ found'[stage] = result
  BY <1>1, <1>2, <1>3 DEF FInv, FTypeOK
<1>5. ~found[stage] /\ ~Hit(stage, at - 1)
  BY <1>1 DEF FInv, Searched
<1>6. Searched'
  <2>1. at' \in 1..(Len(Tried) + 1) /\ (result => at' = Len(Tried) + 1)
    BY <1>1, <1>2
  <2>2. result <=> Hit(stage, at' - 1)
    <3>1. CASE result
      <4>1. at \in 1..(at' - 1)
        BY <1>1, <1>2, <3>1
      <4> QED BY <1>2, <1>3, <3>1, <4>1 DEF Hit
    <3>2. CASE ~result
      <4>1. at' - 1 = at /\ \A n \in 1..at : n = at \/ n \in 1..(at - 1)
        BY <1>1, <1>2, <3>2
      <4> QED BY <1>2, <1>3, <1>5, <3>2, <4>1 DEF Hit
    <3> QED BY <3>1, <3>2
  <2> QED BY <1>1, <1>4, <2>1, <2>2, SameQuestion DEF Searched
<1>7. Settled'
  BY <1>1, <1>2, <1>4, SameQuestion DEF FInv, FTypeOK, Settled, PatternFields, Trying
<1>8. FilterRight'
  BY <1>1 DEF FilterRight, Trying
<1> QED BY <1>1, <1>4, <1>6, <1>7, <1>8 DEF FInv

(* When no pattern is left, what has been found is what there is.          *)
LEMMA ExhaustedKeeps ==
  ASSUME FInv, Exhausted
  PROVE  FInv'
<1>1. /\ UNCHANGED <<question, found, answer>> /\ pc = "idle" /\ pc' = "idle"
      /\ Trying /\ at > Len(Tried) /\ at' = 1
      /\ stage' = IF stage = "include_patterns" THEN "exclude_patterns" ELSE "decide"
  BY DEF Exhausted, vars
<1>2. /\ stage \in PatternFields /\ Tried = Listed(stage) /\ Len(Tried) \in Nat
      /\ at - 1 = Len(Tried)
  BY <1>1, Asked DEF FInv, FTypeOK, Searched, Trying, PatternFields, Tried, Listed
<1>3. found[stage] <=> Hit(stage, Len(Listed(stage)))
  BY <1>1, <1>2 DEF FInv, Searched
<1>4. FTypeOK' /\ FilterRight'
  BY <1>1 DEF FInv, FTypeOK, FilterRight
<1>5. Settled'
  BY <1>1, <1>2, <1>3, SameQuestion DEF FInv, Settled, PatternFields
<1>6. Searched'
  <2> SUFFICES ASSUME Trying' PROVE Searched'
    BY DEF Searched
  <2>1. stage = "include_patterns" /\ stage' = "exclude_patterns" /\ at' = 1
    BY <1>1, <1>2 DEF Trying, PatternFields
  <2>2. ~found["exclude_patterns"]' /\ ~Hit("exclude_patterns", 0)'
    BY <1>1, <2>1 DEF FInv, Settled, Hit
  <2>3. Len(Tried)' \in Nat
    BY <1>4, <2>1, Asked, SameQuestion, <1>1 DEF Tried, Listed, FInv, FTypeOK, PatternFields
  <2> QED BY <2>1, <2>2, <2>3 DEF Searched
<1> QED BY <1>1, <1>4, <1>5, <1>6 DEF FInv

(* attr_path_starts_with: the prefix is what the path begins with.         *)
LEMMA Begins ==
  ASSUME NEW W, NEW names \in Seq(W), NEW prefix \in Seq(W)
  PROVE  StartsWith(names, prefix)
           <=> \E n \in 0..Len(names) : prefix = SubSeq(names, 1, n)
<1>1. Len(names) \in Nat /\ Len(prefix) \in Nat
  BY SMTT(30)
<1>2. ASSUME StartsWith(names, prefix)
      PROVE  \E n \in 0..Len(names) : prefix = SubSeq(names, 1, n)
  <2> DEFINE n == Len(prefix)
             cut == SubSeq(names, 1, n)
  <2>1. n \in 0..Len(names)
    BY <1>1, <1>2 DEF StartsWith
  <2>2. cut \in Seq(W) /\ Len(cut) = n
    BY <1>1, <2>1
  <2>3. ASSUME NEW m \in 1..n PROVE cut[m] = prefix[m]
    <3>1. m \in DOMAIN names \cap DOMAIN prefix
      BY <1>1, <2>1
    <3>2. cut[m] = names[m]
      BY <1>1, <2>1
    <3> QED BY <1>2, <3>1, <3>2 DEF StartsWith
  <2> HIDE DEF cut
  <2>4. prefix = cut
    BY <2>2, <2>3
  <2> QED BY <2>1, <2>4, Zenon DEF cut
<1>3. ASSUME NEW n \in 0..Len(names), prefix = SubSeq(names, 1, n)
      PROVE  StartsWith(names, prefix)
  <2>1. Len(prefix) = n /\ \A m \in 1..n : prefix[m] = names[m]
    BY <1>1, <1>3
  <2>2. \A m \in DOMAIN names \cap DOMAIN prefix : m \in 1..n
    BY <1>1, <2>1
  <2> QED BY <1>1, <2>1, <2>2 DEF StartsWith
<1> QED BY <1>2, <1>3

(* A populated field selects what one of its values does.                  *)
LEMMA SomeSelects ==
  ASSUME NEW field \in Fields \ {"attr_prefix"}
  PROVE  (\E x \in Populated(field) : Selects(field, x))
           <=> \E n \in DOMAIN filter[field] : Selects(field, filter[field][n])
BY DEF Populated

(* What the code computes for a field is what the field means:             *)
(* for a list of values,                                                   *)
LEMMA ListsRight ==
  /\ Lists("systems", drv.system) <=>
       (filter.systems # None =>
          \E x \in Populated("systems") : Selects("systems", x))
  /\ Lists("attrs", drv.attr_path) <=>
       (filter.attrs # None => \E x \in Populated("attrs") : Selects("attrs", x))
  /\ Lists("names", drv.name) <=>
       (filter.names # None => \E x \in Populated("names") : Selects("names", x))
  /\ Lists("drv_paths", drv.drv_path) <=>
       (filter.drv_paths # None =>
          \E x \in Populated("drv_paths") : Selects("drv_paths", x))
BY DEF Lists, Selects, Populated

(* for a prefix and for prefixes,                                          *)
LEMMA PrefixesRight ==
  ASSUME question \in Questions
  PROVE  /\ filter.attr_prefix # None =>
              (StartsWith(drv.attr_path, filter.attr_prefix)
                 <=> Selects("attr_prefixes", filter.attr_prefix))
         /\ filter.attr_prefixes # None =>
              ((\E n \in DOMAIN filter.attr_prefixes :
                  StartsWith(drv.attr_path, filter.attr_prefixes[n]))
                 <=> \E x \in Populated("attr_prefixes") : Selects("attr_prefixes", x))
<1>1. /\ drv.attr_path \in Seq(Strings)
      /\ filter.attr_prefix # None => filter.attr_prefix \in Seq(Strings)
      /\ filter.attr_prefixes # None => filter.attr_prefixes \in Seq(Seq(Strings))
  BY FilterAssumption DEF drv, filter
<1>2. \A x \in Seq(Strings) :
        StartsWith(drv.attr_path, x) <=> Selects("attr_prefixes", x)
  BY <1>1, Begins DEF Selects
<1>3. filter.attr_prefixes # None =>
        \A n \in DOMAIN filter.attr_prefixes : filter.attr_prefixes[n] \in Seq(Strings)
  BY <1>1
<1> QED BY <1>1, <1>2, <1>3 DEF Populated

(* and for patterns.                                                       *)
LEMMA PatternsRight ==
  ASSUME question \in Questions, NEW f \in PatternFields, filter[f] # None
  PROVE  Hit(f, Len(Listed(f))) <=> \E x \in Populated(f) : Selects(f, x)
<1>1. Listed(f) = filter[f] /\ filter[f] \in Seq(Seq(Char))
  BY Asked DEF Listed
<1>2. DOMAIN filter[f] = 1..Len(filter[f])
  BY <1>1
<1>3. \A x : Selects(f, x) <=> Globs(x)
  BY DEF Selects, PatternFields
<1>4. Populated(f) = {filter[f][n] : n \in DOMAIN filter[f]}
  BY DEF Populated, PatternFields
<1> QED BY <1>1, <1>2, <1>3, <1>4 DEF Hit

(* So all fields together let through what they should.                    *)
LEMMA DecideKeeps ==
  ASSUME FInv, Decide
  PROVE  FInv'
<1>1. /\ UNCHANGED <<question, at, found, pc>> /\ stage = "decide" /\ stage' = "return"
      /\ question \in Questions
  BY DEF Decide, vars, FInv, FTypeOK
<1>2. /\ found["include_patterns"]
           <=> Hit("include_patterns", Len(Listed("include_patterns")))
      /\ found["exclude_patterns"]
           <=> Hit("exclude_patterns", Len(Listed("exclude_patterns")))
  BY <1>1 DEF FInv, Settled
<1>3. /\ filter.include_patterns # None =>
           (found["include_patterns"] <=>
              \E x \in Populated("include_patterns") : Selects("include_patterns", x))
      /\ filter.exclude_patterns # None =>
           (found["exclude_patterns"] <=>
              \E x \in Populated("exclude_patterns") : Selects("exclude_patterns", x))
  BY <1>1, <1>2, PatternsRight DEF PatternFields
<1>4. Admitted <=>
        /\ Lists("systems", drv.system)
        /\ filter.attr_prefix # None =>
             StartsWith(drv.attr_path, filter.attr_prefix)
        /\ filter.attr_prefixes # None =>
             \E n \in DOMAIN filter.attr_prefixes :
               StartsWith(drv.attr_path, filter.attr_prefixes[n])
        /\ Lists("attrs", drv.attr_path)
        /\ Lists("names", drv.name)
        /\ Lists("drv_paths", drv.drv_path)
        /\ Included
        /\ ~Excluded
  <2>1. Admitted <=>
          /\ Lists("systems", drv.system) /\ Lists("attrs", drv.attr_path)
          /\ Lists("names", drv.name) /\ Lists("drv_paths", drv.drv_path)
          /\ filter.attr_prefix # None => Selects("attr_prefixes", filter.attr_prefix)
          /\ filter.attr_prefixes # None =>
               \E x \in Populated("attr_prefixes") : Selects("attr_prefixes", x)
          /\ filter.include_patterns # None =>
               \E x \in Populated("include_patterns") : Selects("include_patterns", x)
          /\ filter.exclude_patterns # None =>
               \A x \in Populated("exclude_patterns") : ~Selects("exclude_patterns", x)
    BY ListsRight DEF Admitted, Fields
  <2> QED BY <1>1, <1>3, <2>1, PrefixesRight DEF Included, Excluded
<1>5. answer' <=> Admitted
  BY <1>4 DEF Decide
<1>6. Admitted' <=> Admitted
  BY <1>1, SameQuestion DEF Admitted, Selects, Populated, drv, filter, Globs
<1>7. FTypeOK'
  BY <1>1 DEF FInv, FTypeOK, Decide
<1>8. (pc = "idle")'
  BY <1>1 DEF FInv, Matching, Trying
<1>9. Searched' /\ Settled'
  BY <1>1, <1>2, SameQuestion DEF FInv, Searched, Settled, Trying
<1> QED BY <1>5, <1>6, <1>7, <1>8, <1>9 DEF FInv, FilterRight

(* Every step keeps the invariant.                                         *)
LEMMA FilterStep == FInv /\ [FNext]_<<vars, fvars>> => FInv'
<1> SUFFICES ASSUME FInv, [FNext]_<<vars, fvars>> PROVE FInv'
  OBVIOUS
<1>1. CASE FNext
  BY <1>1, CallKeeps, MatchKeeps, ReturnedKeeps, ExhaustedKeeps, DecideKeeps DEF FNext
<1>2. CASE UNCHANGED <<vars, fvars>>
  <2>1. /\ UNCHANGED <<question, stage, at, found, answer, pc, pattern, value>>
        /\ UNCHANGED vars
    BY <1>2 DEF vars, fvars
  <2>2. IInv => IInv'
    BY <2>1, InvStep
  <2>3. FTypeOK' /\ Searched' /\ Settled' /\ (pc = "idle" \/ Matching)'
    BY <2>1, <2>2, SameQuestion DEF FInv, FTypeOK, Searched, Settled, Matching
  <2>4. Admitted' <=> Admitted
    BY <2>1, SameQuestion DEF Admitted, Selects, Populated, drv, filter, Globs
  <2>5. FilterRight'
    BY <2>1, <2>4 DEF FInv, FilterRight
  <2> QED BY <2>3, <2>5 DEF FInv
<1> QED BY <1>1, <1>2

(* matches_filter lets through exactly the derivations that every          *)
(* populated field selects, for any filter and any derivation, whichever   *)
(* of its patterns it has stopped at.                                      *)
THEOREM FilterCorrect == FSpec => []FilterRight
<1>1. FInv => FilterRight
  BY DEF FInv
<1> QED BY <1>1, FilterInit, FilterStep, PTL DEF FSpec

-----------------------------------------------------------------------------
(* Starting.                                                               *)

(* How the processes of one start relate.                                  *)
Processes(d) ==
  /\ parent[d] = "idle" => child[d] = "none" /\ daemon[d] = "none" /\ line[d] = ""
  /\ parent[d] = "none" => child[d] = "none" /\ line[d] = ""
  /\ child[d] \in {"setsid", "fork"} => daemon[d] = "none" /\ line[d] = ""
  /\ line[d] = "Done" => daemon[d] \in {"serving", "dead"}
  /\ line[d] = "Error" => /\ daemon[d] \in {"none", "failed", "dead"}
                          /\ child[d] \notin {"setsid", "fork"}
  /\ parent[d] = "ok" => line[d] = "Done"
  /\ parent[d] = "failed" => /\ daemon[d] \in {"none", "failed", "dead"}
                             /\ child[d] \notin {"setsid", "fork"}
  /\ parent[d] = "killed" => d \in excuse

ProcessInv == \A d \in Starts : Processes(d)

(* A daemon that was found listening does not bind again, and nobody who   *)
(* could reach it removes its socket.                                      *)
OlderInv ==
  \A d, e \in Starts :
    d \in older[e] =>
      /\ daemon[d] \in {"ready", "serving", "failed", "dead"}
      /\ Listening(d) /\ path = d => daemon[e] # "remove"

(* A start that has met no other is alone while it lasts, and has what it  *)
(* bound until somebody who found it listening comes.                      *)
Alone(d) ==
  /\ UnderWay(d) =>
       \A e \in Starts \ {d} :
         /\ ~UnderWay(e)
         /\ path = e /\ Listening(e) => e \in older[d]
  /\ daemon[d] = "remove" => path # "nothing"
  /\ daemon[d] = "bind" => path = "nothing"
  /\ daemon[d] = "listen" \/ Listening(d) => path = d
  /\ Listening(d) =>
       \A e \in Starts \ {d} : UnderWay(e) => d \in older[e]

AloneInv == \A d \in Starts : met[d] = {} => Alone(d)

FileInv ==
  path = "file" => \A d \in Starts : daemon[d] \notin {"probe", "remove"}

Inv ==
  StartTypeOK /\ ProcessInv /\ OlderInv /\ AloneInv /\ FileInv /\ FailsForAReason

-----------------------------------------------------------------------------
(* What the sets of states contain, so that proofs need not expand them.   *)
LEMMA Members ==
  /\ "idle" \in ParentStates /\ "none" \in ParentStates
  /\ "waiting" \in ParentStates /\ "ok" \in ParentStates
  /\ "failed" \in ParentStates /\ "killed" \in ParentStates
  /\ "none" \in ChildSteps /\ "setsid" \in ChildSteps
  /\ "fork" \in ChildSteps /\ "exit" \in ChildSteps /\ "gone" \in ChildSteps
  /\ "none" \in DaemonSteps /\ "pid" \in DaemonSteps
  /\ "directory" \in DaemonSteps /\ "metadata" \in DaemonSteps
  /\ "probe" \in DaemonSteps /\ "remove" \in DaemonSteps
  /\ "bind" \in DaemonSteps /\ "listen" \in DaemonSteps
  /\ "ready" \in DaemonSteps /\ "serving" \in DaemonSteps
  /\ "failed" \in DaemonSteps /\ "dead" \in DaemonSteps
  /\ "" \in Lines /\ "Done" \in Lines /\ "Error" \in Lines
  /\ "nothing" \in Places /\ "file" \in Places /\ "stale" \in Places
  /\ "idle" \in Outcomes /\ "local" \in Outcomes /\ "refused" \in Outcomes
  /\ \A d \in Starts : d \in Places /\ d \in Outcomes
BY DEF ParentStates, ChildSteps, DaemonSteps, Lines, Places, Outcomes

(* At first every variable has its type.                                   *)
LEMMA InitType == SInit => StartTypeOK
<1> SUFFICES ASSUME SInit PROVE StartTypeOK
  OBVIOUS
<1>1. path \in Places
  BY StartupAssumption, Members DEF SInit
<1>2. pid \in Starts \union {Nobody}
  BY DEF SInit
<1>3. scenario \in Scenarios /\ excuse \subseteq Starts
  BY DEF SInit
<1>4. parent \in [Starts -> ParentStates]
  BY Members DEF SInit
<1>5. child \in [Starts -> ChildSteps]
  BY Members DEF SInit
<1>6. daemon \in [Starts -> DaemonSteps]
  BY Members DEF SInit
<1>7. line \in [Starts -> Lines]
  BY Members DEF SInit
<1>8. command \in [Commands -> Outcomes]
  BY Members DEF SInit
<1>9. met \in [Starts -> SUBSET Starts] /\ older \in [Starts -> SUBSET Starts]
  BY DEF SInit
<1> QED BY <1>1, <1>2, <1>3, <1>4, <1>5, <1>6, <1>7, <1>8, <1>9 DEF StartTypeOK

(* A daemon's step moves that daemon, may report, and touches the files.   *)
LEMMA DaemonMoves ==
  ASSUME NEW d \in Starts, Daemon(d)
  PROVE  /\ \E t \in DaemonSteps : daemon' = [daemon EXCEPT ![d] = t]
         /\ \E t \in Lines : line' = line \/ line' = [line EXCEPT ![d] = t]
         /\ excuse' = excuse \/ excuse' = excuse \union {d}
         /\ path' \in {path, "nothing", d} /\ pid' \in {pid, d}
<1> USE Members DEF Goto, Fail, Breaks, GiveUp, files
<1>1. CASE WritePid(d)
  BY <1>1 DEF WritePid
<1>2. CASE Directory(d) \/ Metadata(d)
  BY <1>2 DEF Directory, Metadata
<1>3. CASE Probe(d)
  BY <1>3 DEF Probe
<1>4. CASE Remove(d)
  BY <1>4 DEF Remove
<1>5. CASE Bind(d) \/ Listen(d)
  BY <1>5 DEF Bind, Listen
<1>6. CASE Ready(d)
  BY <1>6 DEF Ready
<1> QED
  BY <1>1, <1>2, <1>3, <1>4, <1>5, <1>6 DEF Daemon

(* The variables have their types.                                         *)
LEMMA TypeStep == StartTypeOK /\ [SNext]_svars => StartTypeOK'
<1> SUFFICES ASSUME StartTypeOK, [SNext]_svars PROVE StartTypeOK'
  OBVIOUS
<1> USE Members DEF StartTypeOK, files, processes
<1>1. ASSUME NEW d \in Starts, Begin(d) PROVE StartTypeOK'
  <2>1. parent' \in [Starts -> ParentStates]
    BY <1>1, ZenonT(60) DEF Begin
  <2>2. child' \in [Starts -> ChildSteps]
    BY <1>1 DEF Begin
  <2>3. daemon' \in [Starts -> DaemonSteps]
    BY <1>1 DEF Begin
  <2>4. met' \in [Starts -> SUBSET Starts]
    BY <1>1, ZenonT(60) DEF Begin
  <2>5. older' \in [Starts -> SUBSET Starts]
    BY <1>1 DEF Begin, Reachable
  <2>6. excuse' \subseteq Starts
    BY <1>1 DEF Begin
  <2>7. UNCHANGED <<scenario, line, path, pid, command>>
    BY <1>1 DEF Begin
  <2> QED BY <2>1, <2>2, <2>3, <2>4, <2>5, <2>6, <2>7
<1>2. ASSUME NEW d \in Starts, Child(d) PROVE StartTypeOK'
  <2>1. child' \in [Starts -> ChildSteps]
    BY <1>2 DEF Child, ChildFails
  <2>2. daemon' \in [Starts -> DaemonSteps]
    BY <1>2 DEF Child, ChildFails
  <2>3. line' \in [Starts -> Lines]
    BY <1>2, ZenonT(60) DEF Child, ChildFails
  <2>4. excuse' \subseteq Starts
    BY <1>2 DEF Child, ChildFails
  <2>5. UNCHANGED <<scenario, parent, path, pid, command, met, older>>
    BY <1>2 DEF Child
  <2> QED BY <2>1, <2>2, <2>3, <2>4, <2>5
<1>3. ASSUME NEW d \in Starts, Daemon(d) PROVE StartTypeOK'
  <2>1. daemon' \in [Starts -> DaemonSteps]
    BY <1>3, DaemonMoves, ZenonT(60)
  <2>2. line' \in [Starts -> Lines]
    BY <1>3, DaemonMoves, ZenonT(60)
  <2>3. excuse' \subseteq Starts
    BY <1>3, DaemonMoves, ZenonT(60)
  <2>4. path' \in Places /\ pid' \in Starts \union {Nobody}
    BY <1>3, DaemonMoves
  <2>5. UNCHANGED <<scenario, parent, child, command, met, older>>
    BY <1>3 DEF Daemon
  <2> QED BY <2>1, <2>2, <2>3, <2>4, <2>5
<1>4. ASSUME NEW d \in Starts, Wait(d) PROVE StartTypeOK'
  <2>1. parent' \in [Starts -> ParentStates]
    BY <1>4 DEF Wait
  <2>2. UNCHANGED <<scenario, child, daemon, line, path, pid, command, met, older, excuse>>
    BY <1>4 DEF Wait
  <2> QED BY <2>1, <2>2
<1>5. ASSUME NEW d \in Starts, KillParent(d) \/ KillDaemon(d) PROVE StartTypeOK'
  <2>1. parent' \in [Starts -> ParentStates]
    BY <1>5 DEF KillParent, KillDaemon
  <2>4. daemon' \in [Starts -> DaemonSteps]
    BY <1>5, ZenonT(60) DEF KillParent, KillDaemon
  <2>2. excuse' \subseteq Starts
    BY <1>5 DEF KillParent, KillDaemon
  <2>3. UNCHANGED <<scenario, child, line, path, pid, command, met, older>>
    BY <1>5 DEF KillParent, KillDaemon
  <2> QED BY <2>1, <2>2, <2>3, <2>4
<1>6. ASSUME NEW c \in Commands, Run(c) PROVE StartTypeOK'
  <2>1. command' \in [Commands -> Outcomes]
    BY <1>6 DEF Run, Connect
  <2>2. UNCHANGED <<scenario, parent, child, daemon, line, path, pid, met, older, excuse>>
    BY <1>6 DEF Run
  <2> QED BY <2>1, <2>2
<1>7. CASE UNCHANGED svars
  BY <1>7 DEF svars
<1> QED
  BY <1>1, <1>2, <1>3, <1>4, <1>5, <1>6, <1>7 DEF SNext

-----------------------------------------------------------------------------
(* Every step of anybody keeps the processes of each start as they should  *)
(* be to one another.                                                      *)
LEMMA ProcessStep ==
  StartTypeOK /\ ProcessInv /\ [SNext]_svars => ProcessInv'
<1> SUFFICES ASSUME StartTypeOK, ProcessInv, [SNext]_svars, NEW e \in Starts
             PROVE  Processes(e)'
  BY DEF ProcessInv
<1>0. Processes(e)
  BY DEF ProcessInv
<1> USE <1>0 DEF StartTypeOK, Processes, files, processes
<1>1. ASSUME NEW d \in Starts, Begin(d) PROVE Processes(e)'
  <2>1. CASE e # d
    BY <1>1, <2>1 DEF Begin
  <2>2. CASE e = d
    <3>1. parent[e] = "idle" /\ line'[e] = ""
      BY <1>1, <2>2 DEF Begin
    <3>2. CASE d \in scenario.foreground
      BY <1>1, <2>2, <3>1, <3>2 DEF Begin
    <3>3. CASE d \notin scenario.foreground
      BY <1>1, <2>2, <3>1, <3>3 DEF Begin
    <3> QED BY <3>2, <3>3
  <2> QED BY <2>1, <2>2
<1>2. ASSUME NEW d \in Starts, Child(d) PROVE Processes(e)'
  <2>1. CASE e # d
    BY <1>2, <2>1 DEF Child, ChildFails
  <2>2. CASE e = d
    BY <1>2, <2>2 DEF Child, ChildFails
  <2> QED BY <2>1, <2>2
<1>3. ASSUME NEW d \in Starts, Daemon(d) PROVE Processes(e)'
  <2>1. CASE e # d
    <3>1. daemon'[e] = daemon[e] /\ line'[e] = line[e] /\ (e \in excuse => e \in excuse')
      BY <1>3, <2>1, DaemonMoves, ZenonT(60)
    <3>2. UNCHANGED <<parent, child>>
      BY <1>3 DEF Daemon
    <3> QED BY <3>1, <3>2
  <2>2. CASE e = d
    <3> USE DEF Goto, Fail, Breaks, GiveUp
    <3>1. CASE WritePid(d)
      BY <1>3, <2>2, <3>1 DEF Daemon, WritePid
    <3>2. CASE Directory(d) \/ Metadata(d)
      BY <1>3, <2>2, <3>2 DEF Daemon, Directory, Metadata
    <3>3. CASE Probe(d)
      BY <1>3, <2>2, <3>3 DEF Daemon, Probe
    <3>4. CASE Remove(d)
      BY <1>3, <2>2, <3>4 DEF Daemon, Remove
    <3>5. CASE Bind(d) \/ Listen(d)
      BY <1>3, <2>2, <3>5 DEF Daemon, Bind, Listen
    <3>6. CASE Ready(d)
      BY <1>3, <2>2, <3>6 DEF Daemon, Ready
    <3> QED
      BY <1>3, <3>1, <3>2, <3>3, <3>4, <3>5, <3>6 DEF Daemon
  <2> QED BY <2>1, <2>2
<1>4. ASSUME NEW d \in Starts, Wait(d) PROVE Processes(e)'
  <2>1. UNCHANGED <<child, daemon, line, excuse>>
    BY <1>4 DEF Wait
  <2>2. CASE e # d
    <3>1. parent'[e] = parent[e]
      BY <1>4, <2>2 DEF Wait
    <3> QED BY <2>1, <3>1
  <2>3. CASE e = d /\ line[d] # ""
    <3>1. \/ line[e] = "Done" /\ parent'[e] = "ok"
          \/ line[e] = "Error" /\ parent'[e] = "failed"
      BY <1>4, <2>3 DEF Wait
    <3> QED BY <2>1, <3>1
  <2>4. CASE e = d /\ line[d] = ""
    <3>1. parent'[e] = "failed" /\ Writers(e) = {}
      BY <1>4, <2>4 DEF Wait
    <3>2. "child" \notin Writers(e) /\ "daemon" \notin Writers(e)
      BY <3>1
    <3>3. child[e] \in {"none", "gone"} /\ daemon[e] \in {"none", "failed", "dead"}
      BY <3>2 DEF Writers
    <3> QED BY <2>1, <3>1, <3>3
  <2> QED BY <2>2, <2>3, <2>4
<1>5. ASSUME NEW d \in Starts, KillParent(d) \/ KillDaemon(d) PROVE Processes(e)'
  <2>1. CASE KillParent(d)
    BY <2>1 DEF KillParent
  <2>2. CASE KillDaemon(d)
    BY <2>2 DEF KillDaemon
  <2> QED BY <1>5, <2>1, <2>2
<1>6. ASSUME NEW c \in Commands, Run(c) PROVE Processes(e)'
  BY <1>6 DEF Run
<1>7. CASE UNCHANGED svars
  BY <1>7 DEF svars
<1> QED
  BY <1>1, <1>2, <1>3, <1>4, <1>5, <1>6, <1>7 DEF SNext

-----------------------------------------------------------------------------
(* What a step of a daemon does, without the functions it is written with. *)
Proceeds(d) ==
  \/ /\ path' = path
     /\ \/ daemon[d] = "pid" /\ daemon'[d] = "directory"
        \/ daemon[d] = "directory" /\ daemon'[d] = "metadata"
        \/ daemon[d] = "metadata" /\ daemon'[d] = "bind" /\ path = "nothing"
        \/ daemon[d] = "metadata" /\ daemon'[d] = "probe" /\ path \notin {"nothing", "file"}
        \/ daemon[d] = "probe" /\ daemon'[d] = "remove" /\ Connect(d) = "ConnectionRefused"
        \/ daemon[d] = "probe" /\ daemon'[d] = "bind" /\ Connect(d) = "NotFound"
        \/ daemon[d] = "listen" /\ daemon'[d] = "ready"
        \/ daemon[d] = "ready" /\ daemon'[d] = "serving"
  \/ daemon[d] = "remove" /\ daemon'[d] = "bind" /\ path # "nothing" /\ path' = "nothing"
  \/ daemon[d] = "bind" /\ daemon'[d] = "listen" /\ path = "nothing" /\ path' = d

GivesUp(d) ==
  /\ path' = path /\ daemon'[d] = "failed"
  /\ \/ daemon[d] \in {"pid", "directory", "metadata", "probe", "remove", "bind", "listen"}
        /\ d \in excuse'
     \/ daemon[d] = "metadata" /\ path = "file"
     \/ daemon[d] = "probe" /\ Connect(d) \in {"Ok", "PermissionDenied"}
     \/ daemon[d] = "remove" /\ path = "nothing"
     \/ daemon[d] = "bind" /\ path # "nothing"
     \/ daemon[d] = "ready" /\ parent[d] \notin {"none", "waiting"}

(* What a step of a daemon does: it goes on or gives up, and leaves the     *)
(* other starts alone.                                                     *)
LEMMA DaemonStep ==
  ASSUME StartTypeOK, NEW d \in Starts, Daemon(d)
  PROVE  /\ Proceeds(d) \/ GivesUp(d)
         /\ \A e \in Starts \ {d} : daemon'[e] = daemon[e]
         /\ UNCHANGED <<scenario, parent, child, command, met, older>>
         /\ excuse \subseteq excuse'
<1>1. \A e \in Starts \ {d} : daemon'[e] = daemon[e]
  BY DaemonMoves DEF StartTypeOK
<1>2. UNCHANGED <<scenario, parent, child, command, met, older>>
  BY DEF Daemon
<1>3. excuse \subseteq excuse'
  BY DaemonMoves
<1>4. Proceeds(d) \/ GivesUp(d)
  <2> USE DEF Goto, Fail, Breaks, GiveUp, files, StartTypeOK
  <2>1. CASE WritePid(d)
    BY <2>1 DEF WritePid, Proceeds, GivesUp
  <2>2. CASE Directory(d)
    BY <2>2 DEF Directory, Proceeds, GivesUp
  <2>3. CASE Metadata(d)
    BY <2>3 DEF Metadata, Proceeds, GivesUp
  <2>4. CASE Probe(d)
    BY <2>4 DEF Probe, Proceeds, GivesUp
  <2>5. CASE Remove(d)
    BY <2>5 DEF Remove, Proceeds, GivesUp
  <2>6. CASE Bind(d)
    BY <2>6 DEF Bind, Proceeds, GivesUp
  <2>7. CASE Listen(d)
    BY <2>7 DEF Listen, Proceeds, GivesUp
  <2>8. CASE Ready(d)
    BY <2>8 DEF Ready, Proceeds, GivesUp
  <2> QED BY <2>1, <2>2, <2>3, <2>4, <2>5, <2>6, <2>7, <2>8 DEF Daemon
<1> QED BY <1>1, <1>2, <1>3, <1>4

(* The steps that leave the path and the history alone: a daemon appears,  *)
(* or dies, or nothing happens to any.                                     *)
Quiet ==
  /\ UNCHANGED <<path, met, older>>
  /\ excuse \subseteq excuse'
  /\ \A e \in Starts :
       /\ \/ daemon'[e] = daemon[e]
          \/ daemon[e] = "none" /\ child[e] = "fork" /\ daemon'[e] = "pid"
          \/ daemon[e] # "none" /\ daemon'[e] = "dead"
       /\ parent[e] # "idle" <=> parent'[e] # "idle"
       /\ parent[e] = "failed" => parent'[e] = "failed"
       /\ daemon[e] = "none" /\ child[e] = "gone" => daemon'[e] = "none" /\ child'[e] = "gone"

(* Every step but a beginning and a daemon's leaves the socket alone.      *)
LEMMA QuietStep ==
  ASSUME StartTypeOK, ProcessInv, [SNext]_svars
  PROVE  Quiet \/ \E d \in Starts : Begin(d) \/ Daemon(d)
<1> USE DEF StartTypeOK, ProcessInv, Processes, files, processes
<1>1. ASSUME NEW d \in Starts, Child(d) PROVE Quiet
  BY <1>1, ZenonT(60) DEF Child, ChildFails, Quiet
<1>2. ASSUME NEW d \in Starts, Wait(d) PROVE Quiet
  BY <1>2 DEF Wait, Quiet
<1>3. ASSUME NEW d \in Starts, KillParent(d) PROVE Quiet
  BY <1>3 DEF KillParent, Quiet
<1>4. ASSUME NEW d \in Starts, KillDaemon(d) PROVE Quiet
  BY <1>4 DEF KillDaemon, Quiet
<1>5. ASSUME NEW c \in Commands, Run(c) PROVE Quiet
  BY <1>5 DEF Run, Quiet
<1>6. CASE UNCHANGED svars
  BY <1>6 DEF svars, Quiet
<1> QED
  BY <1>1, <1>2, <1>3, <1>4, <1>5, <1>6 DEF SNext

(* What a start that begins finds, and what it changes.                    *)
LEMMA BeginStep ==
  ASSUME StartTypeOK, ProcessInv, NEW d \in Starts, Begin(d)
  PROVE  /\ path' = path /\ excuse \subseteq excuse'
         /\ parent[d] = "idle" /\ daemon[d] = "none" /\ daemon'[d] \in {"none", "directory"}
         /\ older'[d] = Reachable
         /\ \A e \in Starts \ {d} :
              /\ daemon'[e] = daemon[e] /\ older'[e] = older[e]
              /\ parent'[e] = parent[e] /\ child'[e] = child[e]
<1> USE DEF StartTypeOK, ProcessInv, Processes, files
<1>1. path' = path /\ excuse \subseteq excuse' /\ parent[d] = "idle" /\ daemon[d] = "none"
  BY DEF Begin
<1>2. daemon'[d] \in {"none", "directory"}
  BY <1>1, ZenonT(60) DEF Begin
<1>3. older'[d] = Reachable /\ \A e \in Starts \ {d} : older'[e] = older[e]
  BY ZenonT(60) DEF Begin
<1>4. \A e \in Starts \ {d} :
        daemon'[e] = daemon[e] /\ parent'[e] = parent[e] /\ child'[e] = child[e]
  BY ZenonT(60) DEF Begin
<1> QED BY <1>1, <1>2, <1>3, <1>4

(* A beginning records that it meets whoever is under way, on both sides.  *)
LEMMA BeginMeets ==
  ASSUME StartTypeOK, NEW d \in Starts, Begin(d), NEW e \in Starts, e # d
  PROVE  /\ e \in met'[d] <=> UnderWay(e)
         /\ UnderWay(e) => d \in met'[e]
         /\ met[e] \subseteq met'[e]
<1>1. met'[d] = {f \in Starts \ {d} : UnderWay(f)}
  BY DEF Begin, StartTypeOK
<1>2. met'[e] = IF UnderWay(e) THEN met[e] \union {d} ELSE met[e]
  BY DEF Begin, StartTypeOK
<1> QED BY <1>1, <1>2

(* Nobody comes under way who does not begin, and a daemon that moves was. *)
LEMMA StaysOver ==
  ASSUME StartTypeOK, ProcessInv, [SNext]_svars, NEW e \in Starts, ~UnderWay(e), ~Begin(e)
  PROVE  ~UnderWay(e)'
<1> USE DEF StartTypeOK, UnderWay, Over
<1>1. CASE Quiet
  BY <1>1 DEF Quiet
<1>2. ASSUME NEW d \in Starts, Begin(d) PROVE ~UnderWay(e)'
  <2>1. e # d
    BY <1>2
  <2> QED BY <2>1, <1>2, BeginStep
<1>3. ASSUME NEW d \in Starts, Daemon(d) PROVE ~UnderWay(e)'
  <2>1. CASE e # d
    BY <1>3, <2>1, DaemonStep
  <2>2. CASE e = d
    BY <1>3, <2>2, DaemonStep DEF Proceeds, GivesUp
  <2> QED BY <2>1, <2>2
<1> QED BY <1>1, <1>2, <1>3, QuietStep

(* A daemon on its way to serving belongs to a start that is under way.    *)
LEMMA MoverUnderWay ==
  ASSUME StartTypeOK, ProcessInv, NEW d \in Starts,
         daemon[d] \notin {"none", "serving", "failed", "dead"}
  PROVE  UnderWay(d)
BY DEF ProcessInv, Processes, UnderWay, Over

-----------------------------------------------------------------------------
(* Every step keeps what is known of daemons that are older than a start.  *)
LEMMA OlderStep ==
  StartTypeOK /\ ProcessInv /\ OlderInv /\ [SNext]_svars => OlderInv'
<1> SUFFICES ASSUME StartTypeOK, ProcessInv, OlderInv, [SNext]_svars,
                    NEW d \in Starts, NEW e \in Starts, d \in older'[e]
             PROVE  /\ daemon'[d] \in {"ready", "serving", "failed", "dead"}
                    /\ Listening(d)' /\ path' = d => daemon'[e] # "remove"
  BY DEF OlderInv
<1> USE DEF Listening
<1>0. d \in older[e] => /\ daemon[d] \in {"ready", "serving", "failed", "dead"}
                        /\ Listening(d) /\ path = d => daemon[e] # "remove"
  BY DEF OlderInv
<1>1. CASE Quiet
  BY <1>0, <1>1 DEF Quiet
<1>2. ASSUME NEW b \in Starts, Begin(b)
      PROVE  /\ daemon'[d] \in {"ready", "serving", "failed", "dead"}
             /\ Listening(d)' /\ path' = d => daemon'[e] # "remove"
  <2>1. CASE e = b
    <3>1. Listening(d)
      BY <1>2, <2>1, BeginStep DEF Reachable
    <3>2. daemon'[d] = daemon[d]
      BY <1>2, <3>1, BeginStep
    <3> QED BY <1>2, <2>1, <3>1, <3>2, BeginStep
  <2>2. CASE e # b
    <3>1. d \in older[e]
      BY <1>2, <2>2, BeginStep
    <3>2. daemon[b] = "none"
      BY <1>2, BeginStep
    <3>3. d # b
      BY <1>0, <3>1, <3>2
    <3>4. daemon'[d] = daemon[d]
      BY <1>2, <3>3, BeginStep
    <3>5. daemon'[e] = daemon[e] /\ path' = path
      BY <1>2, <2>2, BeginStep
    <3> QED BY <1>0, <3>1, <3>4, <3>5
  <2> QED BY <2>1, <2>2
<1>3. ASSUME NEW b \in Starts, Daemon(b)
      PROVE  /\ daemon'[d] \in {"ready", "serving", "failed", "dead"}
             /\ Listening(d)' /\ path' = d => daemon'[e] # "remove"
  <2>1. d \in older[e]
    BY <1>3, DaemonStep
  <2>2. CASE b = d
    <3>1. daemon[d] = "ready" /\ path' = path
      BY <1>0, <1>3, <2>1, <2>2, DaemonStep DEF Proceeds, GivesUp
    <3>2. daemon'[d] \in {"serving", "failed"}
      BY <1>3, <2>2, <3>1, DaemonStep DEF Proceeds, GivesUp
    <3>3. e # d => daemon'[e] = daemon[e]
      BY <1>3, <2>2, DaemonStep
    <3> QED BY <1>0, <2>1, <3>1, <3>2, <3>3
  <2>3. CASE b # d
    <3>1. daemon'[d] = daemon[d]
      BY <1>3, <2>3, DaemonStep
    <3>2. ASSUME Listening(d)', path' = d PROVE daemon'[e] # "remove"
      <4>1. path = d
        BY <1>3, <2>3, <3>2, DaemonStep, StartupAssumption DEF Proceeds, GivesUp
      <4>2. CASE e = b
        <5>1. Connect(b) # "ConnectionRefused"
          BY <3>1, <3>2, <4>1 DEF Connect
        <5>2. daemon[b] # "remove"
          BY <1>0, <2>1, <3>1, <3>2, <4>1, <4>2
        <5> QED BY <1>3, <4>2, <5>1, <5>2, DaemonStep DEF Proceeds, GivesUp
      <4>3. CASE e # b
        BY <1>0, <1>3, <2>1, <3>1, <3>2, <4>1, <4>3, DaemonStep
      <4> QED BY <4>2, <4>3
    <3> QED BY <1>0, <2>1, <3>1, <3>2
  <2> QED BY <2>2, <2>3
<1> QED BY <1>1, <1>2, <1>3, QuietStep

(* Nobody probes or removes what is not a socket.                          *)
LEMMA FileStep ==
  StartTypeOK /\ ProcessInv /\ FileInv /\ [SNext]_svars => FileInv'
<1> SUFFICES ASSUME StartTypeOK, ProcessInv, FileInv, [SNext]_svars,
                    path' = "file", NEW d \in Starts
             PROVE  daemon'[d] \notin {"probe", "remove"}
  BY DEF FileInv
<1> USE DEF FileInv
<1>1. CASE Quiet
  BY <1>1 DEF Quiet
<1>2. ASSUME NEW b \in Starts, Begin(b) PROVE daemon'[d] \notin {"probe", "remove"}
  BY <1>2, BeginStep
<1>3. ASSUME NEW b \in Starts, Daemon(b) PROVE daemon'[d] \notin {"probe", "remove"}
  <2>1. path = "file"
    BY <1>3, DaemonStep, StartupAssumption DEF Proceeds, GivesUp
  <2>2. CASE d = b
    BY <1>3, <2>1, <2>2, DaemonStep DEF Proceeds, GivesUp
  <2>3. CASE d # b
    BY <1>3, <2>1, <2>3, DaemonStep
  <2> QED BY <2>2, <2>3
<1> QED BY <1>1, <1>2, <1>3, QuietStep

(* Every step keeps what a start finds as long as it has met no other.     *)
LEMMA AloneStep ==
  /\ StartTypeOK /\ ProcessInv /\ OlderInv /\ AloneInv /\ [SNext]_svars
  => AloneInv'
<1> SUFFICES ASSUME StartTypeOK, ProcessInv, OlderInv, AloneInv, [SNext]_svars,
                    NEW d \in Starts, met'[d] = {}
             PROVE  Alone(d)'
  BY DEF AloneInv
<1>0. met[d] = {} => Alone(d)
  BY DEF AloneInv
<1> USE DEF Listening
<1>1. CASE Quiet
  <2>1. Alone(d)
    BY <1>0, <1>1 DEF Quiet
  <2>2. \A e \in Starts : ~UnderWay(e) => ~UnderWay(e)'
    BY <1>1 DEF Quiet, UnderWay, Over
  <2>3. \A e \in Starts : daemon'[e] \notin {"pid", "dead"} => daemon'[e] = daemon[e]
    BY <1>1 DEF Quiet
  <2>4. path' = path /\ older' = older
    BY <1>1 DEF Quiet
  <2> QED BY <2>1, <2>2, <2>3, <2>4 DEF Alone
<1>2. ASSUME NEW b \in Starts, Begin(b) PROVE Alone(d)'
  <2>0. \A e \in Starts \ {b} : daemon'[e] = daemon[e] /\ (UnderWay(e)' <=> UnderWay(e))
    BY <1>2, BeginStep DEF UnderWay, Over
  <2>1. CASE b = d
    <3>1. \A e \in Starts \ {d} : ~UnderWay(e)
      BY <1>2, <2>1, BeginMeets
    <3>2. \A e \in Starts \ {d} : path' = e /\ Listening(e)' => e \in older'[d]
      BY <1>2, <2>0, <2>1, BeginStep DEF Reachable
    <3>3. daemon'[d] \in {"none", "directory"}
      BY <1>2, <2>1, BeginStep
    <3> QED BY <2>0, <2>1, <3>1, <3>2, <3>3 DEF Alone
  <2>2. CASE b # d
    <3>1. ~UnderWay(d) /\ met[d] = {}
      BY <1>2, <2>2, BeginMeets
    <3>2. daemon'[d] = daemon[d] /\ path' = path /\ ~UnderWay(d)'
      BY <1>2, <2>0, <2>2, <3>1, BeginStep
    <3>3. ASSUME Listening(d), NEW e \in Starts \ {d}, UnderWay(e)'
          PROVE  d \in older'[e]
      <4>1. CASE e = b
        BY <1>0, <1>2, <3>1, <3>3, <4>1, BeginStep DEF Alone, Reachable
      <4>2. CASE e # b
        BY <1>0, <1>2, <2>0, <3>1, <3>3, <4>2, BeginStep DEF Alone
      <4> QED BY <4>1, <4>2
    <3> QED BY <1>0, <3>1, <3>2, <3>3 DEF Alone
  <2> QED BY <2>1, <2>2
<1>3. ASSUME NEW b \in Starts, Daemon(b) PROVE Alone(d)'
  <2>0. Alone(d) /\ older' = older
    BY <1>0, <1>3, DaemonStep
  <2>1. UnderWay(b)
    BY <1>3, DaemonStep, MoverUnderWay DEF Proceeds, GivesUp
  <2>2. \A e \in Starts : ~UnderWay(e) => ~UnderWay(e)'
    <3>1. ASSUME NEW e \in Starts, Begin(e) PROVE FALSE
      <4>1. daemon'[b] = daemon[b]
        BY <1>3, <3>1, DaemonStep, BeginStep DEF Proceeds, GivesUp
      <4> QED BY <1>3, <4>1, DaemonStep DEF Proceeds, GivesUp
    <3> QED BY <3>1, StaysOver
  <2>3. CASE b = d
    <3>1. \A e \in Starts \ {d} : daemon'[e] = daemon[e] /\ ~UnderWay(e) /\ ~UnderWay(e)'
      BY <1>3, <2>0, <2>1, <2>2, <2>3, DaemonStep DEF Alone
    <3>2. \A e \in Starts \ {d} : path' = e /\ Listening(e)' => e \in older'[d]
      <4>1. path' \in {path, "nothing", d}
        BY <1>3, <2>3, DaemonMoves
      <4> QED BY <2>0, <2>1, <2>3, <3>1, <4>1, StartupAssumption DEF Alone
    <3>3. /\ daemon'[d] = "remove" => path' # "nothing"
          /\ daemon'[d] = "bind" => path' = "nothing"
      BY <1>3, <2>3, DaemonStep, StartupAssumption DEF Proceeds, GivesUp, Connect
    <3>4. daemon'[d] = "listen" \/ Listening(d)' => path' = d
      BY <1>3, <2>0, <2>3, DaemonStep DEF Proceeds, GivesUp, Alone
    <3> QED BY <3>1, <3>2, <3>3, <3>4 DEF Alone
  <2>4. CASE b # d
    <3>1. ~UnderWay(d) /\ ~UnderWay(d)'
      BY <2>0, <2>1, <2>2, <2>4 DEF Alone
    <3>2. daemon'[d] = daemon[d] /\ daemon[d] \in {"none", "serving", "failed", "dead"}
      BY <1>3, <2>4, <3>1, DaemonStep, MoverUnderWay
    <3>3. ASSUME daemon[d] = "serving"
          PROVE  /\ path' = d
                 /\ \A e \in Starts \ {d} : UnderWay(e)' => d \in older'[e]
      <4>1. path = d /\ \A e \in Starts \ {d} : UnderWay(e) => d \in older[e]
        BY <2>0, <3>3 DEF Alone
      <4>2. daemon[b] # "remove"
        BY <2>1, <2>4, <3>3, <4>1 DEF OlderInv
      <4>3. path' = path
        BY <1>3, <4>1, <4>2, DaemonStep, StartupAssumption DEF Proceeds, GivesUp
      <4> QED BY <2>0, <2>2, <4>1, <4>3
    <3> QED BY <3>1, <3>2, <3>3 DEF Alone
  <2> QED BY <2>3, <2>4
<1> QED BY <1>1, <1>2, <1>3, QuietStep

(* Every step that fails has one of the reasons.                           *)
LEMMA FailStep ==
  Inv /\ [SNext]_svars => FailsForAReason'
<1> SUFFICES ASSUME Inv, [SNext]_svars,
                    NEW d \in Starts, daemon'[d] = "failed", d \notin excuse' \union Denied
             PROVE  path' = "file" \/ met'[d] # {} \/ older'[d] # {}
  BY DEF FailsForAReason
<1> USE DEF Inv
<1>0. daemon[d] = "failed" /\ d \notin excuse => path = "file" \/ met[d] # {} \/ older[d] # {}
  BY DEF FailsForAReason
<1>1. CASE Quiet
  BY <1>0, <1>1 DEF Quiet
<1>2. ASSUME NEW b \in Starts, Begin(b)
      PROVE  path' = "file" \/ met'[d] # {} \/ older'[d] # {}
  <2>1. b # d
    BY <1>2, BeginStep
  <2>2. daemon[d] = "failed" /\ d \notin excuse /\ path' = path /\ older'[d] = older[d]
    BY <1>2, <2>1, BeginStep
  <2>3. met[d] \subseteq met'[d]
    BY <1>2, <2>1, BeginMeets DEF Inv
  <2> QED BY <1>0, <2>2, <2>3
<1>3. ASSUME NEW b \in Starts, Daemon(b)
      PROVE  path' = "file" \/ met'[d] # {} \/ older'[d] # {}
  <2>0. met' = met /\ older' = older /\ d \notin excuse
    BY <1>3, DaemonStep
  <2>1. CASE b # d
    <3>1. daemon[d] = "failed"
      BY <1>3, <2>1, DaemonStep
    <3>2. path = "file" => path' = "file"
      BY <1>3, DaemonStep DEF Proceeds, GivesUp, FileInv
    <3> QED BY <1>0, <2>0, <3>1, <3>2
  <2>2. CASE b = d
    <3> SUFFICES ASSUME path' # "file", met[d] = {}, older[d] = {} PROVE FALSE
      BY <2>0
    <3>0. Alone(d) /\ Processes(d)
      BY DEF AloneInv, ProcessInv
    <3>1. GivesUp(d) /\ path' = path
      BY <1>3, <2>2, DaemonStep DEF Proceeds, GivesUp
    <3>2. UnderWay(d)
      BY <3>1, MoverUnderWay DEF GivesUp
    <3>3. daemon[d] = "probe" => Connect(d) \notin {"Ok", "PermissionDenied"}
      BY <3>0, <3>2 DEF Connect, Alone, Listening
    <3>4. daemon[d] = "ready" => parent[d] \in {"none", "waiting"}
      BY <2>0, <3>0 DEF Processes, StartTypeOK, ParentStates
    <3>5. daemon[d] = "remove" => path # "nothing"
      BY <3>0 DEF Alone
    <3>6. daemon[d] = "bind" => path = "nothing"
      BY <3>0 DEF Alone
    <3> QED BY <3>1, <3>3, <3>4, <3>5, <3>6 DEF GivesUp
  <2> QED BY <2>1, <2>2
<1> QED BY <1>1, <1>2, <1>3, QuietStep

-----------------------------------------------------------------------------
(* The invariant holds at first.                                           *)
LEMMA InitInv == SInit => Inv
<1> SUFFICES ASSUME SInit PROVE Inv
  OBVIOUS
<1>1. StartTypeOK
  BY InitType
<1>2. \A d \in Starts :
        /\ parent[d] = "idle" /\ child[d] = "none" /\ daemon[d] = "none"
        /\ line[d] = "" /\ met[d] = {} /\ older[d] = {}
  BY DEF SInit
<1>3. ProcessInv /\ OlderInv /\ FileInv
  BY <1>2 DEF ProcessInv, Processes, OlderInv, FileInv
<1>4. AloneInv
  BY <1>2 DEF AloneInv, Alone, UnderWay, Listening
<1>5. FailsForAReason
  BY <1>2 DEF FailsForAReason
<1> QED BY <1>1, <1>3, <1>4, <1>5 DEF Inv

(* Every step keeps the invariant.                                         *)
LEMMA NextInv == Inv /\ [SNext]_svars => Inv'
BY TypeStep, ProcessStep, OlderStep, AloneStep, FileStep, FailStep DEF Inv

(* The inductive invariant behind the theorems that follow: it holds in    *)
(* every reachable state, for any number of starts.                        *)
THEOREM Invariance == SSpec => []Inv
<1> QED BY InitInv, NextInv, PTL DEF SSpec

(* The variables have their types, for any number of starts.               *)
THEOREM StartTypes == SSpec => []StartTypeOK
<1>1. Inv => StartTypeOK
  BY DEF Inv
<1> QED BY <1>1, Invariance, PTL

(* The exit code of a start is about its daemon.                           *)
THEOREM ExitCode == SSpec => []ExitTellsTheTruth
<1>1. Inv => ExitTellsTheTruth
  BY DEF Inv, ProcessInv, Processes, ExitTellsTheTruth
<1> QED BY <1>1, Invariance, PTL

(* No start fails without one of the reasons the code has.                 *)
THEOREM Reasons == SSpec => []FailsForAReason
<1>1. Inv => FailsForAReason
  BY DEF Inv
<1> QED BY <1>1, Invariance, PTL

(* A start never takes the socket of a daemon it could have reached.       *)
THEOREM Kept == SSpec => OlderKept
<1>1. ASSUME Inv, [SNext]_svars, NEW d \in Starts,
             path = d, Listening(d), path' # d
      PROVE  \E e \in Starts : daemon[e] = "remove" /\ daemon'[e] = "bind"
                               /\ d \notin older[e]
  <2>1. PICK e \in Starts : Daemon(e)
    BY <1>1, QuietStep, BeginStep DEF Inv, Quiet
  <2>2. daemon[e] = "remove" /\ daemon'[e] = "bind"
    BY <1>1, <2>1, DaemonStep, StartupAssumption DEF Inv, Proceeds, GivesUp
  <2> QED BY <1>1, <2>2 DEF Inv, OlderInv
<1>2. Inv /\ [SNext]_svars => [Keeps]_svars
  BY <1>1 DEF Keeps
<1> QED BY <1>2, Invariance, PTL DEF SSpec, OlderKept

(* A start that succeeded without meeting another serves every command.    *)
THEOREM Reached == SSpec => ReadyIsReached
<1>1. ASSUME Inv, [SNext]_svars, NEW c \in Commands \ Denied, NEW d \in Starts,
             parent[d] = "ok", daemon[d] # "dead", met[d] = {},
             command[c] = "idle", command'[c] # "idle"
      PROVE  command'[c] = d
  <2>1. Listening(d) /\ path = d
    BY <1>1 DEF Inv, ProcessInv, Processes, AloneInv, Alone, Listening
  <2>2. PICK b \in Commands : Run(b)
    BY <1>1 DEF SNext, svars, Begin, Child, Daemon, Wait, KillParent, KillDaemon
  <2>3. b = c
    BY <1>1, <2>2 DEF Run, Inv, StartTypeOK
  <2>4. Connect(c) = "Ok"
    BY <1>1, <2>1, StartupAssumption DEF Connect
  <2>5. command \in [Commands -> Outcomes]
    BY <1>1 DEF Inv, StartTypeOK
  <2>6. command' = [command EXCEPT ![c] = path]
    BY <2>2, <2>3, <2>4 DEF Run
  <2>7. command'[c] = path
    BY <2>5, <2>6
  <2> QED BY <2>1, <2>7
<1>2. Inv /\ [SNext]_svars => [Reaches]_svars
  BY <1>1 DEF Reaches
<1> QED BY <1>2, Invariance, PTL DEF SSpec, ReadyIsReached

-----------------------------------------------------------------------------
(* A set of numbers that has one has a least one.                          *)
LEMMA Least ==
  ASSUME NEW T \in SUBSET Nat, T # {}
  PROVE  \E n \in T : \A m \in T : n <= m
<1> DEFINE R == {ss \in Nat \X Nat : ss[1] < ss[2]}
<1>1. IsWellFoundedOn(R, Nat)
  BY NatLessThanWellFounded DEF OpToRel
<1>2. PICK n \in T : \A m \in T : ~(<<m, n>> \in R)
  <2> HIDE DEF R
  <2> QED BY <1>1, WFMin
<1>3. ASSUME NEW m \in T PROVE n <= m
  <2>1. m \in Nat /\ n \in Nat /\ <<m, n>> \in Nat \X Nat
    OBVIOUS
  <2>2. ~(m < n)
    BY <1>2, <2>1
  <2> QED BY <2>1, <2>2
<1> QED BY <1>3

(* What has 0, and with a number the next, has all of them.                *)
LEMMA Induction ==
  ASSUME NEW S, 0 \in S, \A n \in Nat : n \in S => n + 1 \in S
  PROVE  \A n \in Nat : n \in S
<1> SUFFICES ASSUME Nat \ S # {} PROVE FALSE
  OBVIOUS
<1>1. PICK n \in Nat \ S : \A m \in Nat \ S : n <= m
  BY Least
<1>2. n # 0 /\ n - 1 \in Nat /\ n - 1 \notin Nat \ S /\ n = (n - 1) + 1
  BY <1>1
<1> QED BY <1>2

(* What is computed place by place, each from the one before, exists.      *)
Computed(f, T, start, g, n) ==
  /\ f = [k \in 0..n |-> f[k]]
  /\ f[0] = start
  /\ \A k \in 0..n : f[k] \in T
  /\ \A k \in 1..n : f[k] = g[k][f[k - 1]]

(* If each of its values is in T.                                          *)
LEMMA Recursion ==
  ASSUME NEW T, NEW start \in T, NEW g, NEW n \in Nat,
         \A x \in T, k \in 1..n : g[k][x] \in T
  PROVE  \E f : Computed(f, T, start, g, n)
<1> DEFINE Is(f, m) == /\ f = [k \in 0..m |-> f[k]]
                       /\ f[0] = start
                       /\ \A k \in 0..m : f[k] \in T
                       /\ \A k \in 1..m : f[k] = g[k][f[k - 1]]
           S == {m \in Nat : m <= n => \E f : Is(f, m)}
<1>1. 0 \in S
  <2>1. Is([k \in 0..0 |-> start], 0)
    OBVIOUS
  <2> QED BY <2>1
<1>2. ASSUME NEW m \in Nat, m \in S PROVE m + 1 \in S
  <2> SUFFICES ASSUME m + 1 <= n PROVE \E f : Is(f, m + 1)
    OBVIOUS
  <2>1. PICK f : Is(f, m)
    BY <1>2
  <2> DEFINE h == [k \in 0..(m + 1) |-> IF k <= m THEN f[k] ELSE g[m + 1][f[m]]]
  <2>2. /\ \A k \in 0..m : h[k] = f[k]
        /\ h[m + 1] = g[m + 1][f[m]]
    OBVIOUS
  <2>3. h = [k \in 0..(m + 1) |-> h[k]]
    OBVIOUS
  <2> HIDE DEF h
  <2>4. f[m] \in T /\ m + 1 \in 1..n
    BY <2>1
  <2>5. g[m + 1][f[m]] \in T
    BY <2>4
  <2>6. h[0] = start /\ \A k \in 0..(m + 1) : h[k] \in T
    BY <2>1, <2>2, <2>5
  <2>7. ASSUME NEW k \in 1..(m + 1) PROVE h[k] = g[k][h[k - 1]]
    <3>1. CASE k = m + 1
      BY <2>2, <3>1
    <3>2. CASE k \in 1..m
      <4>1. h[k] = f[k] /\ h[k - 1] = f[k - 1]
        BY <2>2, <3>2
      <4> QED BY <2>1, <3>2, <4>1
    <3> QED BY <3>1, <3>2
  <2> QED BY <2>3, <2>6, <2>7
<1> HIDE DEF S
<1>3. n \in S
  BY <1>1, <1>2, Induction
<1>4. PICK f : Is(f, n)
  BY <1>3 DEF S
<1> QED BY <1>4 DEF Computed

-----------------------------------------------------------------------------
(* Sequences of words, one after the other.                                *)
Word == Seq(Pieces)

(* start and the sequences of w, up to each of them.                       *)
Cat(start, w) ==
  LET upTo[k \in 0..Len(w)] == IF k = 0 THEN start ELSE upTo[k - 1] \o w[k]
  IN  upTo

(* Each of c is the one before and one of w.                               *)
Joins(c, w, n) ==
  /\ n \in Nat
  /\ \A k \in 0..n : c[k] \in Seq(Word)
  /\ \A k \in 1..n : w[k] \in Seq(Word) /\ c[k] = c[k - 1] \o w[k]

(* What is where in two sequences, one after the other.                    *)
Follows(W, s, t, u) ==
  /\ u \in Seq(W)
  /\ Len(s) \in Nat /\ Len(t) \in Nat /\ Len(u) = Len(s) + Len(t)
  /\ \A p \in 1..Len(s) : u[p] = s[p]
  /\ \A p \in 1..Len(t) : u[Len(s) + p] = t[p]

(* The second is behind the first.                                         *)
LEMMA Longer ==
  ASSUME NEW W, NEW s \in Seq(W), NEW t \in Seq(W), NEW u, u = s \o t
  PROVE  Follows(W, s, t, u)
<1>1. u \in Seq(W) /\ Len(s) \in Nat /\ Len(t) \in Nat /\ Len(u) = Len(s) + Len(t)
  OBVIOUS
<1>2. \A p \in 1..Len(s) : u[p] = s[p]
  OBVIOUS
<1>3. \A p \in 1..Len(t) : u[Len(s) + p] = t[p]
  OBVIOUS
<1> QED BY <1>1, <1>2, <1>3 DEF Follows

(* Each is appended to those before.                                       *)
LEMMA CatIs ==
  ASSUME NEW start \in Seq(Word), NEW w \in Seq(Seq(Word))
  PROVE  Cat(start, w)[0] = start /\ Joins(Cat(start, w), w, Len(w))
<1> DEFINE n == Len(w)
           T == Seq(Word)
           g == [k \in 1..n |-> [x \in T |-> x \o w[k]]]
<1>0. n \in Nat
  OBVIOUS
<1>1. \A x \in T, k \in 1..n : g[k][x] = x \o w[k]
  OBVIOUS
<1>2. \A k \in 1..n : w[k] \in T
  BY ElementOfSeq
<1>a. \A x \in T, y \in T : x \o y \in T
  BY Longer DEF Follows
<1> HIDE DEF n, T, g
<1>3. PICK f : Computed(f, T, start, g, n)
  <2>1. \A x \in T, k \in 1..n : g[k][x] \in T
    BY <1>1, <1>2, <1>a
  <2>2. start \in T
    BY DEF T
  <2> QED BY <1>0, <2>1, <2>2, Recursion
<1>4. \A k \in 1..n : f[k] = f[k - 1] \o w[k]
  <2> TAKE k \in 1..n
  <2>1. k - 1 \in 0..n
    BY <1>0
  <2>2. f[k - 1] \in T
    BY <1>3, <2>1 DEF Computed
  <2> QED BY <1>1, <1>3, <2>2 DEF Computed
<1> DEFINE h == [k \in 0..n |-> IF k = 0 THEN start ELSE f[k - 1] \o w[k]]
<1>5. f = h
  <2>1. ASSUME NEW k \in 0..n PROVE f[k] = h[k]
    <3>1. CASE k = 0
      BY <1>3, <3>1 DEF Computed
    <3>2. CASE k \in 1..n
      <4>1. k # 0
        BY <3>2
      <4> QED BY <1>4, <3>2, <4>1, Zenon
    <3> QED BY <1>0, <3>1, <3>2
  <2> QED BY <1>3, <2>1 DEF Computed
<1> DEFINE C == Cat(start, w)
<1>6. C = [k \in 0..n |-> IF k = 0 THEN start ELSE C[k - 1] \o w[k]]
  <2>1. \E c : c = [k \in 0..n |-> IF k = 0 THEN start ELSE c[k - 1] \o w[k]]
    BY <1>5
  <2> QED BY <2>1, Zenon DEF Cat, n
<1> HIDE DEF C
<1>7. C[0] = start /\ \A k \in 1..n : C[k] = C[k - 1] \o w[k]
  <2>1. C[0] = start
    BY <1>0, <1>6
  <2>2. ASSUME NEW k \in 1..n PROVE C[k] = C[k - 1] \o w[k]
    <3>1. k \in 0..n /\ k # 0
      BY <1>0
    <3> QED BY <1>6, <3>1
  <2> QED BY <2>1, <2>2
<1> DEFINE U == {k \in Nat : k <= n => C[k] \in T}
<1>8. 0 \in U
  BY <1>7 DEF T
<1>9. ASSUME NEW k \in Nat, k \in U PROVE k + 1 \in U
  <2> SUFFICES ASSUME k + 1 <= n PROVE C[k + 1] \in T
    OBVIOUS
  <2>1. C[k] \in T /\ k + 1 \in 1..n /\ (k + 1) - 1 = k
    BY <1>0, <1>9
  <2>2. C[k + 1] = C[k] \o w[k + 1]
    BY <1>7, <2>1
  <2> QED BY <1>2, <1>a, <2>1, <2>2
<1> HIDE DEF U
<1>10. \A k \in Nat : k \in U
  BY <1>8, <1>9, Induction
<1>11. \A k \in 0..n : C[k] \in T
  BY <1>0, <1>10 DEF U
<1> QED BY <1>0, <1>2, <1>7, <1>11 DEF Joins, C, n, T

(* What is there stays there.                                              *)
LEMMA CatPrefix ==
  ASSUME NEW c, NEW w, NEW n, Joins(c, w, n), NEW k \in 0..n, NEW m \in k..n
  PROVE  /\ Len(c[k]) \in Nat /\ Len(c[k]) <= Len(c[m])
         /\ \A p \in 1..Len(c[k]) : c[m][p] = c[k][p]
<1> DEFINE Stays(x) == /\ Len(c[k]) <= Len(c[x])
                      /\ \A p \in 1..Len(c[k]) : c[x][p] = c[k][p]
           T == {d \in Nat : k + d <= n => Stays(k + d)}
<1>0. n \in Nat /\ k \in Nat /\ m \in Nat /\ k <= m /\ m <= n
  BY DEF Joins
<1>1. \A x \in 0..n : c[x] \in Seq(Word) /\ Len(c[x]) \in Nat
  BY LenProperties DEF Joins
<1>4. Len(c[k]) \in Nat
  BY <1>0, <1>1
<1>5. 0 \in T
  BY <1>0, <1>4
<1>6. ASSUME NEW d \in Nat, d \in T PROVE d + 1 \in T
  <2> DEFINE x == k + d
             y == k + (d + 1)
  <2> SUFFICES ASSUME y <= n PROVE Stays(y)
    OBVIOUS
  <2>1. Stays(x) /\ x \in 0..n /\ y \in 1..n /\ y - 1 = x
    BY <1>0, <1>6
  <2> HIDE DEF x, y
  <2>2. c[y] = c[x] \o w[y] /\ c[x] \in Seq(Word) /\ w[y] \in Seq(Word)
    BY <2>1 DEF Joins
  <2>3. /\ Len(c[y]) = Len(c[x]) + Len(w[y])
        /\ Len(c[x]) \in Nat /\ Len(w[y]) \in Nat
        /\ \A p \in 1..Len(c[x]) : c[y][p] = c[x][p]
    <3>1. Follows(Word, c[x], w[y], c[y])
      BY <2>2, Longer
    <3> QED BY <3>1 DEF Follows
  <2>4. Len(c[k]) <= Len(c[y])
    <3>1. ASSUME NEW a \in Nat, NEW b \in Nat, NEW e \in Nat, a <= b PROVE a <= b + e
      BY <3>1
    <3>2. Len(c[k]) <= Len(c[x])
      BY <2>1
    <3> QED BY <1>4, <2>3, <3>1, <3>2
  <2>5. \A p \in 1..Len(c[k]) : p \in 1..Len(c[x])
    BY <1>4, <2>1, <2>3
  <2> QED BY <2>1, <2>3, <2>4, <2>5
<1> HIDE DEF T, Stays
<1>7. m - k \in Nat /\ k + (m - k) = m
  BY <1>0
<1>8. \A d \in Nat : d \in T
  BY <1>5, <1>6, Induction
<1>9. Stays(m)
  BY <1>0, <1>7, <1>8 DEF T
<1> QED BY <1>4, <1>9 DEF Stays

(* Where a sequence is among all.                                          *)
Lies(c, w, n, k) ==
  /\ Len(c[k]) = Len(c[k - 1]) + Len(w[k])
  /\ Len(c[k - 1]) \in Nat /\ Len(w[k]) \in Nat
  /\ Len(c[k]) <= Len(c[n])
  /\ \A p \in 1..Len(w[k]) : c[n][Len(c[k - 1]) + p] = w[k][p]

(* Each is where those before it end.                                      *)
LEMMA CatAt ==
  ASSUME NEW c, NEW w, NEW n, Joins(c, w, n), NEW k \in 1..n
  PROVE  Lies(c, w, n, k)
<1>0. n \in Nat /\ k \in 0..n /\ k - 1 \in 0..n /\ n \in k..n
  BY DEF Joins
<1>1. c[k] = c[k - 1] \o w[k] /\ c[k - 1] \in Seq(Word) /\ w[k] \in Seq(Word)
  BY <1>0 DEF Joins
<1>2. /\ Len(c[k]) <= Len(c[n])
      /\ \A p \in 1..Len(c[k]) : c[n][p] = c[k][p]
  BY <1>0, CatPrefix
<1>3. /\ Len(c[k]) = Len(c[k - 1]) + Len(w[k])
      /\ Len(c[k - 1]) \in Nat /\ Len(w[k]) \in Nat
      /\ \A p \in 1..Len(w[k]) : c[k][Len(c[k - 1]) + p] = w[k][p]
  <2>1. Follows(Word, c[k - 1], w[k], c[k])
    BY <1>1, Longer
  <2> QED BY <2>1 DEF Follows
<1>4. ASSUME NEW p \in 1..Len(w[k]) PROVE c[n][Len(c[k - 1]) + p] = w[k][p]
  <2>1. Len(c[k - 1]) + p \in 1..Len(c[k])
    <3>1. ASSUME NEW a \in Nat, NEW b \in Nat, NEW q \in 1..b PROVE a + q \in 1..(a + b)
      OBVIOUS
    <3> QED BY <1>3, <3>1
  <2> QED BY <1>2, <1>3, <2>1
<1> QED BY <1>2, <1>3, <1>4 DEF Lies

(* Nothing depends on the order of joining them.                           *)
LEMMA Associative ==
  ASSUME NEW s \in Seq(Word), NEW t \in Seq(Word), NEW u \in Seq(Word)
  PROVE  (s \o t) \o u = s \o (t \o u)
<1> DEFINE W == Word
<1> HIDE DEF W
<1>1. s \in Seq(W) /\ t \in Seq(W) /\ u \in Seq(W)
  BY DEF W
<1> QED BY <1>1, ConcatAssociative

(* Joining nothing changes nothing.                                        *)
LEMMA Empty ==
  /\ << >> \in Seq(Word) /\ Len(<< >>) = 0
  /\ \A s \in Seq(Word) : << >> \o s = s /\ s \o << >> = s /\ (Len(s) = 0 => s = << >>)
<1> DEFINE W == Word
<1> HIDE DEF W
<1>1. << >> \in Seq(W) /\ Len(<< >>) = 0
  OBVIOUS
<1>2. ASSUME NEW s \in Seq(W) PROVE << >> \o s = s /\ s \o << >> = s /\ (Len(s) = 0 => s = << >>)
  BY ConcatEmptySeq, EmptySeq
<1> QED BY <1>1, <1>2 DEF W

(* What FlattenSeq computes: Cat from nothing.                             *)
Flat(f, w, n) == f = [k \in 1..n |-> IF k = 1 THEN w[k] ELSE f[k - 1] \o w[k]]

(* There is such a function,                                               *)
LEMMA FlattenExists ==
  ASSUME NEW w \in Seq(Seq(Word)), Len(w) # 0
  PROVE  Flat([k \in 1..Len(w) |-> Cat(<< >>, w)[k]], w, Len(w))
<1> DEFINE n == Len(w)
           e == Cat(<< >>, w)
           f == [k \in 1..n |-> e[k]]
           h == [k \in 1..n |-> IF k = 1 THEN w[k] ELSE f[k - 1] \o w[k]]
<1>1. e[0] = << >> /\ Joins(e, w, n) /\ n \in Nat
  <2>1. e[0] = << >> /\ Joins(e, w, n)
    BY Empty, CatIs
  <2> QED BY <2>1 DEF Joins
<1>0. \A k \in 1..n : f[k] = e[k]
  OBVIOUS
<1>a. f = [k \in 1..n |-> f[k]]
  OBVIOUS
<1> HIDE DEF n, e, f
<1>2. ASSUME NEW k \in 1..n PROVE f[k] = h[k]
  <2>1. e[k] = e[k - 1] \o w[k] /\ w[k] \in Seq(Word)
    BY <1>1 DEF Joins
  <2>2. CASE k = 1
    <3>1. e[k - 1] = << >>
      BY <1>1, <2>2
    <3>2. e[k] = w[k]
      BY <2>1, <3>1, Empty
    <3> QED BY <1>0, <2>2, <3>2
  <2>3. CASE k # 1
    <3>1. k - 1 \in 1..n
      BY <1>1, <2>3
    <3>2. f[k - 1] = e[k - 1]
      BY <1>0, <3>1
    <3> QED BY <1>0, <2>1, <2>3, <3>2
  <2> QED BY <2>2, <2>3
<1>3. f = h
  BY <1>a, <1>2
<1> QED BY <1>3 DEF Flat, f, e, n

(* and it is the only one.                                                 *)
LEMMA FlattenIs ==
  ASSUME NEW w \in Seq(Seq(Word))
  PROVE  X!FlattenSeq(w) = Cat(<< >>, w)[Len(w)]
<1> DEFINE n == Len(w)
           e == Cat(<< >>, w)
<1>1. e[0] = << >> /\ Joins(e, w, n) /\ n \in Nat
  <2>1. e[0] = << >> /\ Joins(e, w, n)
    BY Empty, CatIs
  <2> QED BY <2>1 DEF Joins
<1>2. CASE n = 0
  <2>1. w = << >>
    BY <1>2, EmptySeq
  <2> QED BY <1>1, <1>2, <2>1 DEF X!FlattenSeq
<1>3. CASE n # 0
  <2> DEFINE F == CHOOSE f : Flat(f, w, n)
  <2>1. X!FlattenSeq(w) = F[n]
    BY <1>3 DEF X!FlattenSeq, Flat
  <2>2. Flat([k \in 1..n |-> e[k]], w, n)
    BY <1>3, FlattenExists
  <2>3. Flat(F, w, n)
    BY <2>2
  <2> HIDE DEF n, e, F
  <2> DEFINE S == {m \in Nat : m + 1 <= n => F[m + 1] = e[m + 1]}
  <2>4. 0 \in S
    <3> SUFFICES ASSUME 1 <= n PROVE F[1] = e[1]
      OBVIOUS
    <3>1. F[1] = w[1]
      BY <1>1, <2>3 DEF Flat
    <3>2. e[1] = e[0] \o w[1] /\ w[1] \in Seq(Word)
      <4>1. 1 \in 1..n /\ 1 - 1 = 0
        BY <1>1
      <4> QED BY <1>1, <4>1 DEF Joins
    <3> QED BY <1>1, <3>1, <3>2, Empty
  <2>5. ASSUME NEW m \in Nat, m \in S PROVE m + 1 \in S
    <3> DEFINE y == m + 1 + 1
    <3> SUFFICES ASSUME y <= n PROVE F[y] = e[y]
      OBVIOUS
    <3>1. y \in 1..n /\ y # 1 /\ y - 1 = m + 1 /\ F[m + 1] = e[m + 1]
      BY <1>1, <2>5
    <3> HIDE DEF y
    <3>2. F[y] = F[m + 1] \o w[y]
      BY <2>3, <3>1 DEF Flat
    <3>3. e[y] = e[m + 1] \o w[y]
      BY <1>1, <3>1 DEF Joins
    <3> QED BY <3>1, <3>2, <3>3
  <2> HIDE DEF S
  <2>6. n - 1 \in Nat /\ (n - 1) + 1 = n
    BY <1>1, <1>3
  <2>7. \A m \in Nat : m \in S
    BY <2>4, <2>5, Induction
  <2>8. F[n] = e[n]
    <3>1. n - 1 \in S
      BY <2>6, <2>7
    <3> QED BY <1>1, <2>6, <3>1 DEF S
  <2> QED BY <2>1, <2>8 DEF n, e
<1> QED BY <1>2, <1>3

(* What comes before comes before all.                                     *)
LEMMA Flattened ==
  ASSUME NEW start \in Seq(Word), NEW w \in Seq(Seq(Word))
  PROVE  /\ start \o X!FlattenSeq(w) = Cat(start, w)[Len(w)]
         /\ X!FlattenSeq(w) \in Seq(Word)
<1> DEFINE n == Len(w)
           e == Cat(<< >>, w)
           c == Cat(start, w)
           S == {k \in Nat : k <= n => start \o e[k] = c[k]}
<1>1. e[0] = << >> /\ Joins(e, w, n) /\ n \in Nat
  <2>1. e[0] = << >> /\ Joins(e, w, n)
    BY Empty, CatIs
  <2> QED BY <2>1 DEF Joins
<1>2. c[0] = start /\ Joins(c, w, n)
  BY CatIs
<1> HIDE DEF n, e, c
<1>3. 0 \in S
  BY <1>1, <1>2, Empty
<1>4. ASSUME NEW k \in Nat, k \in S PROVE k + 1 \in S
  <2> DEFINE y == k + 1
  <2> SUFFICES ASSUME y <= n PROVE start \o e[y] = c[y]
    OBVIOUS
  <2>1. y \in 1..n /\ y - 1 = k /\ k \in 0..n /\ start \o e[k] = c[k]
    BY <1>1, <1>4
  <2> HIDE DEF y
  <2>2. e[y] = e[k] \o w[y] /\ c[y] = c[k] \o w[y] /\ e[k] \in Seq(Word) /\ w[y] \in Seq(Word)
    BY <1>1, <1>2, <2>1 DEF Joins
  <2>3. (start \o e[k]) \o w[y] = start \o (e[k] \o w[y])
    BY <2>2, Associative
  <2> QED BY <2>1, <2>2, <2>3
<1> HIDE DEF S
<1>5. \A k \in Nat : k \in S
  BY <1>3, <1>4, Induction
<1>6. start \o e[n] = c[n]
  BY <1>1, <1>5 DEF S
<1>7. e[n] \in Seq(Word)
  BY <1>1 DEF Joins
<1>8. X!FlattenSeq(w) = e[n]
  BY FlattenIs DEF n, e
<1> QED BY <1>6, <1>7, <1>8 DEF n, c

-----------------------------------------------------------------------------
(* Words.                                                                  *)

(* Sequences that agree everywhere are the same.                           *)
LEMMA Same ==
  ASSUME NEW W, NEW s \in Seq(W), NEW t \in Seq(W), Len(s) = Len(t),
         \A p \in 1..Len(s) : s[p] = t[p]
  PROVE  s = t
BY SeqEqual

(* What is where in two words with a piece between them.                   *)
Around(word, v, piece, u) ==
  /\ word \in Word
  /\ Len(v) \in Nat /\ Len(u) \in Nat /\ Len(word) = Len(v) + 1 + Len(u)
  /\ \A p \in 1..Len(v) : word[p] = v[p]
  /\ word[Len(v) + 1] = piece
  /\ \A p \in 1..Len(u) : word[Len(v) + 1 + p] = u[p]

(* That is what v, the piece and u joined are.                             *)
LEMMA Between ==
  ASSUME NEW v \in Word, NEW u \in Word, NEW piece \in Pieces
  PROVE  Around(v \o <<piece>> \o u, v, piece, u)
<1> DEFINE m == <<piece>>
           s == v \o m
           word == s \o u
<1>0. v \in Seq(Pieces) /\ u \in Seq(Pieces) /\ m \in Seq(Pieces) /\ Len(m) = 1 /\ m[1] = piece
  BY DEF Word
<1> HIDE DEF m
<1>1. Follows(Pieces, v, m, s)
  BY <1>0, Longer DEF s
<1>a. Len(v) \in Nat /\ Len(s) = Len(v) + 1 /\ s \in Seq(Pieces)
      /\ (\A p \in 1..Len(v) : s[p] = v[p]) /\ s[Len(v) + 1] = piece
  BY <1>0, <1>1 DEF Follows
<1> HIDE DEF s
<1>2. Follows(Pieces, s, u, word)
  BY <1>0, <1>a, Longer DEF word
<1> HIDE DEF word
<1>3. /\ \A p \in 1..Len(v) : p \in 1..Len(s)
      /\ Len(v) + 1 \in 1..Len(s)
  BY <1>a
<1>4. Around(word, v, piece, u)
  BY <1>a, <1>2, <1>3 DEF Around, Word, Follows
<1> QED BY <1>4 DEF word, s, m

(* split_once at the first place.                                          *)
LEMMA SplitOnce ==
  ASSUME NEW v \in Word, NEW u \in Word, NEW piece \in Pieces, ~Holds(v, piece),
         NEW word, Around(word, v, piece, u)
  PROVE  /\ Holds(word, piece) /\ First(word, piece) = Len(v) + 1
         /\ Before(word, piece) = v /\ After(word, piece) = u
<1> DEFINE k == Len(v) + 1
           n == Len(word)
<1>0. /\ v \in Seq(Pieces) /\ u \in Seq(Pieces) /\ word \in Seq(Pieces)
      /\ DOMAIN word = 1..n /\ DOMAIN v = 1..Len(v)
      /\ Len(v) \in Nat /\ Len(u) \in Nat /\ n \in Nat
  BY DEF Word, Around
<1>1. /\ n = k + Len(u) /\ k \in 1..n /\ Len(v) = k - 1 /\ word[k] = piece
      /\ \A p \in 1..(k - 1) : word[p] = v[p]
      /\ \A p \in 1..Len(u) : word[k + p] = u[p]
  BY <1>0 DEF Around
<1>2. SubSeq(word, 1, k - 1) = v
  <2> DEFINE q == SubSeq(word, 1, k - 1)
  <2>1. q \in Seq(Pieces) /\ Len(q) = k - 1 /\ \A p \in 1..(k - 1) : q[p] = word[p]
    BY <1>0, <1>1
  <2> HIDE DEF q
  <2>2. q = v
    BY <1>0, <1>1, <2>1, Same
  <2> QED BY <2>2 DEF q
<1>3. SubSeq(word, k + 1, n) = u
  <2> DEFINE q == SubSeq(word, k + 1, n)
  <2>1. q \in Seq(Pieces) /\ Len(q) = Len(u) /\ \A p \in 1..Len(u) : q[p] = word[k + p]
    BY <1>0, <1>1
  <2> HIDE DEF q
  <2>2. q = u
    BY <1>0, <1>1, <2>1, Same
  <2> QED BY <2>2 DEF q
<1> HIDE DEF k, n
<1>4. ASSUME NEW m \in DOMAIN word, word[m] = piece, ~Holds(SubSeq(word, 1, m - 1), piece)
      PROVE  m = k
  <2>1. m \in 1..n /\ k \in Nat
    BY <1>0, <1>1
  <2>2. ~(m < k)
    <3> SUFFICES ASSUME m < k PROVE FALSE
      OBVIOUS
    <3>1. m \in 1..(k - 1)
      BY <2>1
    <3> QED BY <1>0, <1>1, <1>4, <3>1 DEF Holds
  <2>3. ~(m > k)
    <3> SUFFICES ASSUME m > k PROVE FALSE
      OBVIOUS
    <3> DEFINE q == SubSeq(word, 1, m - 1)
    <3>1. k \in 1..(m - 1) /\ m - 1 \in 1..n
      BY <1>1, <2>1
    <3>2. k \in DOMAIN q /\ q[k] = word[k]
      BY <1>0, <3>1
    <3> QED BY <1>1, <1>4, <3>2 DEF Holds
  <2> QED BY <2>1, <2>2, <2>3
<1>5. k \in DOMAIN word /\ word[k] = piece /\ ~Holds(SubSeq(word, 1, k - 1), piece)
  BY <1>0, <1>1, <1>2
<1>6. First(word, piece) = k
  BY <1>4, <1>5 DEF First
<1>7. Holds(word, piece)
  BY <1>5 DEF Holds
<1> QED BY <1>2, <1>3, <1>6, <1>7 DEF Before, After, k, n

(* pack, of two values and of three.                                       *)
Glued(v, u) == v \o <<Separator>> \o u

(* pack folds the values to the last of these.                             *)
Packs(f, values, n) ==
  f = [k \in 1..n |-> IF k = 1 THEN values[1] ELSE Glued(f[k - 1], values[k])]

(* There is what pack folds the values to,                                 *)
LEMMA PackExists ==
  ASSUME NEW values, NEW n \in {2, 3}
  PROVE  \E f : Packs(f, values, n)
<1> DEFINE v2 == Glued(values[1], values[2])
           v3 == Glued(v2, values[3])
           f  == [k \in 1..n |-> IF k = 1 THEN values[1] ELSE IF k = 2 THEN v2 ELSE v3]
           g  == [k \in 1..n |-> IF k = 1 THEN values[1] ELSE Glued(f[k - 1], values[k])]
<1>1. \A k \in 1..n : k \in {1, 2, 3}
  OBVIOUS
<1>2. 1 \in 1..n /\ 2 \in 1..n /\ (3 \in 1..n => n = 3)
  OBVIOUS
<1> HIDE DEF v2, v3
<1>3. f[1] = values[1] /\ f[2] = v2 /\ (n = 3 => f[3] = v3)
  BY <1>2
<1>4. f = [k \in 1..n |-> f[k]]
  OBVIOUS
<1> HIDE DEF f
<1>5. ASSUME NEW k \in 1..n PROVE f[k] = g[k]
  <2>1. g[k] = IF k = 1 THEN values[1] ELSE Glued(f[k - 1], values[k])
    OBVIOUS
  <2> HIDE DEF g
  <2>2. CASE k = 1
    BY <1>3, <2>1, <2>2
  <2>3. CASE k = 2
    <3>1. g[k] = Glued(f[1], values[2])
      BY <2>1, <2>3
    <3> QED BY <1>3, <2>3, <3>1 DEF v2
  <2>4. CASE k = 3
    <3>1. g[k] = Glued(f[2], values[3])
      BY <2>1, <2>4
    <3> QED BY <1>2, <1>3, <2>4, <3>1 DEF v3
  <2> QED BY <1>1, <2>2, <2>3, <2>4
<1>6. f = g
  BY <1>4, <1>5
<1> QED BY <1>6 DEF Packs

(* and for two and for three values it is this.                            *)
LEMMA PackIs ==
  ASSUME NEW values, Len(values) \in {2, 3}
  PROVE  /\ Len(values) = 2 => Pack(values) = Glued(values[1], values[2])
         /\ Len(values) = 3 => Pack(values) = Glued(Glued(values[1], values[2]), values[3])
<1> DEFINE n == Len(values)
           F == CHOOSE f : Packs(f, values, n)
<1>1. Pack(values) = F[n]
  BY DEF Pack, Packs, Glued
<1>2. n \in {2, 3}
  OBVIOUS
<1> HIDE DEF n
<1>3. Packs(F, values, n)
  BY <1>2, PackExists
<1> HIDE DEF F
<1>4. F[1] = values[1] /\ F[2] = Glued(F[1], values[2])
  <2>1. 1 \in 1..n /\ 2 \in 1..n /\ 2 # 1 /\ 2 - 1 = 1
    BY <1>2
  <2> QED BY <1>3, <2>1 DEF Packs
<1>5. n = 3 => F[3] = Glued(F[2], values[3])
  <2> SUFFICES ASSUME n = 3 PROVE F[3] = Glued(F[2], values[3])
    OBVIOUS
  <2>1. 3 \in 1..n /\ 3 # 1 /\ 3 - 1 = 2
    OBVIOUS
  <2> QED BY <1>3, <2>1 DEF Packs
<1>6. n = Len(values)
  BY DEF n
<1> QED BY <1>1, <1>4, <1>5, <1>6

(* U+001F and the equals sign may be in words.                             *)
LEMMA SeparatorIs == Separator \in Pieces /\ Equals \in Pieces
BY ArgumentsAssumption

(* split_once undoes one joining.                                          *)
LEMMA Gluing ==
  ASSUME NEW v \in Word, NEW u \in Word
  PROVE  /\ Glued(v, u) \in Word
         /\ ~Holds(v, Separator) => /\ Holds(Glued(v, u), Separator)
                                    /\ Split(Glued(v, u)) = <<v, u>>
<1>1. Around(Glued(v, u), v, Separator, u)
  BY Between, SeparatorIs DEF Glued
<1>2. ASSUME ~Holds(v, Separator)
      PROVE  /\ Holds(Glued(v, u), Separator)
             /\ Before(Glued(v, u), Separator) = v
             /\ After(Glued(v, u), Separator) = u
  BY <1>1, <1>2, SplitOnce, SeparatorIs
<1> QED BY <1>1, <1>2 DEF Around, Split

(* It undoes two, one after the other, from the left.                      *)
LEMMA Reassociate ==
  ASSUME NEW u \in Word, NEW v \in Word, NEW w \in Word
  PROVE  Glued(Glued(u, v), w) = Glued(u, Glued(v, w))
<1> DEFINE W == Seq(Pieces)
           m == <<Separator>>
           J(x, y) == x \o y
<1>1. \A x, y \in W : J(x, y) \in W
  BY ConcatProperties
<1>2. \A x, y, z \in W : J(J(x, y), z) = J(x, J(y, z))
  BY ConcatAssociative
<1>3. m \in W /\ u \in W /\ v \in W /\ w \in W
  BY SeparatorIs DEF Word
<1>4. \A x, y : Glued(x, y) = J(J(x, m), y)
  BY DEF Glued
<1> HIDE DEF W, m, J
<1>5. J(u, m) \in W /\ J(v, m) \in W
  BY <1>1, <1>3
<1>6. J(J(J(u, m), v), m) = J(J(u, m), J(v, m))
  BY <1>2, <1>3, <1>5
<1>7. J(J(J(u, m), J(v, m)), w) = J(J(u, m), J(J(v, m), w))
  BY <1>2, <1>3, <1>5
<1> QED BY <1>4, <1>6, <1>7

(* from_arg gets back what was packed.                                     *)
LEMMA PackedPair ==
  ASSUME NEW values \in Seq(Word), Len(values) = 2, ~Holds(values[1], Separator)
  PROVE  /\ Pack(values) \in Word /\ Holds(Pack(values), Separator)
         /\ Split(Pack(values)) = values
<1>1. values[1] \in Word /\ values[2] \in Word /\ values = <<values[1], values[2]>>
  <2>1. 1 \in 1..Len(values) /\ 2 \in 1..Len(values)
    OBVIOUS
  <2>2. values[1] \in Word /\ values[2] \in Word
    BY <2>1, ElementOfSeq
  <2> QED BY <2>2
<1>2. Pack(values) = Glued(values[1], values[2])
  BY PackIs
<1> QED BY <1>1, <1>2, Gluing

(* The same for the three values of --remote.                              *)
LEMMA PackedTriple ==
  ASSUME NEW values \in Seq(Word), Len(values) = 3,
         ~Holds(values[1], Separator), ~Holds(values[2], Separator)
  PROVE  LET rest == Split(Pack(values))[2]
         IN  /\ Pack(values) \in Word /\ Holds(Pack(values), Separator)
             /\ Split(Pack(values))[1] = values[1]
             /\ Holds(rest, Separator)
             /\ Split(rest) = <<values[2], values[3]>>
<1>1. values[1] \in Word /\ values[2] \in Word /\ values[3] \in Word
  <2>1. 1 \in 1..Len(values) /\ 2 \in 1..Len(values) /\ 3 \in 1..Len(values)
    OBVIOUS
  <2> QED BY <2>1, ElementOfSeq
<1> DEFINE rest == Glued(values[2], values[3])
<1>2. rest \in Word /\ Holds(rest, Separator) /\ Split(rest) = <<values[2], values[3]>>
  BY <1>1, Gluing
<1>3. Pack(values) = Glued(values[1], rest)
  <2>1. Pack(values) = Glued(Glued(values[1], values[2]), values[3])
    BY PackIs
  <2> QED BY <1>1, <2>1, Reassociate
<1> HIDE DEF rest
<1>4. /\ Pack(values) \in Word /\ Holds(Pack(values), Separator)
      /\ Split(Pack(values)) = <<values[1], rest>>
  BY <1>1, <1>2, <1>3, Gluing
<1>5. Split(Pack(values))[1] = values[1] /\ Split(Pack(values))[2] = rest
  BY <1>4
<1> QED BY <1>2, <1>4, <1>5

-----------------------------------------------------------------------------
(* The places of an option among the others.                               *)
Increasing(s, S) ==
  /\ s \in [1..Cardinality(S) -> S]
  /\ \A m, n \in DOMAIN s : m < n => s[m] < s[n]

(* Any set of places can be put in order.                                  *)
LEMMA Increases ==
  ASSUME NEW n \in Nat, NEW S \in SUBSET (1..n)
  PROVE  \E s : Increasing(s, S)
<1> DEFINE U == {k \in Nat : \A T \in SUBSET (1..k) : \E s : Increasing(s, T)}
<1>1. 0 \in U
  <2> SUFFICES ASSUME NEW T \in SUBSET (1..0) PROVE \E s : Increasing(s, T)
    OBVIOUS
  <2>1. T = {}
    OBVIOUS
  <2>3. Cardinality(T) = 0
    BY <2>1, FS_EmptySet
  <2>2. Increasing([k \in 1..0 |-> 0], T)
    BY <2>1, <2>3 DEF Increasing
  <2> QED BY <2>2
<1>2. ASSUME NEW k \in Nat, k \in U PROVE k + 1 \in U
  <2> SUFFICES ASSUME NEW T \in SUBSET (1..(k + 1)) PROVE \E s : Increasing(s, T)
    OBVIOUS
  <2> DEFINE R == T \ {k + 1}
  <2>1. R \in SUBSET (1..k)
    OBVIOUS
  <2>2. PICK s : Increasing(s, R)
    BY <1>2, <2>1
  <2>3. CASE k + 1 \notin T
    <3>1. R = T
      BY <2>3
    <3> QED BY <2>2, <3>1
  <2>4. CASE k + 1 \in T
    <3> DEFINE c == Cardinality(R)
               t == [m \in 1..(c + 1) |-> IF m = c + 1 THEN k + 1 ELSE s[m]]
    <3>1. Cardinality(T) = c + 1 /\ c \in Nat
      <4>1. IsFiniteSet(T)
        <5>1. IsFiniteSet(1..(k + 1))
          BY FS_Interval
        <5> QED BY <5>1, FS_Subset
      <4>2. Cardinality(R) = Cardinality(T) - 1 /\ Cardinality(T) \in Nat /\ Cardinality(R) \in Nat
        <5>1. Cardinality(R) = Cardinality(T) - 1
          BY <2>4, <4>1, FS_RemoveElement
        <5>2. IsFiniteSet(R)
          BY <4>1, FS_Subset
        <5> QED BY <4>1, <5>1, <5>2, FS_CardinalityType
      <4> QED BY <4>2
    <3>2. s \in [1..c -> R] /\ \A m, o \in 1..c : m < o => s[m] < s[o]
      BY <2>2 DEF Increasing
    <3> HIDE DEF c
    <3>3. \A m \in 1..(c + 1) : m = c + 1 \/ m \in 1..c
      BY <3>1
    <3>4. \A m \in 1..c : s[m] \in R /\ s[m] \in 1..k
      BY <2>1, <3>2
    <3>5. t \in [1..(c + 1) -> T]
      BY <2>4, <3>3, <3>4
    <3>6. ASSUME NEW m \in 1..(c + 1), NEW o \in 1..(c + 1), m < o PROVE t[m] < t[o]
      <4>1. m \in 1..c /\ t[m] = s[m]
        BY <3>1, <3>6
      <4>2. CASE o = c + 1
        BY <3>4, <4>1, <4>2
      <4>3. CASE o # c + 1
        <5>1. o \in 1..c /\ t[o] = s[o]
          BY <3>3, <4>3
        <5> QED BY <3>2, <3>6, <4>1, <5>1
      <4> QED BY <4>2, <4>3
    <3>7. DOMAIN t = 1..(c + 1)
      OBVIOUS
    <3> HIDE DEF t
    <3>8. Increasing(t, T)
      BY <3>1, <3>5, <3>6, <3>7 DEF Increasing
    <3> QED BY <3>8
  <2> QED BY <2>3, <2>4
<1> HIDE DEF U
<1>3. n \in U
  BY <1>1, <1>2, Induction
<1> QED BY <1>3 DEF U

(* One of them for each that there is.                                     *)
LEMMA Ordered ==
  ASSUME NEW n \in Nat, NEW S \in SUBSET (1..n)
  PROVE  /\ Cardinality(S) \in Nat /\ (Cardinality(S) = 0 <=> S = {})
         /\ InOrder(S) \in [1..Cardinality(S) -> S]
<1>1. PICK s : Increasing(s, S)
  BY Increases
<1>2. \E t \in [1..Cardinality(S) -> S] : \A m, o \in DOMAIN t : m < o => t[m] < t[o]
  BY <1>1 DEF Increasing
<1>3. InOrder(S) \in [1..Cardinality(S) -> S]
  BY <1>2 DEF InOrder
<1>4. IsFiniteSet(S)
  <2>1. IsFiniteSet(1..n)
    BY FS_Interval
  <2> QED BY <2>1, FS_Subset
<1> QED BY <1>3, <1>4, FS_CardinalityType, FS_EmptySet

-----------------------------------------------------------------------------
(* The words of a setting.                                                 *)
Setting == [flag : Flags, values : Seq(Word), joined : BOOLEAN]

(* Every flag is in the pieces, and takes values or none.                  *)
LEMMA FlagsAre ==
  /\ \A sub \in Subcommands :
       Valued(sub) \subseteq Flags /\ Switches(sub) \subseteq Flags
  /\ Flags \subseteq Pieces /\ Subcommands \subseteq Pieces
  /\ \A flag \in Flags \union Subcommands : flag # Equals /\ flag # Separator /\ flag # Invalid
BY ArgumentsAssumption DEF Flags

(* A flag alone is no packed flag with a value.                            *)
LEMMA FlagWord ==
  ASSUME NEW flag \in Flags \union Subcommands
  PROVE  /\ <<flag>> \in Word /\ Len(<<flag>>) = 1
         /\ ~Joined(<<flag>>) /\ (Bare(<<flag>>) <=> Packed(flag))
<1>1. <<flag>> \in Word
  BY FlagsAre DEF Word
<1>2. ~Holds(<<flag>>, Equals)
  BY FlagsAre DEF Holds
<1> QED BY <1>1, <1>2 DEF Joined, Bare

(* A word that is a flag with a value.                                     *)
CarriesValue(word, flag, v) ==
  /\ word \in Word /\ Len(word) = Len(v) + 2 /\ Len(v) \in Nat
  /\ word[1] = flag /\ word[2] = Equals
  /\ Before(word, Equals) = <<flag>> /\ After(word, Equals) = v
  /\ ~Bare(word) /\ (Joined(word) <=> Packed(flag))

(* A flag with a value after the equals sign is cut at that sign,          *)
(* whatever is in the value.                                               *)
LEMMA JoinedWord ==
  ASSUME NEW flag \in Flags, NEW v \in Word, NEW word, word = <<flag, Equals>> \o v
  PROVE  CarriesValue(word, flag, v)
<1>1. <<flag, Equals>> \in Seq(Pieces) /\ <<flag>> \in Word /\ v \in Seq(Pieces)
  BY FlagsAre, SeparatorIs DEF Word
<1> DEFINE m == <<flag, Equals>>
<1>a. Len(m) = 2 /\ m[1] = flag /\ m[2] = Equals
  OBVIOUS
<1> HIDE DEF m
<1>2. Follows(Pieces, m, v, word)
  BY <1>1, Longer DEF m
<1>3. /\ word \in Word /\ Len(word) = Len(v) + 2 /\ Len(v) \in Nat
      /\ word[1] = flag /\ word[2] = Equals
      /\ \A p \in 1..Len(v) : word[2 + p] = v[p]
  BY <1>2, <1>a DEF Follows, Word
<1>4. Around(word, <<flag>>, Equals, v)
  <2>1. Len(<<flag>>) = 1 /\ \A p \in 1..1 : word[p] = <<flag>>[p]
    BY <1>3
  <2> QED BY <1>3, <2>1 DEF Around
<1>5. ~Holds(<<flag>>, Equals)
  BY FlagsAre DEF Holds
<1>6. Holds(word, Equals) /\ Before(word, Equals) = <<flag>> /\ After(word, Equals) = v
  BY <1>1, <1>4, <1>5, SplitOnce, SeparatorIs
<1>7. Len(Before(word, Equals)) = 1 /\ Before(word, Equals)[1] = flag
  BY <1>6
<1>8. ~Bare(word)
  BY <1>3 DEF Bare
<1>9. Joined(word) <=> Packed(flag)
  BY <1>6, <1>7 DEF Joined
<1> QED BY <1>3, <1>6, <1>8, <1>9 DEF CarriesValue

(* The words that a setting is written in.                                 *)
Spelled(s, w) ==
  LET m == Len(s.values)
  IN  /\ w \in Seq(Word) /\ m \in Nat
      /\ m = 0 \/ ~s.joined =>
           /\ Len(w) = m + 1 /\ w[1] = <<s.flag>>
           /\ \A v \in 1..m : w[1 + v] = s.values[v]
      /\ m # 0 /\ s.joined =>
           /\ Len(w) = m /\ w[1] = <<s.flag, Equals>> \o s.values[1]
           /\ \A v \in 2..m : w[v] = s.values[v]

(* How a setting is written.                                               *)
LEMMA Spelling ==
  ASSUME NEW s \in Setting
  PROVE  Spelled(s, Written(s))
<1> DEFINE values == s.values
           m == Len(values)
           f == <<s.flag>>
<1>0. values \in Seq(Word) /\ m \in Nat /\ s.joined \in BOOLEAN /\ s.flag \in Flags
      /\ (m = 0 <=> values = << >>)
  BY EmptySeq DEF Setting
<1>1. f \in Word
  BY <1>0, FlagWord DEF f
<1>2. CASE m = 0
  <2>1. Written(s) = <<f>> /\ <<f>> \in Seq(Word)
    BY <1>0, <1>1, <1>2 DEF Written
  <2> QED BY <1>0, <1>2, <2>1 DEF Spelled
<1>3. CASE m # 0 /\ s.joined
  <2> DEFINE word == <<s.flag, Equals>> \o Head(values)
             w == <<word>> \o Tail(values)
  <2>1. Written(s) = w
    BY <1>0, <1>3 DEF Written
  <2>2. Head(values) = values[1] /\ values[1] \in Word
    BY <1>0, <1>3
  <2>4. word = <<s.flag, Equals>> \o values[1]
    BY <2>2
  <2> HIDE DEF word
  <2>3. word \in Word
    <3> DEFINE v == values[1]
    <3>1. v \in Word /\ s.flag \in Flags /\ word = <<s.flag, Equals>> \o v
      BY <1>0, <2>2, <2>4
    <3> HIDE DEF v
    <3> QED BY <3>1, JoinedWord DEF CarriesValue
  <2>5. Tail(values) \in Seq(Word) /\ Len(Tail(values)) = m - 1
        /\ \A v \in 1..(m - 1) : Tail(values)[v] = values[v + 1]
    BY <1>0, <1>3
  <2> DEFINE h == <<word>>
  <2>6. h \in Seq(Word) /\ Len(h) = 1 /\ h[1] = word
    BY <2>3
  <2> HIDE DEF h
  <2>7. Follows(Word, h, Tail(values), w)
    BY <2>5, <2>6, Longer DEF h
  <2>8. w \in Seq(Word) /\ Len(w) = m /\ w[1] = word
    BY <1>0, <1>3, <2>5, <2>6, <2>7 DEF Follows
  <2>9. ASSUME NEW v \in 2..m PROVE w[v] = values[v]
    <3>1. v - 1 \in 1..(m - 1) /\ (v - 1) + 1 = v /\ 1 + (v - 1) = v
      BY <1>0
    <3>2. w[1 + (v - 1)] = Tail(values)[v - 1]
      BY <2>5, <2>6, <2>7, <3>1 DEF Follows
    <3> QED BY <2>5, <3>1, <3>2
  <2> HIDE DEF w
  <2> QED BY <1>0, <1>3, <2>1, <2>4, <2>8, <2>9 DEF Spelled
<1>4. CASE m # 0 /\ ~s.joined
  <2> DEFINE h == <<f>>
             w == h \o values
  <2>1. Written(s) = w
    BY <1>0, <1>4 DEF Written
  <2>2. h \in Seq(Word) /\ Len(h) = 1 /\ h[1] = f
    BY <1>1
  <2> HIDE DEF h
  <2>3. Follows(Word, h, values, w)
    BY <1>0, <2>2, Longer
  <2>4. w \in Seq(Word) /\ Len(w) = m + 1 /\ w[1] = f /\ \A v \in 1..m : w[1 + v] = values[v]
    BY <1>0, <2>2, <2>3 DEF Follows
  <2> HIDE DEF w
  <2> QED BY <1>0, <1>4, <2>1, <2>4 DEF Spelled
<1> QED BY <1>0, <1>2, <1>3, <1>4

(* How many values a flag takes.                                           *)
LEMMA Arities ==
  ASSUME NEW flag
  PROVE  /\ Packed(flag) <=> flag \in Pairs \union {"--remote"}
         /\ flag \in Pairs => Arity(flag) = 2
         /\ flag = "--remote" => Arity(flag) = 3
         /\ ~Packed(flag) => Arity(flag) = 1
         /\ Takes(flag) \in {0, Arity(flag)} /\ Arity(flag) \in {1, 2, 3}
         /\ (Packed(flag) => Takes(flag) = Arity(flag))
         /\ \A sub \in Subcommands :
              /\ flag \in Switches(sub) => Takes(flag) = 0
              /\ flag \in Valued(sub) => Takes(flag) = Arity(flag)
<1>1. /\ Packed(flag) <=> flag \in Pairs \union {"--remote"}
      /\ flag \in Pairs => Arity(flag) = 2
      /\ flag = "--remote" => Arity(flag) = 3
      /\ ~Packed(flag) => Arity(flag) = 1
      /\ Arity(flag) \in {1, 2, 3}
  BY DEF Packed, Arity, Pairs
<1>2. \A sub \in Subcommands :
        Switches(sub) \subseteq {"--meta", "--show-input-drvs", "--force-recurse",
                                     "--no-daemon", "--foreground"}
  BY DEF Subcommands, Switches
<1>3. \A sub \in Subcommands :
        Valued(sub) \subseteq Common \union {"--system", "--attr-prefix", "--socket", "--listen"}
  BY DEF Subcommands, Valued, Common
<1>4. \A sub, other \in Subcommands : flag \in Valued(sub) => flag \notin Switches(other)
  BY <1>2, <1>3 DEF Common, Inputs, Pairs
<1>5. Packed(flag) => \A sub \in Subcommands : flag \notin Switches(sub)
  BY <1>1, <1>2 DEF Pairs
<1> QED BY <1>1, <1>4, <1>5 DEF Takes

(* A setting that can be packed, if it has to be, and what it becomes.     *)
Fine(s) ==
  Packed(s.flag) => /\ Len(s.values) = Arity(s.flag)
                    /\ \A v \in DOMAIN s.values : ~Holds(s.values[v], Separator)

(* The words that it is told to the option parser in.                      *)
Told(s) ==
  IF Packed(s.flag) /\ Fine(s) THEN << <<s.flag, Equals>> \o Pack(s.values) >> ELSE Written(s)

(* A packed value is one word, from which from_arg gets the values back.   *)
LEMMA Packing ==
  ASSUME NEW s \in Setting, Packed(s.flag), Fine(s)
  PROVE  /\ Pack(s.values) \in Word /\ Holds(Pack(s.values), Separator)
         /\ s.flag \in Pairs => Split(Pack(s.values)) = s.values
         /\ s.flag = "--remote" =>
              LET rest == Split(Pack(s.values))[2]
              IN  /\ Split(Pack(s.values))[1] = s.values[1]
                  /\ Holds(rest, Separator)
                  /\ Split(rest) = <<s.values[2], s.values[3]>>
<1>1. /\ s.values \in Seq(Word) /\ DOMAIN s.values = 1..Len(s.values)
      /\ Len(s.values) = Arity(s.flag)
      /\ \A v \in 1..Len(s.values) : ~Holds(s.values[v], Separator)
  BY DEF Setting, Fine
<1>2. CASE s.flag \in Pairs
  <2>1. Len(s.values) = 2 /\ s.flag # "--remote" /\ 1 \in 1..Len(s.values)
    BY <1>1, <1>2, Arities DEF Pairs
  <2> QED BY <1>1, <2>1, PackedPair
<1>3. CASE s.flag = "--remote"
  <2>1. Len(s.values) = 3 /\ s.flag \notin Pairs
        /\ 1 \in 1..Len(s.values) /\ 2 \in 1..Len(s.values)
    BY <1>1, <1>3, Arities DEF Pairs
  <2> QED BY <1>1, <1>3, <2>1, PackedTriple
<1> QED BY <1>2, <1>3, Arities

(* What becomes of a setting is words.                                     *)
LEMMA ToldWords ==
  ASSUME NEW s \in Setting
  PROVE  Told(s) \in Seq(Word)
<1>1. CASE Packed(s.flag) /\ Fine(s)
  <2> DEFINE word == <<s.flag, Equals>> \o Pack(s.values)
  <2>1. s.flag \in Flags /\ Pack(s.values) \in Word
    BY <1>1, Packing DEF Setting
  <2>2. word = <<s.flag, Equals>> \o Pack(s.values)
    OBVIOUS
  <2>3. Told(s) = <<word>>
    BY <1>1 DEF Told
  <2> HIDE DEF word
  <2>4. word \in Word
    BY <2>1, <2>2, JoinedWord DEF CarriesValue
  <2> QED BY <2>3, <2>4
<1>2. CASE ~(Packed(s.flag) /\ Fine(s))
  <2>1. Told(s) = Written(s)
    BY <1>2 DEF Told
  <2> QED BY <2>1, Spelling DEF Spelled
<1> QED BY <1>1, <1>2

(* What the missing values are collected from.                             *)
Stand(words, values, first, x, m) ==
  /\ words \in Seq(Word) /\ values \in Seq(Word) /\ first \in Seq(Word)
  /\ x \in Nat \ {0} /\ m \in Nat
  /\ Len(first) + m = Len(values) /\ x + m <= Len(words)
  /\ \A p \in 1..Len(first) : first[p] = values[p]
  /\ \A p \in 1..m : words[x + p] = values[Len(first) + p]

(* What came with the flag, and what is missing.                           *)
With(words, first, x, m) == first \o SubSeq(words, x + 1, x + m)

(* Together they are the values of the setting.                            *)
LEMMA Collected ==
  ASSUME NEW words, NEW values, NEW first, NEW x, NEW m, Stand(words, values, first, x, m)
  PROVE  With(words, first, x, m) = values
<1> DEFINE q == SubSeq(words, x + 1, x + m)
           W == Word
<1> HIDE DEF W
<1>0. /\ words \in Seq(W) /\ values \in Seq(W) /\ first \in Seq(W)
      /\ x \in Nat \ {0} /\ m \in Nat
      /\ Len(first) + m = Len(values) /\ x + m <= Len(words)
      /\ \A p \in 1..Len(first) : first[p] = values[p]
      /\ \A p \in 1..m : words[x + p] = values[Len(first) + p]
  BY DEF W, Stand
<1>a. x + m - (x + 1) + 1 = m /\ Len(words) \in Nat
  BY <1>0, LenProperties
<1>b. \A p \in (x + 1)..(x + m) : words[p] \in W
  <2>1. \A p \in (x + 1)..(x + m) : p \in 1..Len(words)
    BY <1>0, <1>a
  <2> QED BY <1>0, <2>1, ElementOfSeq
<1>1. q \in Seq(W) /\ Len(q) = m /\ \A p \in 1..m : q[p] = words[x + p]
  <2>1. /\ q \in Seq(W) /\ Len(q) = m
        /\ \A p \in 1..m : q[p] = words[(x + 1) + p - 1]
    <3>1. x + 1 \in Int /\ x + m \in Int /\ (x + 1 <= x + m <=> m # 0)
      BY <1>0
    <3> QED BY <1>0, <1>a, <1>b, <3>1, SubSeqProperties
  <2>2. \A p \in 1..m : (x + 1) + p - 1 = x + p
    BY <1>0
  <2> QED BY <2>1, <2>2
<1> HIDE DEF q
<1> DEFINE u == first \o q
<1>2. Follows(W, first, q, u)
  BY <1>0, <1>1, Longer
<1> HIDE DEF u
<1>3. u \in Seq(W) /\ Len(u) = Len(values) /\ Len(first) \in Nat
  BY <1>0, <1>1, <1>2 DEF Follows
<1>4. ASSUME NEW p \in 1..Len(u) PROVE u[p] = values[p]
  <2>1. CASE p \in 1..Len(first)
    BY <1>0, <1>2, <2>1 DEF Follows
  <2>2. CASE p \notin 1..Len(first)
    <3>1. p - Len(first) \in 1..m /\ Len(first) + (p - Len(first)) = p
      BY <1>0, <1>3, <2>2
    <3>2. u[Len(first) + (p - Len(first))] = q[p - Len(first)]
      BY <1>1, <1>2, <3>1 DEF Follows
    <3> QED BY <1>0, <1>1, <3>1, <3>2
  <2> QED BY <2>1, <2>2
<1>5. u = values
  BY <1>0, <1>3, <1>4, Same
<1> QED BY <1>5 DEF u, q, With

-----------------------------------------------------------------------------
(* A command line up to one of its settings, as it is written and as it is *)
(* told to the option parser.                                              *)
Start(typed) == << <<typed.command>> >>
Count(typed) == Len(typed.settings)

Spellings(typed) == [k \in 1..Count(typed) |-> Written(typed.settings[k])]
Tellings(typed)  == [k \in 1..Count(typed) |-> Told(typed.settings[k])]

WordsUpTo(typed) == Cat(Start(typed), Spellings(typed))
ToldUpTo(typed)  == Cat(Start(typed), Tellings(typed))

(* What is known of a command line.                                        *)
LEMMA LineIs ==
  ASSUME NEW typed \in CommandLines
  PROVE  /\ typed.command \in Subcommands /\ Count(typed) \in Nat
         /\ DOMAIN typed.settings = 1..Count(typed)
         /\ \A k \in 1..Count(typed) :
              LET s == typed.settings[k]
              IN  /\ s \in Setting /\ Len(s.values) \in Nat /\ Len(s.values) <= Takes(s.flag)
                  /\ k < Count(typed) => Len(s.values) = Takes(s.flag)
                  /\ Takes(s.flag) = 1 /\ ~s.joined =>
                       \A v \in 1..Len(s.values) : ~TakenForPacked(s.values[v])
<1>1. typed.command \in Subcommands /\ typed.settings \in Seq(Setting) /\ Regular(typed.settings)
  BY ArgumentsAssumption DEF Setting, Word
<1>2. Count(typed) \in Nat /\ DOMAIN typed.settings = 1..Count(typed)
      /\ \A k \in 1..Count(typed) : typed.settings[k] \in Setting
  BY <1>1, ElementOfSeq DEF Count
<1>3. ASSUME NEW s \in Setting PROVE Len(s.values) \in Nat /\ DOMAIN s.values = 1..Len(s.values)
  BY DEF Setting
<1> QED BY <1>1, <1>2, <1>3 DEF Regular, Count

(* It is written in words, and told in words,                              *)
LEMMA LineWords ==
  ASSUME NEW typed \in CommandLines
  PROVE  /\ Start(typed) \in Seq(Word)
         /\ Spellings(typed) \in Seq(Seq(Word)) /\ Len(Spellings(typed)) = Count(typed)
         /\ Tellings(typed) \in Seq(Seq(Word)) /\ Len(Tellings(typed)) = Count(typed)
<1>1. Start(typed) \in Seq(Word)
  <2>1. <<typed.command>> \in Word
    BY LineIs, FlagWord
  <2> QED BY <2>1 DEF Start
<1>2. Count(typed) \in Nat /\ \A k \in 1..Count(typed) : typed.settings[k] \in Setting
  BY LineIs
<1> DEFINE W == Seq(Word)
<1>3. \A k \in 1..Count(typed) : Written(typed.settings[k]) \in W
  BY <1>2, Spelling DEF Spelled
<1>4. \A k \in 1..Count(typed) : Told(typed.settings[k]) \in W
  BY <1>2, ToldWords
<1> HIDE DEF W
<1>5. Spellings(typed) \in Seq(W) /\ Len(Spellings(typed)) = Count(typed)
  BY <1>2, <1>3 DEF Spellings
<1>6. Tellings(typed) \in Seq(W) /\ Len(Tellings(typed)) = Count(typed)
  BY <1>2, <1>4 DEF Tellings
<1> QED BY <1>1, <1>5, <1>6 DEF W

(* setting after setting.                                                  *)
LEMMA LineCats ==
  ASSUME NEW typed \in CommandLines
  PROVE  /\ WordsUpTo(typed)[0] = Start(typed)
         /\ Joins(WordsUpTo(typed), Spellings(typed), Count(typed))
         /\ ToldUpTo(typed)[0] = Start(typed)
         /\ Joins(ToldUpTo(typed), Tellings(typed), Count(typed))
<1>1. /\ WordsUpTo(typed)[0] = Start(typed)
      /\ Joins(WordsUpTo(typed), Spellings(typed), Len(Spellings(typed)))
  BY LineWords, CatIs DEF WordsUpTo
<1>2. /\ ToldUpTo(typed)[0] = Start(typed)
      /\ Joins(ToldUpTo(typed), Tellings(typed), Len(Tellings(typed)))
  BY LineWords, CatIs DEF ToldUpTo
<1> QED BY <1>1, <1>2, LineWords

(* What evix is started with is the whole of them.                         *)
LEMMA ArgsAre ==
  ASSUME NEW typed \in CommandLines
  PROVE  << <<typed.command>> >>
           \o X!FlattenSeq([n \in DOMAIN typed.settings |-> Written(typed.settings[n])])
           = WordsUpTo(typed)[Count(typed)]
<1>1. [n \in DOMAIN typed.settings |-> Written(typed.settings[n])] = Spellings(typed)
  BY LineIs DEF Spellings
<1>2. Start(typed) \o X!FlattenSeq(Spellings(typed)) = WordsUpTo(typed)[Len(Spellings(typed))]
  BY LineWords, Flattened DEF WordsUpTo
<1> QED BY <1>1, <1>2, LineWords DEF Start

(* Where the words of a setting are.                                       *)
Placed(typed, k) ==
  LET words  == WordsUpTo(typed)[Count(typed)]
      before == Len(WordsUpTo(typed)[k - 1])
      upTo   == Len(WordsUpTo(typed)[k])
      w      == Written(typed.settings[k])
  IN  /\ words \in Seq(Word) /\ Len(words) \in Nat
      /\ before \in Nat /\ before >= 1 /\ Len(w) \in Nat /\ Len(w) >= 1
      /\ upTo = before + Len(w) /\ upTo <= Len(words)
      /\ k = Count(typed) => upTo = Len(words)
      /\ \A p \in 1..Len(w) : words[before + p] = w[p]

(* They are behind those of the settings before it.                        *)
LEMMA Placing ==
  ASSUME NEW typed \in CommandLines, NEW k \in 1..Count(typed)
  PROVE  Placed(typed, k)
<1> DEFINE c == WordsUpTo(typed)
           n == Count(typed)
           w == Written(typed.settings[k])
<1>1. Joins(c, Spellings(typed), n) /\ c[0] = Start(typed) /\ n \in Nat
  BY LineCats, LineIs
<1> DEFINE v == Spellings(typed)
<1>2. v[k] = w
  BY DEF Spellings
<1>3. /\ Len(c[k]) = Len(c[k - 1]) + Len(w)
      /\ Len(c[k - 1]) \in Nat /\ Len(w) \in Nat
      /\ Len(c[k]) <= Len(c[n])
      /\ \A p \in 1..Len(w) : c[n][Len(c[k - 1]) + p] = w[p]
  <2>1. k \in 1..n /\ Joins(c, v, n)
    BY <1>1
  <2> HIDE DEF c, n, w, v
  <2>2. Lies(c, v, n, k)
    BY <2>1, CatAt
  <2> QED BY <1>2, <2>2 DEF Lies
<1>4. c[n] \in Seq(Word) /\ Len(c[n]) \in Nat
  <2> HIDE DEF c, n
  <2>1. n \in 0..n
    BY <1>1
  <2>2. c[n] \in Seq(Word)
    BY <1>1, <2>1 DEF Joins
  <2> QED BY <2>2, LenProperties
<1>5. Len(c[0]) = 1 /\ Len(c[0]) <= Len(c[k - 1])
  <2>1. Len(c[0]) = 1
    BY <1>1 DEF Start
  <2> HIDE DEF c
  <2>2. 0 \in 0..n /\ k - 1 \in 0..n
    BY <1>1
  <2> QED BY <1>1, <2>1, <2>2, CatPrefix
<1>6. Len(w) >= 1
  <2> DEFINE s == typed.settings[k]
  <2>1. s \in Setting /\ Len(s.values) \in Nat
    BY LineIs
  <2>2. Spelled(s, w) /\ s.joined \in BOOLEAN
    BY <2>1, Spelling DEF Setting
  <2> QED BY <2>1, <2>2 DEF Spelled
<1> QED BY <1>3, <1>4, <1>5, <1>6 DEF Placed

(* What is told of a setting comes behind what was told before.            *)
LEMMA Telling ==
  ASSUME NEW typed \in CommandLines, NEW k \in 1..Count(typed)
  PROVE  /\ ToldUpTo(typed)[k] = ToldUpTo(typed)[k - 1] \o Told(typed.settings[k])
         /\ ToldUpTo(typed)[k - 1] \in Seq(Word) /\ Told(typed.settings[k]) \in Seq(Word)
<1>1. Joins(ToldUpTo(typed), Tellings(typed), Count(typed)) /\ Count(typed) \in Nat
  BY LineCats, LineIs
<1>2. Tellings(typed)[k] = Told(typed.settings[k])
  BY DEF Tellings
<1>3. k - 1 \in 0..Count(typed)
  BY <1>1
<1> QED BY <1>1, <1>2, <1>3 DEF Joins

(* How many words are missing, and where they are.                         *)
LEMMA Counting ==
  ASSUME NEW before \in Nat, NEW l \in Nat, NEW arity \in Nat, NEW c \in Nat,
         NEW w \in Nat, NEW upTo \in Nat, NEW total \in Nat, NEW m,
         c <= 1, c < arity, l <= arity, w = l + 1 - c, upTo = before + w, upTo <= total,
         l # arity => upTo = total, m = arity - c
  PROVE  /\ m \in Nat
         /\ (before + 1) + m <= total <=> l = arity
         /\ l = arity => /\ (before + 1) + m = upTo /\ c + m = l
                         /\ \A p \in 1..m : /\ p \in 1..(l - c) /\ 1 + p \in 1..w
                                            /\ (before + 1) + p = before + (1 + p)
OBVIOUS

(* What the values that are missing behind a packed option come to: first  *)
(* is what came with the option.                                           *)
Gathers(typed, k, first) ==
  LET s       == typed.settings[k]
      words   == WordsUpTo(typed)[Count(typed)]
      x       == Len(WordsUpTo(typed)[k - 1]) + 1
      missing == Arity(s.flag) - Len(first)
  IN  /\ x + missing <= Len(words) <=> Len(s.values) = Arity(s.flag)
      /\ x + missing \in Nat /\ Len(words) \in Nat
      /\ Len(s.values) = Arity(s.flag) =>
           /\ first \o SubSeq(words, x + 1, x + missing) = s.values
           /\ x + missing = Len(WordsUpTo(typed)[k])

(* The value that came after an equals sign, if one did.                   *)
CameWith(s, first) ==
  /\ first \in Seq(Word)
  /\ IF Len(s.values) # 0 /\ s.joined THEN Len(first) = 1 /\ first[1] = s.values[1]
                                      ELSE Len(first) = 0

(* collect_packed_values takes the words up to the next setting, or finds  *)
(* too few exactly if values are missing at the end.                       *)
LEMMA Gathering ==
  ASSUME NEW typed \in CommandLines, NEW k \in 1..Count(typed),
         Packed(typed.settings[k].flag),
         NEW first, CameWith(typed.settings[k], first)
  PROVE  Gathers(typed, k, first)
<1> DEFINE s       == typed.settings[k]
           values  == s.values
           l       == Len(values)
           w       == Written(s)
           words   == WordsUpTo(typed)[Count(typed)]
           before  == Len(WordsUpTo(typed)[k - 1])
           x       == before + 1
           upTo    == Len(WordsUpTo(typed)[k])
           arity   == Arity(s.flag)
           c       == Len(first)
           m       == arity - c
<1>1. /\ s \in Setting /\ values \in Seq(Word) /\ l \in Nat /\ l <= arity
      /\ (k < Count(typed) => l = arity)
      /\ arity \in {2, 3} /\ s.joined \in BOOLEAN
  <2>1. /\ s \in Setting /\ l \in Nat /\ l <= Takes(s.flag)
        /\ (k < Count(typed) => l = Takes(s.flag))
    BY LineIs
  <2>2. Packed(s.flag)
    OBVIOUS
  <2>3. values \in Seq(Word) /\ s.joined \in BOOLEAN
    BY <2>1 DEF Setting
  <2> HIDE DEF s, values, l
  <2>4. Takes(s.flag) = arity /\ arity \in {2, 3}
    BY <2>2, Arities
  <2> QED BY <2>1, <2>3, <2>4
<1>2. /\ words \in Seq(Word) /\ Len(words) \in Nat
      /\ before \in Nat /\ Len(w) \in Nat /\ upTo = before + Len(w) /\ upTo <= Len(words)
      /\ (k = Count(typed) => upTo = Len(words))
      /\ \A p \in 1..Len(w) : words[before + p] = w[p]
  BY Placing DEF Placed
<1>3. Spelled(s, w)
  BY <1>1, Spelling
<1>4. k = Count(typed) \/ k < Count(typed)
  BY LineIs
<1>5. first \in Seq(Word)
      /\ IF l # 0 /\ s.joined THEN c = 1 /\ first[1] = values[1] ELSE c = 0
  BY DEF CameWith
<1>6. Gathers(typed, k, first) <=>
        /\ x + m <= Len(words) <=> l = arity
        /\ x + m \in Nat /\ Len(words) \in Nat
        /\ l = arity => /\ first \o SubSeq(words, x + 1, x + m) = values
                        /\ x + m = upTo
  BY DEF Gathers
<1>7. /\ s.joined /\ l # 0 => Len(w) = l /\ \A v \in 2..l : w[v] = values[v]
      /\ ~(s.joined /\ l # 0) => Len(w) = l + 1 /\ \A v \in 1..l : w[1 + v] = values[v]
  <2> HIDE DEF w, s
  <2> QED BY <1>1, <1>3 DEF Spelled
<1> DEFINE lw == Len(w)
           total == Len(words)
<1>8. /\ c \in Nat /\ c <= 1 /\ lw = l + 1 - c
      /\ \A p \in 1..(l - c) : w[1 + p] = values[c + p]
      /\ \A p \in 1..c : first[p] = values[p]
  <2> HIDE DEF values, l, w, s, c
  <2>1. CASE s.joined /\ l # 0
    <3>1. c = 1 /\ first[1] = values[1] /\ lw = l /\ \A v \in 2..l : w[v] = values[v]
      BY <1>1, <1>5, <1>7, <2>1
    <3> QED BY <1>1, <3>1
  <2>2. CASE ~(s.joined /\ l # 0)
    <3>1. c = 0 /\ lw = l + 1 /\ \A v \in 1..l : w[1 + v] = values[v]
      BY <1>5, <1>7, <2>2
    <3> QED BY <1>1, <3>1
  <2> QED BY <2>1, <2>2
<1>9. /\ lw \in Nat /\ upTo = before + lw /\ total \in Nat /\ upTo <= total
      /\ before \in Nat /\ (l # arity => upTo = total) /\ l \in Nat /\ l <= arity
  BY <1>1, <1>2, <1>4
<1>10. arity \in Nat /\ c < arity /\ upTo \in Nat
  <2>1. arity \in {2, 3} /\ c \in {0, 1}
    BY <1>1, <1>5
  <2> HIDE DEF lw, before, upTo, arity, c
  <2>2. ASSUME NEW y \in Nat, NEW z \in Nat PROVE y + z \in Nat
    OBVIOUS
  <2> QED BY <1>9, <2>1, <2>2
<1> HIDE DEF l, lw, before, upTo, arity, c, total
<1>11. /\ m \in Nat
       /\ x + m <= total <=> l = arity
       /\ l = arity => /\ x + m = upTo /\ c + m = l
                       /\ \A p \in 1..m : /\ p \in 1..(l - c) /\ 1 + p \in 1..lw
                                          /\ x + p = before + (1 + p)
  <2>1. m = arity - c
    OBVIOUS
  <2> HIDE DEF m
  <2> QED BY <1>8, <1>9, <1>10, <2>1, Counting
<1>12. ASSUME l = arity PROVE first \o SubSeq(words, x + 1, x + m) = values
  <2>1. ASSUME NEW p \in 1..m PROVE words[x + p] = values[c + p]
    <3>1. p \in 1..(l - c) /\ 1 + p \in 1..Len(w) /\ x + p = before + (1 + p)
      BY <1>11, <1>12 DEF lw
    <3>2. words[before + (1 + p)] = w[1 + p]
      BY <1>2, <3>1
    <3> QED BY <1>8, <3>1, <3>2
  <2>2. x \in Nat \ {0} /\ x + m <= Len(words) /\ c + m = Len(values) /\ m \in Nat
    BY <1>9, <1>11, <1>12 DEF total, l
  <2>3. /\ Len(first) + m = Len(values)
        /\ \A p \in 1..Len(first) : first[p] = values[p]
        /\ \A p \in 1..m : words[x + p] = values[Len(first) + p]
    BY <1>8, <2>1, <2>2 DEF c
  <2>4. words \in Seq(Word) /\ values \in Seq(Word) /\ first \in Seq(Word)
    BY <1>1, <1>2, <1>5
  <2> HIDE DEF x, m, values, words
  <2>5. Stand(words, values, first, x, m)
    BY <2>2, <2>3, <2>4 DEF Stand
  <2> QED BY <2>5, Collected DEF With
<1>13. x + m \in Nat
  BY <1>9, <1>11
<1> QED BY <1>6, <1>9, <1>11, <1>12, <1>13 DEF total

(* So it passes the setting by and appends what it is told as, or refuses  *)
(* it.                                                                     *)
LEMMA Collecting ==
  ASSUME meant \in CommandLines, args = WordsUpTo(meant)[Count(meant)],
         NEW k \in 1..Count(meant), Packed(meant.settings[k].flag),
         index = Len(WordsUpTo(meant)[k - 1]) + 1,
         normalized = ToldUpTo(meant)[k - 1],
         NEW first, CameWith(meant.settings[k], first),
         Collect(meant.settings[k].flag, first)
  PROVE  IF Fine(meant.settings[k])
           THEN /\ index' = Len(WordsUpTo(meant)[k]) + 1
                /\ normalized' = ToldUpTo(meant)[k]
                /\ UNCHANGED <<phase, plan>>
           ELSE phase' = "refused" /\ UNCHANGED <<index, normalized, plan>>
<1> DEFINE s       == meant.settings[k]
           values  == s.values
           upTo    == Len(WordsUpTo(meant)[k])
           missing == Arity(s.flag) - Len(first)
           given   == first \o SubSeq(args, index + 1, index + missing)
<1>1. /\ index + missing <= Len(args) <=> Len(values) = Arity(s.flag)
      /\ index + missing \in Nat /\ Len(args) \in Nat
      /\ Len(values) = Arity(s.flag) => given = values /\ index + missing = upTo
  BY Gathering DEF Gathers
<1>2. IF index + missing > Len(args) \/ \E v \in DOMAIN given : Holds(given[v], Separator)
        THEN Refuse
        ELSE /\ normalized' = Append(normalized, <<s.flag, Equals>> \o Pack(given))
             /\ index' = index + missing + 1
             /\ UNCHANGED <<phase, plan>>
  BY DEF Collect
<1> DEFINE next == index + missing
           lacks == \E v \in DOMAIN given : Holds(given[v], Separator)
<1>3. Fine(s) <=> Len(values) = Arity(s.flag) /\ ~\E v \in DOMAIN values : Holds(values[v], Separator)
  BY DEF Fine
<1>4. Fine(s) <=> ~(next > Len(args) \/ lacks)
  <2>1. next > Len(args) <=> ~(next <= Len(args))
    BY <1>1
  <2>2. CASE Len(values) = Arity(s.flag)
    <3>1. given = values
      BY <1>1, <2>2
    <3>2. lacks <=> \E v \in DOMAIN values : Holds(values[v], Separator)
      <4> HIDE DEF given
      <4> QED BY <3>1
    <3> HIDE DEF lacks
    <3> QED BY <1>1, <1>3, <2>1, <2>2, <3>2
  <2>3. CASE Len(values) # Arity(s.flag)
    <3> HIDE DEF lacks
    <3> QED BY <1>1, <1>3, <2>1, <2>3
  <2> QED BY <2>2, <2>3
<1>5. CASE Fine(s)
  <2>1. given = values /\ next = upTo
    BY <1>1, <1>3, <1>5
  <2>2. /\ normalized' = Append(normalized, <<s.flag, Equals>> \o Pack(given))
        /\ index' = next + 1
        /\ UNCHANGED <<phase, plan>>
    <3> HIDE DEF given, lacks
    <3> QED BY <1>2, <1>4, <1>5, SMTT(30) DEF lacks
  <2>3. index' = upTo + 1
    BY <2>1, <2>2
  <2>4. normalized' = ToldUpTo(meant)[k]
    <3> DEFINE word == <<s.flag, Equals>> \o Pack(values)
    <3>1. Told(s) = <<word>>
      BY <1>5 DEF Told
    <3>2. ToldUpTo(meant)[k] = normalized \o <<word>> /\ normalized \in Seq(Word)
      BY <3>1, Telling
    <3>3. normalized' = Append(normalized, word)
      <4> HIDE DEF given
      <4> QED BY <2>1, <2>2
    <3> HIDE DEF word
    <3>4. Append(normalized, word) = normalized \o <<word>>
      BY <3>2
    <3> QED BY <3>2, <3>3, <3>4
  <2> QED BY <1>5, <2>2, <2>3, <2>4
<1>6. CASE ~Fine(s)
  <2>1. Refuse
    BY <1>2, <1>4, <1>6
  <2> QED BY <1>6, <2>1 DEF Refuse
<1> QED BY <1>5, <1>6

(* The first word of a setting.                                            *)
Leads(s, word) ==
  /\ word \in Word /\ word[1] = s.flag
  /\ IF Len(s.values) # 0 /\ s.joined
       THEN /\ Joined(word) <=> Packed(s.flag)
            /\ ~Bare(word) /\ After(word, Equals) = s.values[1] /\ s.values[1] \in Word
       ELSE /\ word = <<s.flag>>
            /\ Bare(word) <=> Packed(s.flag)
            /\ ~Joined(word)

(* It shows whether the setting has to be packed, and brings a value or    *)
(* not.                                                                    *)
LEMMA Leading ==
  ASSUME NEW s \in Setting
  PROVE  Leads(s, Written(s)[1])
<1> DEFINE w == Written(s)
           word == w[1]
           v == s.values[1]
<1>1. Spelled(s, w) /\ Len(s.values) \in Nat /\ s.joined \in BOOLEAN /\ s.flag \in Flags
      /\ s.values \in Seq(Word)
  BY Spelling DEF Setting
<1> HIDE DEF w
<1>2. CASE Len(s.values) # 0 /\ s.joined
  <2>1. word = <<s.flag, Equals>> \o v
    BY <1>1, <1>2 DEF Spelled
  <2>2. v \in Word
    BY <1>1, <1>2
  <2> HIDE DEF word, v
  <2>3. CarriesValue(word, s.flag, v)
    BY <1>1, <2>1, <2>2, JoinedWord
  <2> QED BY <1>2, <2>2, <2>3 DEF Leads, CarriesValue, word, v, w
<1>3. CASE ~(Len(s.values) # 0 /\ s.joined)
  <2>1. word = <<s.flag>>
    BY <1>1, <1>3 DEF Spelled
  <2>2. word \in Word /\ word[1] = s.flag
    BY <1>1, <2>1, FlagWord
  <2>3. ~Joined(word) /\ (Bare(word) <=> Packed(s.flag))
    BY <1>1, <2>1, FlagWord
  <2> HIDE DEF word
  <2> QED BY <1>3, <2>1, <2>2, <2>3 DEF Leads, word, w
<1> QED BY <1>2, <1>3

(* normalize_args between two settings.                                    *)
Behind(k) ==
  /\ index = Len(WordsUpTo(meant)[k]) + 1
  /\ normalized = ToldUpTo(meant)[k]

(* Before the value of an option that is not packed.                       *)
Within(k) ==
  LET s == meant.settings[k]
  IN  /\ ~Packed(s.flag) /\ ~s.joined /\ Len(s.values) = 1
      /\ index = Len(WordsUpTo(meant)[k - 1]) + 2
      /\ normalized = Append(ToldUpTo(meant)[k - 1], <<s.flag>>)

(* The arguments are those of the command line.                            *)
IsTyped ==
  /\ meant \in CommandLines
  /\ args = WordsUpTo(meant)[Count(meant)]

(* A step of normalize_args at a packed option passes it by or refuses.    *)
LEMMA NormalizePacked ==
  ASSUME IsTyped, NEW k \in 1..Count(meant), Behind(k - 1),
         Packed(meant.settings[k].flag), Normalize
  PROVE  IF Fine(meant.settings[k])
           THEN Behind(k)' /\ UNCHANGED <<phase, plan>>
           ELSE phase' = "refused" /\ UNCHANGED <<index, normalized, plan>>
<1> DEFINE s == meant.settings[k]
           word == args[index]
<1>1. s \in Setting /\ UNCHANGED meant
  BY LineIs DEF IsTyped, Normalize
<1>2. word = Written(s)[1] /\ index \in Nat
  <2>1. Len(Written(s)) >= 1 /\ Len(Written(s)) \in Nat
        /\ Len(WordsUpTo(meant)[k - 1]) \in Nat
        /\ \A p \in 1..Len(Written(s)) :
             args[Len(WordsUpTo(meant)[k - 1]) + p] = Written(s)[p]
    BY Placing DEF Placed, IsTyped
  <2>2. 1 \in 1..Len(Written(s))
    BY <2>1
  <2> QED BY <2>1, <2>2 DEF Behind
<1>3. Leads(s, word)
  BY <1>1, <1>2, Leading
<1>4. Packed(s.flag)
  OBVIOUS
<1>5. (CASE Joined(word) -> Collect(word[1], <<After(word, Equals)>>)
         [] Bare(word)   -> Collect(word[1], << >>)
         [] OTHER -> /\ normalized' = Append(normalized, word)
                     /\ index' = index + 1
                     /\ UNCHANGED <<phase, plan>>)
  BY DEF Normalize
<1> HIDE DEF word
<1>6. PICK first : CameWith(s, first) /\ Collect(s.flag, first)
  <2>1. CASE Len(s.values) # 0 /\ s.joined
    <3> DEFINE first == <<s.values[1]>>
    <3>1. Collect(s.flag, first)
      BY <1>3, <1>4, <1>5, <2>1 DEF Leads
    <3>2. first \in Seq(Word) /\ Len(first) = 1 /\ first[1] = s.values[1]
      BY <1>3, <2>1 DEF Leads
    <3> HIDE DEF first
    <3>3. CameWith(s, first)
      BY <2>1, <3>2 DEF CameWith
    <3> QED BY <3>1, <3>3
  <2>2. CASE ~(Len(s.values) # 0 /\ s.joined)
    <3>1. Collect(s.flag, << >>)
      BY <1>3, <1>4, <1>5, <2>2 DEF Leads
    <3>2. CameWith(s, << >>)
      BY <2>2, Empty DEF CameWith
    <3> QED BY <3>1, <3>2
  <2> QED BY <2>1, <2>2
<1>7. IF Fine(s)
        THEN /\ index' = Len(WordsUpTo(meant)[k]) + 1
             /\ normalized' = ToldUpTo(meant)[k]
             /\ UNCHANGED <<phase, plan>>
        ELSE phase' = "refused" /\ UNCHANGED <<index, normalized, plan>>
  BY <1>4, <1>6, Collecting DEF IsTyped, Behind
<1> QED BY <1>1, <1>7 DEF Behind

(* A step at another option copies its first word.                         *)
LEMMA NormalizeOther ==
  ASSUME IsTyped, NEW k \in 1..Count(meant), Behind(k - 1),
         ~Packed(meant.settings[k].flag), Normalize
  PROVE  /\ Fine(meant.settings[k])
         /\ Behind(k)' \/ Within(k)'
         /\ UNCHANGED <<phase, plan>>
<1> DEFINE s == meant.settings[k]
           word == args[index]
           w == Written(s)
           before == Len(WordsUpTo(meant)[k - 1])
           upTo == Len(WordsUpTo(meant)[k])
<1>1. /\ s \in Setting /\ UNCHANGED meant /\ Len(s.values) \in Nat
      /\ Len(s.values) <= Takes(s.flag) /\ Takes(s.flag) \in {0, 1}
      /\ s.joined \in BOOLEAN
  <2>1. /\ s \in Setting /\ UNCHANGED meant /\ Len(s.values) \in Nat
        /\ Len(s.values) <= Takes(s.flag)
    BY LineIs DEF IsTyped, Normalize
  <2>2. s.joined \in BOOLEAN
    BY <2>1 DEF Setting
  <2>3. ~Packed(s.flag)
    OBVIOUS
  <2> QED BY <2>1, <2>2, <2>3, Arities
<1>2. /\ Len(w) >= 1 /\ Len(w) \in Nat /\ before \in Nat /\ upTo = before + Len(w)
      /\ \A p \in 1..Len(w) : args[before + p] = w[p]
  BY Placing DEF Placed, IsTyped
<1>3. word = w[1] /\ index = before + 1
  <2>1. 1 \in 1..Len(w)
    BY <1>2
  <2> QED BY <1>2, <2>1 DEF Behind
<1>4. Leads(s, word) /\ Spelled(s, w) /\ ~Packed(s.flag)
  BY <1>1, <1>3, Leading, Spelling
<1>5. (CASE Joined(word) -> Collect(word[1], <<After(word, Equals)>>)
         [] Bare(word)   -> Collect(word[1], << >>)
         [] OTHER -> /\ normalized' = Append(normalized, word)
                     /\ index' = index + 1
                     /\ UNCHANGED <<phase, plan>>)
  BY DEF Normalize
<1>6. Fine(s)
  BY <1>4 DEF Fine
<1>7. /\ ToldUpTo(meant)[k] = ToldUpTo(meant)[k - 1] \o Told(s)
      /\ ToldUpTo(meant)[k - 1] \in Seq(Word)
      /\ normalized = ToldUpTo(meant)[k - 1] /\ Told(s) = w
  BY <1>4, Telling DEF IsTyped, Behind, Told
<1> HIDE DEF word, w, before, upTo, s
<1>8. ~Joined(word) /\ ~Bare(word)
  BY <1>4 DEF Leads
<1>9. /\ normalized' = Append(normalized, word)
      /\ index' = before + 2
      /\ UNCHANGED <<phase, plan>>
  BY <1>2, <1>3, <1>5, <1>8
<1>10. CASE Len(w) = 1
  <2>1. w = <<word>>
    BY <1>3, <1>4, <1>10 DEF Spelled
  <2>2. Append(normalized, word) = normalized \o <<word>>
    BY <1>7
  <2>3. normalized' = ToldUpTo(meant)[k] /\ index' = upTo + 1
    BY <1>2, <1>7, <1>9, <1>10, <2>1, <2>2
  <2>4. Behind(k)'
    BY <1>1, <2>3 DEF Behind, upTo
  <2> QED BY <1>6, <1>9, <2>4 DEF s
<1>11. CASE Len(w) # 1
  <2>1. ~s.joined /\ Len(s.values) = 1
    <3>1. Len(s.values) = 0 => Len(w) = 1
      BY <1>4 DEF Spelled
    <3>2. Len(s.values) \in {0, 1}
      <4>1. ASSUME NEW y \in Nat, NEW z \in {0, 1}, y <= z PROVE y \in {0, 1}
        BY <4>1
      <4> QED BY <1>1, <4>1
    <3>3. Len(s.values) # 0 /\ s.joined => Len(w) = Len(s.values)
      BY <1>4 DEF Spelled
    <3> QED BY <1>11, <3>1, <3>2, <3>3
  <2>2. word = <<s.flag>>
    BY <1>4, <2>1 DEF Leads
  <2>3. Within(k)'
    BY <1>1, <1>4, <1>7, <1>9, <2>1, <2>2 DEF Within, s, before
  <2> QED BY <1>6, <1>9, <2>3 DEF s
<1> QED BY <1>10, <1>11

(* A step at the value behind such an option copies it, since it does not  *)
(* look like a packed one.                                                 *)
LEMMA NormalizeValue ==
  ASSUME IsTyped, NEW k \in 1..Count(meant), Within(k), Normalize
  PROVE  Behind(k)' /\ UNCHANGED <<phase, plan>>
<1> DEFINE s == meant.settings[k]
           word == args[index]
           w == Written(s)
           before == Len(WordsUpTo(meant)[k - 1])
           upTo == Len(WordsUpTo(meant)[k])
<1>1. /\ s \in Setting /\ UNCHANGED meant
      /\ ~Packed(s.flag) /\ ~s.joined /\ Len(s.values) = 1
      /\ index = before + 2 /\ normalized = Append(ToldUpTo(meant)[k - 1], <<s.flag>>)
  BY LineIs DEF IsTyped, Normalize, Within
<1>2. /\ Len(w) \in Nat /\ before \in Nat /\ upTo = before + Len(w)
      /\ \A p \in 1..Len(w) : args[before + p] = w[p]
  BY Placing DEF Placed, IsTyped
<1>3. Len(w) = 2 /\ w[1] = <<s.flag>> /\ w[2] = s.values[1] /\ w \in Seq(Word)
  <2>1. Spelled(s, w)
    BY <1>1, Spelling
  <2> HIDE DEF w, s
  <2> QED BY <1>1, <2>1 DEF Spelled
<1>4. word = s.values[1]
  <2>1. 2 \in 1..Len(w) /\ index = before + 2
    BY <1>1, <1>3
  <2>2. args[before + 2] = w[2]
    BY <1>2, <2>1
  <2> QED BY <1>3, <2>1, <2>2
<1>5. ~TakenForPacked(word)
  <2>1. /\ Len(s.values) <= Takes(s.flag)
        /\ Takes(s.flag) = 1 /\ ~s.joined => \A v \in 1..Len(s.values) : ~TakenForPacked(s.values[v])
    BY LineIs DEF IsTyped
  <2>2. Takes(s.flag) \in {0, 1}
    BY <1>1, Arities
  <2>3. Takes(s.flag) = 1 /\ 1 \in 1..Len(s.values)
    BY <1>1, <2>1, <2>2
  <2> QED BY <1>1, <1>4, <2>1, <2>3
<1>6. /\ ToldUpTo(meant)[k] = ToldUpTo(meant)[k - 1] \o Told(s)
      /\ ToldUpTo(meant)[k - 1] \in Seq(Word) /\ Told(s) = w
  BY <1>1, Telling DEF IsTyped, Told
<1>7. /\ normalized' = Append(normalized, word)
      /\ index' = index + 1
      /\ UNCHANGED <<phase, plan>>
  <2>1. (CASE Joined(word) -> Collect(word[1], <<After(word, Equals)>>)
           [] Bare(word)   -> Collect(word[1], << >>)
           [] OTHER -> /\ normalized' = Append(normalized, word)
                       /\ index' = index + 1
                       /\ UNCHANGED <<phase, plan>>)
    BY DEF Normalize
  <2> HIDE DEF word
  <2> QED BY <1>5, <2>1 DEF TakenForPacked
<1>8. w = <<<<s.flag>>, word>>
  <2>1. ASSUME NEW y \in Seq(Word), Len(y) = 2 PROVE y = <<y[1], y[2]>>
    BY <2>1
  <2>2. w = <<w[1], w[2]>>
    <3> HIDE DEF w
    <3> QED BY <1>3, <2>1
  <2> HIDE DEF w
  <2> QED BY <1>3, <1>4, <2>2
<1> DEFINE f == <<s.flag>>
           told == ToldUpTo(meant)[k - 1]
<1>9. f \in Word /\ word \in Word /\ told \in Seq(Word) /\ w = <<f, word>>
      /\ normalized = Append(told, f)
  <2>1. s.flag \in Flags /\ s.values \in Seq(Word) /\ 1 \in 1..Len(s.values)
    BY <1>1 DEF Setting
  <2> QED BY <1>1, <1>4, <1>6, <1>8, <2>1, FlagWord
<1> HIDE DEF f, told, word, w, before, upTo
<1>10. Append(Append(told, f), word) = told \o <<f, word>>
  BY <1>9
<1>11. normalized' = ToldUpTo(meant)[k] /\ index' = upTo + 1
  BY <1>1, <1>2, <1>3, <1>6, <1>7, <1>9, <1>10 DEF told
<1> QED BY <1>1, <1>7, <1>11 DEF Behind, upTo

-----------------------------------------------------------------------------
(* What the option parser makes of the words from one of them on, given    *)
(* what it makes of those from the next on and from the second next.       *)
FromHere(sub, words, n, next, second) ==
  LET word == words[n]
      flag == IF word = << >> THEN Invalid ELSE word[1]
  IN  CASE Len(word) = 1 /\ flag \in Switches(sub) ->
             << <<flag, << >> >> >> \o next
        [] Len(word) > 1 /\ flag \in Valued(sub) /\ word[2] = Equals ->
             << <<flag, After(word, Equals)>> >> \o next
        [] Len(word) = 1 /\ flag \in Valued(sub) /\ n < Len(words) ->
             << <<flag, words[n + 1]>> >> \o second
        [] OTHER ->
             << <<Invalid, word>> >> \o next

(* Options as the parser finds them.                                       *)
Found(words) ==
  (Flags \union {Invalid}) \X
  (Word \union {After(words[n], Equals) : n \in 1..Len(words)})

(* What the option parser finds from each word on.                         *)
Scan(f, sub, words) ==
  f = [n \in 1..(Len(words) + 2) |->
         IF n > Len(words) THEN << >>
         ELSE FromHere(sub, words, n, f[n + 1], f[n + 2])]

(* Each of them gives options.                                             *)
LEMMA Scanned ==
  ASSUME NEW sub \in Subcommands, NEW words \in Seq(Word), NEW n \in 1..Len(words),
         NEW next \in Seq(Found(words)), NEW second \in Seq(Found(words))
  PROVE  FromHere(sub, words, n, next, second) \in Seq(Found(words))
<1> DEFINE O == Found(words)
           word == words[n]
           flag == IF word = << >> THEN Invalid ELSE word[1]
<1>1. word \in Word /\ (n < Len(words) => words[n + 1] \in Word) /\ Len(words) \in Nat
  <2>1. Len(words) \in Nat /\ (n < Len(words) => n + 1 \in 1..Len(words))
    OBVIOUS
  <2> QED BY <2>1, ElementOfSeq
<1>2. ASSUME NEW o \in O, NEW s \in Seq(O) PROVE <<o>> \o s \in Seq(O)
  OBVIOUS
<1>3. /\ Switches(sub) \subseteq Flags /\ Valued(sub) \subseteq Flags
      /\ << >> \in Word
  BY FlagsAre DEF Word
<1>4. /\ \A f \in Flags, v \in Word : <<f, v>> \in O
      /\ \A f \in Flags : <<f, After(word, Equals)>> \in O
      /\ <<Invalid, word>> \in O
  BY <1>1 DEF Found
<1>5. FromHere(sub, words, n, next, second) =
        CASE Len(word) = 1 /\ flag \in Switches(sub) ->
               << <<flag, << >> >> >> \o next
          [] Len(word) > 1 /\ flag \in Valued(sub) /\ word[2] = Equals ->
               << <<flag, After(word, Equals)>> >> \o next
          [] Len(word) = 1 /\ flag \in Valued(sub) /\ n < Len(words) ->
               << <<flag, words[n + 1]>> >> \o second
          [] OTHER ->
               << <<Invalid, word>> >> \o next
  BY DEF FromHere
<1>6. next \in Seq(O) /\ second \in Seq(O)
  OBVIOUS
<1> HIDE DEF O, word, flag
<1> DEFINE J(o, s) == <<o>> \o s
<1>7. \A o \in O, s \in Seq(O) : J(o, s) \in Seq(O)
  BY <1>2
<1>8. FromHere(sub, words, n, next, second) =
        CASE Len(word) = 1 /\ flag \in Switches(sub) ->
               J(<<flag, << >> >>, next)
          [] Len(word) > 1 /\ flag \in Valued(sub) /\ word[2] = Equals ->
               J(<<flag, After(word, Equals)>>, next)
          [] Len(word) = 1 /\ flag \in Valued(sub) /\ n < Len(words) ->
               J(<<flag, words[n + 1]>>, second)
          [] OTHER ->
               J(<<Invalid, word>>, next)
  BY <1>5
<1> HIDE DEF J
<1>9. FromHere(sub, words, n, next, second) \in Seq(O)
  BY <1>1, <1>3, <1>4, <1>6, <1>7, <1>8
<1> QED BY <1>9 DEF O

(* No options are options.                                                 *)
LEMMA EmptyIn ==
  ASSUME NEW S
  PROVE  << >> \in Seq(S)
OBVIOUS

(* There is what the parser computes from the last word to the first,      *)
LEMMA ScanExists ==
  ASSUME NEW sub \in Subcommands, NEW words \in Seq(Word)
  PROVE  \E f : Scan(f, sub, words)
<1> DEFINE O == Found(words)
           T == Seq(O) \X Seq(O)
           l == Len(words)
           g == [k \in 1..l |-> [x \in T |-> <<x[2], FromHere(sub, words, l + 1 - k, x[2], x[1])>>]]
           start == << << >>, << >> >>
<1>1. l \in Nat /\ start \in T
  <2>1. << >> \in Seq(O)
    BY EmptyIn
  <2>2. l \in Nat
    OBVIOUS
  <2> HIDE DEF O, l
  <2>3. ASSUME NEW s \in Seq(O) PROVE <<s, s>> \in Seq(O) \X Seq(O)
    OBVIOUS
  <2> QED BY <2>1, <2>2, <2>3
<1>2. ASSUME NEW x \in T, NEW k \in 1..l
      PROVE  /\ g[k][x] = <<x[2], FromHere(sub, words, l + 1 - k, x[2], x[1])>>
             /\ g[k][x] \in T
  <2>1. x[1] \in Seq(O) /\ x[2] \in Seq(O) /\ l + 1 - k \in 1..l
    BY <1>1
  <2>2. FromHere(sub, words, l + 1 - k, x[2], x[1]) \in Seq(O)
    <3> HIDE DEF O
    <3> QED BY <2>1, Scanned DEF O
  <2>3. g[k][x] = <<x[2], FromHere(sub, words, l + 1 - k, x[2], x[1])>>
    OBVIOUS
  <2> HIDE DEF g, O
  <2> QED BY <2>1, <2>2, <2>3
<1> HIDE DEF O, l, g, start
<1>3. PICK e : Computed(e, T, start, g, l)
  <2>1. \A x \in T, k \in 1..l : g[k][x] \in T
    BY <1>2
  <2> HIDE DEF T
  <2> QED BY <1>1, <2>1, Recursion
<1> DEFINE f == [n \in 1..(l + 2) |-> IF n = l + 2 THEN << >> ELSE e[l + 1 - n][2]]
<1>4. e[0] = << << >>, << >> >>
  BY <1>3 DEF Computed, start
<1>5. ASSUME NEW k \in 0..l PROVE e[k] \in T /\ e[k][1] \in Seq(O) /\ e[k][2] \in Seq(O)
  <2>1. e[k] \in T
    BY <1>3 DEF Computed
  <2> QED BY <2>1
<1>6. ASSUME NEW k \in 1..l
      PROVE  /\ e[k][1] = e[k - 1][2]
             /\ e[k][2] = FromHere(sub, words, l + 1 - k, e[k - 1][2], e[k - 1][1])
  <2>1. k - 1 \in 0..l
    BY <1>1
  <2>2. e[k - 1] \in T
    BY <1>5, <2>1
  <2>3. e[k] = g[k][e[k - 1]]
    BY <1>3 DEF Computed
  <2>4. e[k] = <<e[k - 1][2], FromHere(sub, words, l + 1 - k, e[k - 1][2], e[k - 1][1])>>
    BY <1>2, <2>2, <2>3
  <2> QED BY <2>4
<1>7. f[l + 2] = << >> /\ \A n \in 1..(l + 1) : f[n] = e[l + 1 - n][2] /\ l + 1 - n \in 0..l
  BY <1>1
<1>8. f[l + 1] = << >>
  <2>1. l + 1 \in 1..(l + 1) /\ l + 1 - (l + 1) = 0
    BY <1>1
  <2> QED BY <1>4, <1>7, <2>1
<1>9. f = [n \in 1..(l + 2) |-> f[n]]
  OBVIOUS
<1> HIDE DEF f
<1>10. ASSUME NEW n \in 1..l PROVE f[n] = FromHere(sub, words, n, f[n + 1], f[n + 2])
  <2> DEFINE k == l + 1 - n
  <2>1. /\ k \in 1..l /\ l + 1 - k = n /\ n \in 1..(l + 1) /\ n + 1 \in 1..(l + 1)
        /\ l + 1 - (n + 1) = k - 1
    BY <1>1
  <2>2. f[n] = FromHere(sub, words, n, e[k - 1][2], e[k - 1][1])
    BY <1>6, <1>7, <2>1
  <2>3. f[n + 1] = e[k - 1][2]
    BY <1>7, <2>1
  <2>4. f[n + 2] = e[k - 1][1]
    <3>1. CASE n = l
      <4>1. k - 1 = 0 /\ n + 2 = l + 2
        BY <1>1, <3>1
      <4> QED BY <1>4, <1>7, <4>1
    <3>2. CASE n # l
      <4>1. k - 1 \in 1..l /\ n + 2 \in 1..(l + 1) /\ l + 1 - (n + 2) = (k - 1) - 1
        BY <1>1, <3>2
      <4> HIDE DEF k
      <4>2. f[n + 2] = e[(k - 1) - 1][2]
        BY <1>7, <4>1
      <4> QED BY <1>6, <4>1, <4>2
    <3> QED BY <3>1, <3>2
  <2> QED BY <2>2, <2>3, <2>4
<1>11. Scan(f, sub, words)
  <2>1. ASSUME NEW n \in 1..(l + 2)
        PROVE  f[n] = IF n > l THEN << >> ELSE FromHere(sub, words, n, f[n + 1], f[n + 2])
    <3>1. CASE n > l
      <4>1. n = l + 1 \/ n = l + 2
        BY <1>1, <3>1
      <4> QED BY <1>7, <1>8, <3>1, <4>1
    <3>2. CASE ~(n > l)
      <4>1. n \in 1..l
        BY <1>1, <3>2
      <4> QED BY <1>10, <3>2, <4>1
    <3> QED BY <3>1, <3>2
  <2> QED BY <1>9, <2>1 DEF Scan, l
<1> QED BY <1>11

(* What is found from each of the words on.                                *)
Reads(f, sub, words) ==
  /\ Options(sub, words) = f[2]
  /\ \A n \in 1..(Len(words) + 2) : f[n] \in Seq(Found(words))
  /\ f[Len(words) + 1] = << >>
  /\ \A n \in 1..Len(words) : f[n] = FromHere(sub, words, n, f[n + 1], f[n + 2])

(* and this is what Options finds with it.                                 *)
LEMMA Reading ==
  ASSUME NEW sub \in Subcommands, NEW words \in Seq(Word)
  PROVE  \E f : Reads(f, sub, words)
<1> DEFINE F == CHOOSE f : Scan(f, sub, words)
           l == Len(words)
<1>1. PICK e : Scan(e, sub, words)
  BY ScanExists
<1>2. Scan(F, sub, words)
  BY <1>1
<1>3. Options(sub, words) = F[2]
  BY DEF Options, Scan, FromHere
<1> HIDE DEF F, l
<1>4. l \in Nat
  BY DEF l
<1>5. /\ F[l + 1] = << >> /\ F[l + 2] = << >>
      /\ \A n \in 1..l : F[n] = FromHere(sub, words, n, F[n + 1], F[n + 2])
  <2>1. /\ l + 1 \in 1..(l + 2) /\ l + 2 \in 1..(l + 2) /\ l + 1 > l /\ l + 2 > l
        /\ \A n \in 1..l : n \in 1..(l + 2) /\ ~(n > l)
    BY <1>4
  <2>2. F = [n \in 1..(l + 2) |->
               IF n > l THEN << >> ELSE FromHere(sub, words, n, F[n + 1], F[n + 2])]
    BY <1>2 DEF Scan, l
  <2> QED BY <2>1, <2>2
<1> DEFINE S == {k \in Nat : k <= l => F[l + 1 - k] \in Seq(Found(words))
                                       /\ F[l + 2 - k] \in Seq(Found(words))}
<1>6. 0 \in S
  <2>1. l + 1 - 0 = l + 1 /\ l + 2 - 0 = l + 2
    BY <1>4
  <2>2. << >> \in Seq(Found(words))
    BY EmptyIn
  <2> QED BY <1>5, <2>1, <2>2
<1>7. ASSUME NEW k \in Nat, k \in S PROVE k + 1 \in S
  <2> SUFFICES ASSUME k + 1 <= l
               PROVE  F[l + 1 - (k + 1)] \in Seq(Found(words)) /\ F[l + 2 - (k + 1)] \in Seq(Found(words))
    OBVIOUS
  <2> DEFINE n == l + 1 - (k + 1)
  <2>1. n \in 1..l /\ n + 1 = l + 1 - k /\ n + 2 = l + 2 - k /\ l + 2 - (k + 1) = n + 1
    BY <1>4
  <2>2. F[n + 1] \in Seq(Found(words)) /\ F[n + 2] \in Seq(Found(words))
    BY <1>4, <1>7, <2>1
  <2> HIDE DEF n
  <2>3. F[n] \in Seq(Found(words))
    BY <1>5, <2>1, <2>2, Scanned DEF l
  <2> QED BY <2>1, <2>2, <2>3 DEF n
<1> HIDE DEF S
<1>8. \A k \in Nat : k \in S
  BY <1>6, <1>7, Induction
<1>9. ASSUME NEW n \in 1..(l + 2) PROVE F[n] \in Seq(Found(words))
  <2>1. CASE n = l + 2
    BY <1>5, <2>1, EmptyIn
  <2>2. CASE n # l + 2
    <3>1. l + 1 - n \in Nat /\ l + 1 - n <= l /\ l + 1 - (l + 1 - n) = n
      BY <1>4, <2>2
    <3>2. l + 1 - n \in S
      BY <1>8, <3>1
    <3> QED BY <3>1, <3>2 DEF S
  <2> QED BY <2>1, <2>2
<1>10. Reads(F, sub, words)
  BY <1>3, <1>5, <1>9 DEF Reads, l
<1> QED BY <1>10

(* Where what was told of a setting is.                                    *)
Sits(typed, k) ==
  LET words  == ToldUpTo(typed)[Count(typed)]
      before == Len(ToldUpTo(typed)[k - 1])
      upTo   == Len(ToldUpTo(typed)[k])
      w      == Told(typed.settings[k])
  IN  /\ words \in Seq(Word) /\ Len(words) \in Nat
      /\ before \in Nat /\ before >= 1 /\ Len(w) \in Nat /\ w \in Seq(Word)
      /\ upTo = before + Len(w) /\ upTo <= Len(words)
      /\ k = Count(typed) => upTo = Len(words)
      /\ \A p \in 1..Len(w) : words[before + p] = w[p]

(* It is behind what was told of the settings before it.                   *)
LEMMA Sitting ==
  ASSUME NEW typed \in CommandLines, NEW k \in 1..Count(typed)
  PROVE  Sits(typed, k)
<1> DEFINE c == ToldUpTo(typed)
           n == Count(typed)
           w == Told(typed.settings[k])
           v == Tellings(typed)
<1>1. Joins(c, v, n) /\ c[0] = Start(typed) /\ n \in Nat
  BY LineCats, LineIs
<1>2. v[k] = w
  BY DEF Tellings
<1>3. /\ Len(c[k]) = Len(c[k - 1]) + Len(w)
      /\ Len(c[k - 1]) \in Nat /\ Len(w) \in Nat
      /\ Len(c[k]) <= Len(c[n])
      /\ \A p \in 1..Len(w) : c[n][Len(c[k - 1]) + p] = w[p]
  <2>1. k \in 1..n /\ Joins(c, v, n)
    BY <1>1
  <2> HIDE DEF c, n, w, v
  <2>2. Lies(c, v, n, k)
    BY <2>1, CatAt
  <2> QED BY <1>2, <2>2 DEF Lies
<1>4. c[n] \in Seq(Word) /\ Len(c[n]) \in Nat /\ w \in Seq(Word)
  <2>1. k \in 1..n
    OBVIOUS
  <2> HIDE DEF c, n, w, v
  <2>2. n \in 0..n
    BY <1>1
  <2>3. c[n] \in Seq(Word) /\ w \in Seq(Word)
    BY <1>1, <1>2, <2>1, <2>2 DEF Joins
  <2> QED BY <2>3, LenProperties
<1>5. Len(c[0]) = 1 /\ Len(c[0]) <= Len(c[k - 1])
  <2>1. Len(c[0]) = 1 /\ k \in 1..n
    BY <1>1 DEF Start
  <2> HIDE DEF c, n, v
  <2>2. 0 \in 0..n /\ k - 1 \in 0..n /\ k - 1 \in 0..n
    BY <1>1, <2>1
  <2> QED BY <1>1, <2>1, <2>2, CatPrefix
<1> QED BY <1>3, <1>4, <1>5 DEF Sits

(* The option that a setting is, for a command that knows it.              *)
Opt(s) ==
  <<s.flag, IF Packed(s.flag) THEN Pack(s.values)
            ELSE IF Len(s.values) = 0 THEN << >> ELSE s.values[1]>>

(* A setting that the command has, with all its values.                    *)
Known(sub, s) ==
  /\ s.flag \in Valued(sub) \union Switches(sub)
  /\ s.flag \in Valued(sub) => Len(s.values) = Arity(s.flag)

(* What the parser finds where a setting begins.                           *)
Continues(typed, f, k) ==
  LET words == ToldUpTo(typed)[Count(typed)]
      s     == typed.settings[k]
      here  == Len(ToldUpTo(typed)[k - 1]) + 1
      after == Len(ToldUpTo(typed)[k]) + 1
  IN  /\ f[here] \in Seq(Found(words)) /\ f[here + 1] \in Seq(Found(words))
      /\ f[after] \in Seq(Found(words))
      /\ IF Known(typed.command, s)
           THEN f[here] = <<Opt(s)>> \o f[after]
           ELSE \E w : f[here] = << <<Invalid, w>> >> \o f[here + 1]

(* At each setting the parser finds its option, whatever its value looks   *)
(* like, and goes on at the next; or it finds something invalid if the     *)
(* command does not know the setting.                                      *)
LEMMA Continuing ==
  ASSUME NEW typed \in CommandLines, NEW k \in 1..Count(typed),
         Fine(typed.settings[k]),
         NEW f, Reads(f, typed.command, ToldUpTo(typed)[Count(typed)])
  PROVE  Continues(typed, f, k)
<1> DEFINE sub    == typed.command
           words  == ToldUpTo(typed)[Count(typed)]
           s      == typed.settings[k]
           l      == Len(words)
           before == Len(ToldUpTo(typed)[k - 1])
           upTo   == Len(ToldUpTo(typed)[k])
           w      == Told(s)
           lw     == Len(w)
           here   == before + 1
           after  == upTo + 1
           m      == Len(s.values)
           word   == words[here]
<1>1. /\ sub \in Subcommands /\ s \in Setting /\ m \in Nat /\ m <= Takes(s.flag)
      /\ (k # Count(typed) => m = Takes(s.flag))
  <2>1. k # Count(typed) => k < Count(typed)
    BY LineIs
  <2> QED BY <2>1, LineIs
<1>2. s.flag \in Flags /\ s.joined \in BOOLEAN /\ s.values \in Seq(Word)
  BY <1>1 DEF Setting
<1>3. /\ l \in Nat /\ before \in Nat /\ before >= 1 /\ lw \in Nat /\ upTo = before + lw
      /\ upTo <= l /\ (k = Count(typed) => upTo = l)
      /\ \A p \in 1..lw : words[before + p] = w[p]
  BY Sitting DEF Sits
<1>4. /\ Options(sub, words) = f[2]
      /\ \A n \in 1..(l + 2) : f[n] \in Seq(Found(words))
      /\ f[l + 1] = << >>
      /\ \A n \in 1..l : f[n] = FromHere(sub, words, n, f[n + 1], f[n + 2])
  BY DEF Reads
<1>5. Continues(typed, f, k) <=>
        /\ f[here] \in Seq(Found(words)) /\ f[here + 1] \in Seq(Found(words))
        /\ f[after] \in Seq(Found(words))
        /\ IF Known(sub, s)
             THEN f[here] = <<Opt(s)>> \o f[after]
             ELSE \E x : f[here] = << <<Invalid, x>> >> \o f[here + 1]
  BY DEF Continues
<1>6. Fine(s)
  OBVIOUS
<1>7. Spelled(s, Written(s))
  BY <1>1, Spelling
<1>8. lw >= 1
  <2> HIDE DEF s
  <2>1. CASE Packed(s.flag)
    BY <1>6, <2>1 DEF Told
  <2>2. CASE ~Packed(s.flag)
    <3>1. w = Written(s)
      BY <2>2 DEF Told
    <3> QED BY <1>1, <1>2, <1>7, <3>1 DEF Spelled
  <2> QED BY <2>1, <2>2
<1> HIDE DEF sub, words, s, l, before, upTo, w, lw, word, m
<1>9. /\ here \in 1..l /\ here + 1 \in 1..(l + 2) /\ after \in 1..(l + 2) /\ here \in 1..(l + 2)
      /\ word = w[1]
  <2>1. /\ here \in 1..l /\ here + 1 \in 1..(l + 2) /\ after \in 1..(l + 2) /\ here \in 1..(l + 2)
        /\ 1 \in 1..lw
    BY <1>3, <1>8
  <2>2. words[before + 1] = w[1]
    BY <1>3, <2>1
  <2> QED BY <2>1, <2>2 DEF word
<1>10. /\ f[here] \in Seq(Found(words)) /\ f[here + 1] \in Seq(Found(words))
       /\ f[after] \in Seq(Found(words))
       /\ f[here] = FromHere(sub, words, here, f[here + 1], f[here + 2])
  BY <1>4, <1>9
<1> DEFINE flag == IF word = << >> THEN Invalid ELSE word[1]
<1>11. f[here] =
        CASE Len(word) = 1 /\ flag \in Switches(sub) ->
               << <<flag, << >> >> >> \o f[here + 1]
          [] Len(word) > 1 /\ flag \in Valued(sub) /\ word[2] = Equals ->
               << <<flag, After(word, Equals)>> >> \o f[here + 1]
          [] Len(word) = 1 /\ flag \in Valued(sub) /\ here < l ->
               << <<flag, words[here + 1]>> >> \o f[here + 2]
          [] OTHER ->
               << <<Invalid, word>> >> \o f[here + 1]
  BY <1>10 DEF FromHere, word, l
<1>12. /\ s.flag \in Switches(sub) => Takes(s.flag) = 0 /\ ~Packed(s.flag) /\ s.flag \notin Valued(sub)
       /\ s.flag \in Valued(sub) => Takes(s.flag) = Arity(s.flag)
       /\ ~Packed(s.flag) => Arity(s.flag) = 1
       /\ Arity(s.flag) \in {1, 2, 3}
  BY <1>1, Arities
(* With an equals sign.                                                    *)
<1>13. ASSUME NEW v \in Word, word = <<s.flag, Equals>> \o v, lw = 1, Opt(s) = <<s.flag, v>>,
              m = Arity(s.flag)
       PROVE  Continues(typed, f, k)
  <2>1. CarriesValue(word, s.flag, v)
    BY <1>2, <1>13, JoinedWord
  <2>2. Len(word) > 1 /\ Len(word) # 1 /\ word[1] = s.flag /\ word[2] = Equals /\ After(word, Equals) = v
        /\ word # << >>
    <3>1. Len(word) = Len(v) + 2 /\ Len(v) \in Nat
      BY <2>1 DEF CarriesValue
    <3>2. Len(<< >>) = 0
      OBVIOUS
    <3>3. Len(word) > 1 /\ Len(word) # 1 /\ Len(word) # 0
      BY <3>1
    <3> QED BY <2>1, <3>2, <3>3 DEF CarriesValue
  <2>3. flag = s.flag
    BY <2>2
  <2>4. here + 1 = after
    BY <1>3, <1>13
  <2>5. Known(sub, s) <=> s.flag \in Valued(sub)
    <3>1. s.flag \in Switches(sub) => Takes(s.flag) # Arity(s.flag)
      BY <1>12
    <3>2. m <= Takes(s.flag) /\ m = Arity(s.flag) /\ Arity(s.flag) >= 1
      BY <1>1, <1>12, <1>13
    <3>3. s.flag \notin Switches(sub)
      BY <1>12, <3>2
    <3> QED BY <1>13, <3>3 DEF Known, m
  <2> HIDE DEF flag, here, after
  <2>6. CASE s.flag \in Valued(sub)
    <3>1. f[here] = << <<flag, v>> >> \o f[here + 1]
      BY <1>11, <2>2, <2>3, <2>6
    <3> QED BY <1>5, <1>10, <1>13, <2>3, <2>4, <2>5, <2>6, <3>1
  <2>7. CASE s.flag \notin Valued(sub)
    <3>1. f[here] = << <<Invalid, word>> >> \o f[here + 1]
      BY <1>11, <2>2, <2>3, <2>7
    <3> QED BY <1>5, <1>10, <2>5, <2>7, <3>1
  <2> QED BY <2>6, <2>7
(* A flag alone.                                                           *)
<1>14. ASSUME word = <<s.flag>>, ~Packed(s.flag)
       PROVE  flag = s.flag /\ Len(word) = 1
  BY <1>14
<1>15. CASE Packed(s.flag)
  <2> DEFINE v == Pack(s.values)
  <2>1. v \in Word /\ m = Arity(s.flag)
    BY <1>1, <1>6, <1>15, Packing DEF Fine, m
  <2>2. w = << <<s.flag, Equals>> \o v >>
    BY <1>6, <1>15 DEF Told, w
  <2>3. lw = 1 /\ word = <<s.flag, Equals>> \o v
    BY <1>9, <2>2 DEF lw
  <2>4. Opt(s) = <<s.flag, v>>
    BY <1>15 DEF Opt
  <2> HIDE DEF v
  <2> QED BY <1>13, <2>1, <2>3, <2>4
<1>16. CASE ~Packed(s.flag) /\ m # 0 /\ s.joined
  <2> DEFINE v == s.values[1]
  <2>1. w = Written(s) /\ Arity(s.flag) = 1
    BY <1>12, <1>16 DEF Told, w
  <2>2. m = 1
    <3>1. Takes(s.flag) \in {0, 1}
      BY <2>1, Arities
    <3> QED BY <1>1, <1>16, <3>1
  <2>3. v \in Word
    <3>1. 1 \in 1..Len(s.values)
      BY <2>2 DEF m
    <3> QED BY <1>2, <3>1, ElementOfSeq
  <2>4. lw = 1 /\ word = <<s.flag, Equals>> \o v
    BY <1>7, <1>9, <1>16, <2>1, <2>2 DEF Spelled, m, lw
  <2>5. Opt(s) = <<s.flag, v>>
    BY <1>16 DEF Opt, m
  <2> HIDE DEF v
  <2> QED BY <1>13, <2>1, <2>2, <2>3, <2>4, <2>5
<1>17. CASE ~Packed(s.flag) /\ m = 0
  <2>1. w = Written(s) /\ Arity(s.flag) = 1
    BY <1>12, <1>17 DEF Told, w
  <2>2. lw = 1 /\ word = <<s.flag>>
    BY <1>7, <1>9, <1>17, <2>1 DEF Spelled, m, lw
  <2>3. flag = s.flag /\ Len(word) = 1 /\ here + 1 = after
    BY <1>3, <1>14, <1>17, <2>2
  <2>4. s.flag \in Valued(sub) => here = l
    <3> SUFFICES ASSUME s.flag \in Valued(sub) PROVE here = l
      OBVIOUS
    <3>1. m # Takes(s.flag)
      BY <1>12, <1>17, <2>1
    <3> QED BY <1>1, <1>3, <2>2, <3>1
  <2>5. Known(sub, s) <=> s.flag \in Switches(sub)
    BY <1>12, <1>17, <2>1 DEF Known, m
  <2>6. here # l \/ ~(here < l)
    BY <1>3
  <2> HIDE DEF flag, here, after
  <2>7. CASE s.flag \in Switches(sub)
    <3>a. s.flag \notin Valued(sub) /\ ~(Len(word) > 1)
      BY <1>12, <2>3, <2>7
    <3>1. f[here] = << <<flag, << >> >> >> \o f[here + 1]
      BY <1>11, <2>3, <2>7, <3>a
    <3>2. Opt(s) = <<s.flag, << >> >>
      BY <1>17 DEF Opt, m
    <3> QED BY <1>5, <1>10, <2>3, <2>5, <2>7, <3>1, <3>2
  <2>8. CASE s.flag \notin Switches(sub)
    <3>1. ~(Len(word) > 1) /\ ~(s.flag \in Valued(sub) /\ here < l)
      BY <2>3, <2>4, <2>6
    <3>2. f[here] = << <<Invalid, word>> >> \o f[here + 1]
      BY <1>11, <2>3, <2>8, <3>1
    <3> QED BY <1>5, <1>10, <2>5, <2>8, <3>2
  <2> QED BY <2>7, <2>8
<1>18. CASE ~Packed(s.flag) /\ m # 0 /\ ~s.joined
  <2>1. w = Written(s) /\ Arity(s.flag) = 1
    BY <1>12, <1>18 DEF Told, w
  <2>2. m = 1 /\ Takes(s.flag) = 1
    <3>1. Takes(s.flag) \in {0, 1}
      BY <2>1, Arities
    <3> QED BY <1>1, <1>18, <3>1
  <2>3. lw = 2 /\ word = <<s.flag>> /\ w[2] = s.values[1]
    BY <1>7, <1>9, <1>18, <2>1, <2>2 DEF Spelled, m, lw
  <2>4. flag = s.flag /\ Len(word) = 1 /\ here + 2 = after /\ here < l
    BY <1>3, <1>14, <1>18, <2>3
  <2>5. words[here + 1] = s.values[1]
    <3>1. 2 \in 1..lw /\ before + 2 = here + 1
      BY <1>3, <2>3
    <3> QED BY <1>3, <2>3, <3>1
  <2>6. s.flag \notin Switches(sub)
    BY <1>12, <2>2
  <2>7. Known(sub, s) <=> s.flag \in Valued(sub)
    BY <2>1, <2>2, <2>6 DEF Known, m
  <2> HIDE DEF flag, here, after
  <2>8. CASE s.flag \in Valued(sub)
    <3>1. f[here] = << <<flag, words[here + 1]>> >> \o f[here + 2]
      BY <1>11, <2>4, <2>6, <2>8
    <3>2. Opt(s) = <<s.flag, s.values[1]>>
      BY <1>18 DEF Opt, m
    <3> QED BY <1>5, <1>10, <2>4, <2>5, <2>7, <2>8, <3>1, <3>2
  <2>9. CASE s.flag \notin Valued(sub)
    <3>1. f[here] = << <<Invalid, word>> >> \o f[here + 1]
      BY <1>11, <2>4, <2>6, <2>9
    <3> QED BY <1>5, <1>10, <2>7, <2>9, <3>1
  <2> QED BY <2>8, <2>9
<1> QED BY <1>15, <1>16, <1>17, <1>18

(* One in front of others.                                                 *)
Prepends(o, s, u) ==
  /\ Len(s) \in Nat /\ Len(u) = Len(s) + 1 /\ u[1] = o
  /\ \A p \in 1..Len(s) : u[1 + p] = s[p]

(* One more in front moves the others by one.                              *)
LEMMA Prepended ==
  ASSUME NEW O, NEW s \in Seq(O), NEW o, NEW u, u = <<o>> \o s
  PROVE  Prepends(o, s, u)
<1> DEFINE W == O \union {o}
           h == <<o>>
<1>1. h \in Seq(W) /\ Len(h) = 1 /\ h[1] = o
  OBVIOUS
<1>2. s \in Seq(W)
  <2>1. s \in Seq(O)
    OBVIOUS
  <2> QED BY <2>1
<1> HIDE DEF W
<1>3. u = h \o s
  OBVIOUS
<1> HIDE DEF h
<1>4. Follows(W, h, s, u)
  BY <1>1, <1>2, <1>3, Longer
<1> QED BY <1>1, <1>4 DEF Follows, Prepends

(* The options of a command that knows all of them.                        *)
Meaning(typed) == [k \in 1..Count(typed) |-> Opt(typed.settings[k])]

(* The options of the first k settings, and what is found behind them.     *)
Divides(options, rest, typed, k) ==
  /\ Len(rest) \in Nat /\ Len(options) = k + Len(rest)
  /\ \A m \in 1..k : options[m] = Opt(typed.settings[m])
  /\ \A p \in 1..Len(rest) : options[k + p] = rest[p]

(* Having passed the settings that are known it has found their options.   *)
LEMMA Dividing ==
  ASSUME NEW typed \in CommandLines, NEW k \in Nat, k <= Count(typed),
         \A m \in 1..Count(typed) : Fine(typed.settings[m]),
         NEW f, Reads(f, typed.command, ToldUpTo(typed)[Count(typed)]),
         \A m \in 1..k : Known(typed.command, typed.settings[m])
  PROVE  Divides(f[2], f[Len(ToldUpTo(typed)[k]) + 1], typed, k)
<1> DEFINE c == ToldUpTo(typed)
           n == Count(typed)
           O == Found(c[n])
           Is(x) == Divides(f[2], f[Len(c[x]) + 1], typed, x)
           S == {x \in Nat : x <= k => Is(x)}
<1>1. n \in Nat /\ Joins(c, Tellings(typed), n) /\ c[0] = Start(typed)
  BY LineIs, LineCats
<1>2. 0 \in S
  <2>1. Len(c[0]) = 1
    BY <1>1 DEF Start
  <2>2. f[2] \in Seq(O)
    <3>1. Len(c[n]) \in Nat
      <4> HIDE DEF c, n
      <4>1. n \in 0..n
        BY <1>1
      <4>2. c[n] \in Seq(Word)
        BY <1>1, <4>1 DEF Joins
      <4> QED BY <4>2
    <3>2. 2 \in 1..(Len(c[n]) + 2)
      BY <3>1
    <3> HIDE DEF O
    <3> QED BY <3>2 DEF Reads, O
  <2>3. Is(0)
    <3> HIDE DEF O
    <3>1. Len(f[2]) \in Nat
      BY <2>2
    <3> HIDE DEF c
    <3>2. f[Len(c[0]) + 1] = f[2]
      BY <2>1
    <3>3. Divides(f[2], f[2], typed, 0)
      BY <3>1 DEF Divides
    <3> QED BY <3>2, <3>3
  <2> QED BY <2>3
<1>3. ASSUME NEW x \in Nat, x \in S PROVE x + 1 \in S
  <2> SUFFICES ASSUME x + 1 <= k PROVE Is(x + 1)
    OBVIOUS
  <2> DEFINE y == x + 1
  <2>1. y \in 1..n /\ y \in 1..k /\ y - 1 = x /\ Is(x)
    BY <1>1, <1>3
  <2> DEFINE s == typed.settings[y]
             old == f[Len(c[x]) + 1]
             new == f[Len(c[y]) + 1]
  <2>2. Continues(typed, f, y)
    <3> HIDE DEF y
    <3> QED BY <2>1, Continuing
  <2>3. Known(typed.command, s)
    <3> HIDE DEF y
    <3> QED BY <2>1
  <2>4. new \in Seq(O) /\ old = <<Opt(s)>> \o new
    <3> HIDE DEF y
    <3> QED BY <2>1, <2>2, <2>3 DEF Continues
  <2>5. Divides(f[2], old, typed, x)
    BY <2>1
  <2> HIDE DEF old, new, O
  <2>6. Prepends(Opt(s), new, old)
    BY <2>4, Prepended
  <2>7. /\ Len(new) \in Nat /\ Len(old) = Len(new) + 1 /\ old[1] = Opt(s)
        /\ \A p \in 1..Len(new) : old[1 + p] = new[p]
    BY <2>6 DEF Prepends
  <2>8. /\ Len(f[2]) = x + Len(old)
        /\ \A m \in 1..x : f[2][m] = Opt(typed.settings[m])
        /\ \A p \in 1..Len(old) : f[2][x + p] = old[p]
    BY <2>5 DEF Divides
  <2> HIDE DEF c, n
  <2>9. Len(f[2]) = y + Len(new)
    BY <2>7, <2>8
  <2>10. ASSUME NEW m \in 1..y PROVE f[2][m] = Opt(typed.settings[m])
    <3>1. CASE m = y
      <4>1. 1 \in 1..Len(old)
        BY <2>7
      <4> QED BY <2>7, <2>8, <3>1, <4>1
    <3>2. CASE m # y
      <4>1. m \in 1..x
        BY <3>2
      <4> QED BY <2>8, <4>1
    <3> QED BY <3>1, <3>2
  <2>11. ASSUME NEW p \in 1..Len(new) PROVE f[2][y + p] = new[p]
    <3>1. 1 + p \in 1..Len(old) /\ x + (1 + p) = y + p
      BY <2>7
    <3> QED BY <2>7, <2>8, <3>1
  <2>12. Divides(f[2], new, typed, y)
    BY <2>7, <2>9, <2>10, <2>11 DEF Divides
  <2> QED BY <2>12 DEF new
<1> HIDE DEF S
<1>4. k \in S
  BY <1>2, <1>3, Induction
<1> QED BY <1>4 DEF S

(* The parser finds the options of the settings exactly if the command     *)
(* knows all of them, and something invalid otherwise.                     *)
LEMMA OptionsAre ==
  ASSUME NEW typed \in CommandLines,
         \A k \in 1..Count(typed) : Fine(typed.settings[k]),
         NEW options, options = Options(typed.command, ToldUpTo(typed)[Count(typed)])
  PROVE  IF \A k \in 1..Count(typed) : Known(typed.command, typed.settings[k])
           THEN options = Meaning(typed)
           ELSE \E k \in DOMAIN options : options[k][1] = Invalid
<1> DEFINE sub == typed.command
           c == ToldUpTo(typed)
           n == Count(typed)
           words == c[n]
<1>1. sub \in Subcommands /\ n \in Nat /\ words \in Seq(Word)
  <2>1. Joins(c, Tellings(typed), n) /\ n \in Nat /\ sub \in Subcommands
    BY LineIs, LineCats
  <2> HIDE DEF c, n, sub
  <2>2. n \in 0..n
    BY <2>1
  <2> QED BY <2>1, <2>2 DEF Joins
<1>2. PICK f : Reads(f, sub, words)
  <2> HIDE DEF sub, words
  <2> QED BY <1>1, Reading
<1>3. options = f[2] /\ f[Len(words) + 1] = << >> /\ options \in Seq(Found(words))
  <2>1. 2 \in 1..(Len(words) + 2)
    BY <1>1, LenProperties
  <2> HIDE DEF words
  <2> QED BY <1>2, <2>1 DEF Reads, words
<1>4. CASE \A k \in 1..n : Known(sub, typed.settings[k])
  <2>1. Divides(f[2], f[Len(words) + 1], typed, n)
    <3>1. n <= n
      BY <1>1
    <3> QED BY <1>1, <1>2, <1>4, <3>1, Dividing
  <2>2. Len(options) = n /\ \A m \in 1..n : options[m] = Opt(typed.settings[m])
    <3>1. Len(<< >>) = 0
      OBVIOUS
    <3> HIDE DEF n, words
    <3> QED BY <1>1, <1>3, <2>1, <3>1 DEF Divides
  <2>3. options = [m \in 1..n |-> options[m]]
    <3> DEFINE O == Found(words)
    <3> HIDE DEF O, n
    <3>1. options \in Seq(O)
      BY <1>3 DEF O
    <3> QED BY <2>2, <3>1
  <2> QED BY <1>4, <2>2, <2>3 DEF Meaning
<1>5. CASE ~\A k \in 1..n : Known(sub, typed.settings[k])
  <2> DEFINE T == {k \in 1..n : ~Known(sub, typed.settings[k])}
  <2>1. PICK k \in T : \A m \in T : k <= m
    <3>1. T \in SUBSET Nat /\ T # {}
      BY <1>1, <1>5
    <3> HIDE DEF T
    <3> QED BY <3>1, Least
  <2>2. k \in 1..n /\ ~Known(sub, typed.settings[k])
    OBVIOUS
  <2>3. ASSUME NEW m \in 1..(k - 1) PROVE Known(sub, typed.settings[m])
    <3>1. m \in 1..n /\ ~(k <= m)
      BY <1>1, <2>2
    <3> QED BY <2>1, <3>1
  <2> HIDE DEF T
  <2> DEFINE before == k - 1
             rest == f[Len(c[before]) + 1]
  <2>4. before \in Nat /\ before <= n /\ before + 1 = k
    BY <1>1, <2>2
  <2>5. Divides(f[2], rest, typed, before)
    <3> HIDE DEF before
    <3>1. \A m \in 1..before : Known(typed.command, typed.settings[m])
      BY <2>3 DEF before
    <3> QED BY <1>2, <2>4, <3>1, Dividing
  <2>6. PICK w : rest = << <<Invalid, w>> >> \o f[Len(c[before]) + 1 + 1]
                 /\ f[Len(c[before]) + 1 + 1] \in Seq(Found(words))
    BY <1>2, <2>2, Continuing DEF Continues
  <2> DEFINE o == <<Invalid, w>>
             next == f[Len(c[before]) + 1 + 1]
             O == Found(words)
  <2>7. rest = <<o>> \o next /\ next \in Seq(O)
    BY <2>6
  <2> HIDE DEF rest, o, next, O
  <2>8. Prepends(o, next, rest)
    BY <2>7, Prepended
  <2>9. rest[1] = o /\ 1 \in 1..Len(rest)
    BY <2>8 DEF Prepends
  <2>10. options[k] = o /\ k \in 1..Len(options)
    <3>1. Len(rest) \in Nat /\ Len(options) = before + Len(rest)
          /\ \A p \in 1..Len(rest) : options[before + p] = rest[p]
      BY <1>3, <2>5 DEF Divides
    <3>2. options[before + 1] = rest[1]
      BY <2>9, <3>1
    <3>3. before + 1 \in 1..Len(options)
      BY <2>4, <2>9, <3>1
    <3> QED BY <2>4, <2>9, <3>2, <3>3
  <2>11. k \in DOMAIN options
    <3> HIDE DEF words
    <3> QED BY <1>3, <2>10
  <2>12. options[k][1] = Invalid
    BY <2>10 DEF o
  <2> QED BY <1>5, <2>11, <2>12
<1> QED BY <1>4, <1>5

-----------------------------------------------------------------------------
(* What was said, and what is found of it.                                 *)
Mentions(flag) == {n \in DOMAIN meant.settings : meant.settings[n].flag = flag}

Times(flag) == Cardinality(Mentions(flag))

Nth(flag, m) == meant.settings[InOrder(Mentions(flag))[m]]

(* A function is empty exactly if its domain is.                           *)
LEMMA NoneAtAll ==
  ASSUME NEW c \in Nat, NEW f, f = [m \in 1..c |-> f[m]]
  PROVE  f = << >> <=> c = 0
<1>1. ASSUME c = 0 PROVE f = << >>
  <2>1. 1..c = {}
    BY <1>1
  <2>2. DOMAIN f = {} /\ f = [m \in {} |-> f[m]]
    BY <2>1
  <2> QED BY <2>2
<1>2. ASSUME f = << >> PROVE c = 0
  <2>1. DOMAIN f = 1..c
    OBVIOUS
  <2>2. DOMAIN f = {}
    BY <1>2
  <2> HIDE <1>2
  <2>3. 1 \notin 1..c
    BY <2>1, <2>2
  <2> QED BY <2>3
<1> QED BY <1>1, <1>2

(* What is found of an option, and what was said with it.                  *)
Spoken(flag) ==
  LET options == Meaning(meant)
  IN  /\ Times(flag) \in Nat
      /\ Settings(flag) = [m \in 1..Times(flag) |-> Nth(flag, m)]
      /\ Said(flag) = [m \in 1..Times(flag) |-> Nth(flag, m).values]
      /\ All(options, flag) = [m \in 1..Times(flag) |-> FromArg(flag, Opt(Nth(flag, m))[2])]
      /\ Said(flag) = << >> <=> Times(flag) = 0
      /\ Settings(flag) = << >> <=> Times(flag) = 0
      /\ All(options, flag) = << >> <=> Times(flag) = 0
      /\ \A m \in 1..Times(flag) :
           /\ Nth(flag, m).flag = flag
           /\ \E k \in 1..Count(meant) : Nth(flag, m) = meant.settings[k]

(* The options of a flag are the settings of that flag, in their order.    *)
LEMMA Speaking ==
  ASSUME meant \in CommandLines, NEW flag
  PROVE  Spoken(flag)
<1> DEFINE n == Count(meant)
           S == Mentions(flag)
           c == Times(flag)
           to == InOrder(S)
           options == Meaning(meant)
<1>1. n \in Nat /\ DOMAIN meant.settings = 1..n /\ S \in SUBSET (1..n)
  BY LineIs DEF Mentions
<1>2. c \in Nat /\ to \in [1..c -> S]
  <2> HIDE DEF S, n
  <2> QED BY <1>1, Ordered DEF Times, S
<1>3. S = {k \in 1..n : meant.settings[k].flag = flag}
  BY <1>1 DEF Mentions
<1>4. DOMAIN options = 1..n /\ \A k \in 1..n : options[k] = Opt(meant.settings[k])
  BY DEF Meaning
<1>5. {k \in DOMAIN options : options[k][1] = flag} = S
  <2>1. \A k \in 1..n : options[k][1] = meant.settings[k].flag
    BY <1>4 DEF Opt
  <2> HIDE DEF options, S
  <2> QED BY <1>3, <1>4, <2>1
<1>6. Settings(flag) = [m \in DOMAIN to |-> meant.settings[to[m]]]
  BY DEF Settings, Mentions
<1>7. All(options, flag) = [m \in DOMAIN to |-> FromArg(flag, options[to[m]][2])]
  <2> DEFINE T == {k \in DOMAIN options : options[k][1] = flag}
  <2>1. All(options, flag) = [m \in DOMAIN InOrder(T) |-> FromArg(flag, options[InOrder(T)[m]][2])]
    BY DEF All
  <2>2. T = S
    BY <1>5
  <2> HIDE DEF T, S
  <2> QED BY <2>1, <2>2
<1>8. \A m \in 1..c : Nth(flag, m) = meant.settings[to[m]]
  BY DEF Nth
<1>9. \A m \in 1..c : to[m] \in S /\ to[m] \in 1..n /\ meant.settings[to[m]].flag = flag
  BY <1>2, <1>3
<1>10. DOMAIN to = 1..c
  BY <1>2
<1> HIDE DEF to, c, S, options, n
<1>11. Settings(flag) = [m \in 1..c |-> Nth(flag, m)]
  BY <1>6, <1>8, <1>10
<1>12. Said(flag) = [m \in 1..c |-> Nth(flag, m).values]
  BY <1>11 DEF Said
<1>13. All(options, flag) = [m \in 1..c |-> FromArg(flag, Opt(Nth(flag, m))[2])]
  <2>1. ASSUME NEW m \in 1..c
        PROVE  FromArg(flag, options[to[m]][2]) = FromArg(flag, Opt(Nth(flag, m))[2])
    BY <1>4, <1>8, <1>9
  <2> QED BY <1>7, <1>10, <2>1
<1>14. Said(flag) = << >> <=> c = 0
  BY <1>2, <1>12, NoneAtAll
<1>15. Settings(flag) = << >> <=> c = 0
  BY <1>2, <1>11, NoneAtAll
<1>16. All(options, flag) = << >> <=> c = 0
  BY <1>2, <1>13, NoneAtAll
<1>17. \A m \in 1..c : /\ Nth(flag, m).flag = flag
                       /\ \E k \in 1..n : Nth(flag, m) = meant.settings[k]
  BY <1>8, <1>9
<1> QED BY <1>2, <1>11, <1>12, <1>13, <1>14, <1>15, <1>16, <1>17 DEF Spoken, c, n, options

(* What from_arg makes of the value of an option.                          *)
Understood(s) ==
  LET word == Opt(s)[2]
  IN  /\ Opt(s)[1] = s.flag
      /\ s.flag \in Pairs => FromArg(s.flag, word) = s.values
      /\ s.flag = "--remote" =>
           /\ FromArg(s.flag, word).endpoint = s.values[1]
           /\ FromArg(s.flag, word).systems = Parts(s.values[2], Comma)
           /\ FromArg(s.flag, word).workers = Number(s.values[3])
      /\ ~Packed(s.flag) /\ Len(s.values) = 1 => word = s.values[1] /\ s.values = <<word>>
      /\ s.flag \in Pairs => Readable(s.flag, word)
      /\ s.flag = "--remote" =>
           (Readable(s.flag, word) <=> Number(s.values[3]) \notin {Invalid, 0})

(* What from_arg reads in an option is what its setting says.              *)
LEMMA Understanding ==
  ASSUME NEW s \in Setting, Fine(s)
  PROVE  Understood(s)
<1> DEFINE word == Opt(s)[2]
           rest == Split(Pack(s.values))[2]
<1>1. Opt(s)[1] = s.flag
  BY DEF Opt
<1>2. s.flag \in Flags /\ s.values \in Seq(Word)
  BY DEF Setting
<1>3. CASE s.flag \in Pairs
  <2>1. Packed(s.flag) /\ s.flag # "--remote" /\ s.flag # Invalid
    BY <1>2, <1>3, Arities, FlagsAre DEF Pairs
  <2>2. Holds(Pack(s.values), Separator) /\ Split(Pack(s.values)) = s.values
    BY <1>3, <2>1, Packing
  <2>3. word = Pack(s.values)
    BY <2>1 DEF Opt
  <2>a. s.flag \notin {"--workers", "--max-memory"}
    BY <1>3 DEF Pairs
  <2>b. FromArg(s.flag, word) = s.values
    BY <1>3, <2>1, <2>2, <2>3, <2>a DEF FromArg
  <2>c. Readable(s.flag, word)
    BY <1>3, <2>1, <2>2, <2>3, <2>a DEF Readable
  <2>4. FromArg(s.flag, word) = s.values /\ Readable(s.flag, word)
    BY <2>b, <2>c
  <2> QED BY <1>1, <1>3, <2>1, <2>4 DEF Understood
<1>4. CASE s.flag = "--remote"
  <2>1. Packed(s.flag) /\ s.flag \notin Pairs /\ s.flag # Invalid
    BY <1>2, <1>4, Arities, FlagsAre DEF Pairs
  <2>2. /\ Holds(Pack(s.values), Separator) /\ Split(Pack(s.values))[1] = s.values[1]
        /\ Holds(rest, Separator) /\ Split(rest) = <<s.values[2], s.values[3]>>
    BY <1>4, <2>1, Packing
  <2>3. /\ word = Pack(s.values)
        /\ Split(rest)[1] = s.values[2] /\ Split(rest)[2] = s.values[3]
    BY <2>1, <2>2 DEF Opt
  <2>4. FromArg(s.flag, word) = RemoteArg(word)
    BY <1>4, <2>1 DEF FromArg
  <2>5. /\ RemoteArg(word).endpoint = s.values[1]
        /\ RemoteArg(word).systems = Parts(s.values[2], Comma)
        /\ RemoteArg(word).workers = Number(s.values[3])
    BY <2>2, <2>3 DEF RemoteArg
  <2>6. Readable(s.flag, word) <=> Number(s.values[3]) \notin {Invalid, 0}
    BY <1>4, <2>1, <2>2, <2>3 DEF Readable
  <2> QED BY <1>1, <1>4, <2>1, <2>4, <2>5, <2>6 DEF Understood
<1>5. CASE ~Packed(s.flag)
  <2>1. s.flag \notin Pairs /\ s.flag # "--remote"
    BY <1>5, Arities
  <2>2. ASSUME Len(s.values) = 1 PROVE word = s.values[1] /\ s.values = <<word>>
    <3>1. word = s.values[1]
      BY <1>5, <2>2 DEF Opt
    <3>2. s.values = <<s.values[1]>>
      <4> DEFINE W == Word
      <4> HIDE DEF W
      <4>1. s.values \in Seq(W)
        BY <1>2 DEF W
      <4> QED BY <2>2, <4>1
    <3> QED BY <3>1, <3>2
  <2> QED BY <1>1, <1>5, <2>1, <2>2 DEF Understood
<1> QED BY <1>3, <1>4, <1>5, Arities

(* Whether a setting can be carried out.                                   *)
LEMMA ProperIs ==
  ASSUME NEW s \in Setting, meant \in CommandLines
  PROVE  /\ Proper(s) => Fine(s) /\ Known(meant.command, s)
         /\ Fine(s) /\ Known(meant.command, s) =>
              (Proper(s) <=> Readable(Opt(s)[1], Opt(s)[2]))
<1> DEFINE sub == meant.command
<1>0. sub \in Subcommands /\ s.flag \in Flags
  BY LineIs DEF Setting
<1>1. /\ s.flag \in Switches(sub) => ~Packed(s.flag) /\ s.flag \notin {"--workers", "--max-memory"}
      /\ Packed(s.flag) <=> s.flag \in Pairs \union {"--remote"}
      /\ s.flag # Invalid
  <2>1. Switches(sub) \cap {"--workers", "--max-memory"} = {}
    BY <1>0 DEF Switches
  <2>2. s.flag \in Switches(sub) => ~Packed(s.flag)
    <3>1. /\ s.flag \in Switches(sub) => Takes(s.flag) = 0
          /\ Packed(s.flag) => Takes(s.flag) = Arity(s.flag)
          /\ Arity(s.flag) \in {1, 2, 3}
      BY <1>0, Arities
    <3> QED BY <3>1
  <2> QED BY <1>0, <2>1, <2>2, Arities, FlagsAre
<1>2. ASSUME Proper(s) PROVE Fine(s) /\ Known(sub, s)
  BY <1>1, <1>2 DEF Proper, Fine, Known
<1>3. ASSUME Fine(s), Known(sub, s)
      PROVE  Proper(s) <=> Readable(Opt(s)[1], Opt(s)[2])
  <2>1. Understood(s)
    BY <1>3, Understanding
  <2>2. Proper(s) <=> /\ s.flag = "--remote" => Number(s.values[3]) \notin {Invalid, 0}
                      /\ s.flag \in {"--workers", "--max-memory"} => Number(s.values[1]) # Invalid
    BY <1>3 DEF Proper, Fine, Known
  <2>3. Opt(s)[1] = s.flag
    BY <2>1 DEF Understood
  <2>4. CASE s.flag \in Pairs
    <3>1. s.flag # "--remote" /\ s.flag \notin {"--workers", "--max-memory"}
      BY <2>4 DEF Pairs
    <3> QED BY <2>1, <2>2, <2>3, <2>4, <3>1 DEF Understood
  <2>5. CASE s.flag = "--remote"
    <3>1. s.flag \notin {"--workers", "--max-memory"}
      BY <2>5
    <3> QED BY <2>1, <2>2, <2>3, <2>5, <3>1 DEF Understood
  <2>6. CASE s.flag \in {"--workers", "--max-memory"}
    <3>1. s.flag # "--remote" /\ s.flag \notin Pairs /\ ~Packed(s.flag)
      BY <1>1, <2>6 DEF Pairs
    <3>2. Len(s.values) = 1
      <4>1. s.flag \in Valued(sub)
        BY <1>1, <1>3, <2>6 DEF Known
      <4>2. Arity(s.flag) = 1
        BY <3>1, Arities
      <4> QED BY <1>3, <4>1, <4>2 DEF Known
    <3>3. Opt(s)[2] = s.values[1]
      BY <2>1, <3>1, <3>2 DEF Understood
    <3>4. Readable(s.flag, s.values[1]) <=> Number(s.values[1]) # Invalid
      BY <1>1, <2>6, <3>1 DEF Readable
    <3> QED BY <2>2, <2>3, <2>6, <3>1, <3>3, <3>4
  <2>7. CASE s.flag \notin Pairs \union {"--remote", "--workers", "--max-memory"}
    <3>1. Readable(s.flag, Opt(s)[2])
      BY <1>1, <2>7 DEF Readable
    <3> QED BY <2>2, <2>3, <2>7, <3>1
  <2> QED BY <2>4, <2>5, <2>6, <2>7
<1> QED BY <1>2, <1>3

Carried == \A k \in 1..Count(meant) :
             Fine(meant.settings[k]) /\ Known(meant.command, meant.settings[k])

(* command_plan finds something to do exactly if the command line can be   *)
(* carried out.                                                            *)
LEMMA AcceptedIs ==
  ASSUME meant \in CommandLines
  PROVE  /\ Complete => Carried
         /\ Carried => (Complete <=> Accepted(meant.command, Meaning(meant)))
<1> DEFINE n == Count(meant)
           options == Meaning(meant)
           sub == meant.command
<1>1. n \in Nat /\ DOMAIN meant.settings = 1..n
      /\ \A k \in 1..n : meant.settings[k] \in Setting
  BY LineIs
<1>2. ASSUME Complete PROVE Carried
  BY <1>1, <1>2, ProperIs DEF Complete, Carried
<1>3. ASSUME Carried PROVE Complete <=> Accepted(sub, options)
  <2>1. DOMAIN options = 1..n /\ \A k \in 1..n : options[k] = Opt(meant.settings[k])
    BY DEF Meaning
  <2>2. \A k \in 1..n : Proper(meant.settings[k]) <=> Readable(options[k][1], options[k][2])
    BY <1>1, <1>3, <2>1, ProperIs DEF Carried
  <2>3. ASSUME NEW flag PROVE Given(options, flag) <=> Said(flag) # << >>
    BY Speaking DEF Spoken, Given
  <2> HIDE DEF options, n
  <2>4. (\A k \in DOMAIN meant.settings : Proper(meant.settings[k]))
        <=> (\A k \in DOMAIN options : Readable(options[k][1], options[k][2]))
    BY <1>1, <2>1, <2>2
  <2>5. {f \in Inputs : Given(options, f)} = {f \in Inputs : Said(f) # << >>}
    BY <2>3
  <2> QED BY <2>3, <2>4, <2>5 DEF Complete, Accepted
<1> QED BY <1>2, <1>3

(* What is found of an option is what was said.                            *)
LEMMA PairsAsSaid ==
  ASSUME meant \in CommandLines, Carried, NEW flag \in Pairs
  PROVE  All(Meaning(meant), flag) = Said(flag)
<1>1. Spoken(flag)
  BY Speaking
<1>2. ASSUME NEW m \in 1..Times(flag)
      PROVE  FromArg(flag, Opt(Nth(flag, m))[2]) = Nth(flag, m).values
  <2>1. PICK k \in 1..Count(meant) : Nth(flag, m) = meant.settings[k]
    BY <1>1 DEF Spoken
  <2>2. Nth(flag, m).flag = flag /\ Nth(flag, m) \in Setting /\ Fine(Nth(flag, m))
    BY <1>1, <2>1, LineIs DEF Spoken, Carried
  <2>3. Understood(Nth(flag, m))
    BY <2>2, Understanding
  <2> QED BY <2>2, <2>3 DEF Understood
<1> QED BY <1>1, <1>2 DEF Spoken

(* The builders that are named, with their systems and numbers of workers. *)
LEMMA RemotesAsSaid ==
  ASSUME meant \in CommandLines, Complete
  PROVE  RemotesMeant(All(Meaning(meant), "--remote"))
<1> DEFINE flag == "--remote"
           c == Times(flag)
           remotes == All(Meaning(meant), flag)
           said == Said(flag)
<1>1. Spoken(flag)
  BY Speaking
<1>2. Carried
  BY AcceptedIs
<1>3. ASSUME NEW m \in 1..c
      PROVE  /\ FromArg(flag, Opt(Nth(flag, m))[2]).endpoint = Nth(flag, m).values[1]
             /\ FromArg(flag, Opt(Nth(flag, m))[2]).systems = Parts(Nth(flag, m).values[2], Comma)
             /\ FromArg(flag, Opt(Nth(flag, m))[2]).workers = Number(Nth(flag, m).values[3])
             /\ Nth(flag, m).values[3] # << >>
  <2>1. PICK k \in 1..Count(meant) : Nth(flag, m) = meant.settings[k]
    BY <1>1 DEF Spoken
  <2>2. Nth(flag, m).flag = flag /\ Nth(flag, m) \in Setting /\ Fine(Nth(flag, m))
    BY <1>1, <1>2, <2>1, LineIs DEF Spoken, Carried
  <2>3. Proper(Nth(flag, m))
    <3>1. k \in DOMAIN meant.settings
      BY LineIs
    <3> QED BY <2>1, <3>1 DEF Complete
  <2>4. Understood(Nth(flag, m))
    BY <2>2, Understanding
  <2>5. Number(Nth(flag, m).values[3]) # Invalid
    BY <2>2, <2>3 DEF Proper
  <2>6. Nth(flag, m).values[3] # << >>
    BY <2>5, ArgumentsAssumption
  <2> QED BY <2>2, <2>4, <2>6 DEF Understood
<1>4. /\ c \in Nat
      /\ remotes = [m \in 1..c |-> FromArg(flag, Opt(Nth(flag, m))[2])]
      /\ said = [m \in 1..c |-> Nth(flag, m).values]
  BY <1>1 DEF Spoken
<1> HIDE DEF c, remotes, said, flag
<1>5. DOMAIN remotes = 1..c /\ Len(remotes) = Len(said)
  BY <1>4
<1>6. ASSUME NEW m \in 1..c
      PROVE  /\ remotes[m].endpoint = said[m][1]
             /\ remotes[m].systems = Parts(said[m][2], Comma)
             /\ said[m][3] # << >>
             /\ remotes[m].workers = Number(said[m][3])
  BY <1>3, <1>4
<1> QED BY <1>5, <1>6 DEF RemotesMeant, remotes, said, flag

(* Options that have one value, which is taken as it is or is a number.    *)
Plain == Inputs \union
  {"--system", "--attr-prefix", "--gc-roots-dir", "--socket", "--listen"}

Numeric == {"--workers", "--max-memory"}

(* An option with one value is not packed and no switch, and its setting   *)
(* has that value.                                                         *)
LEMMA Single ==
  ASSUME meant \in CommandLines, Carried, NEW flag \in Plain \union Numeric,
         NEW m \in 1..Times(flag)
  PROVE  LET s == Nth(flag, m)
             word == Opt(s)[2]
         IN  word = s.values[1] /\ s.values = <<word>> /\ word \in Word
<1> DEFINE s == Nth(flag, m)
           word == Opt(s)[2]
<1>1. /\ ~Packed(flag) /\ Arity(flag) = 1
      /\ \A sub \in Subcommands : flag \notin Switches(sub)
  <2>1. flag \notin Pairs \union {"--remote"}
    BY DEF Plain, Numeric, Inputs, Pairs
  <2>2. \A sub \in Subcommands : flag \notin Switches(sub)
    BY DEF Subcommands, Switches, Plain, Numeric, Inputs
  <2> QED BY <2>1, <2>2, Arities
<1>2. Spoken(flag)
  BY Speaking
<1>3. PICK k \in 1..Count(meant) : s = meant.settings[k]
  BY <1>2 DEF Spoken
<1>4. /\ s.flag = flag /\ s \in Setting /\ Fine(s) /\ Known(meant.command, s)
      /\ meant.command \in Subcommands
  BY <1>2, <1>3, LineIs DEF Spoken, Carried
<1>5. Understood(s)
  BY <1>4, Understanding
<1>6. Len(s.values) = 1
  BY <1>1, <1>4 DEF Known
<1>7. word = s.values[1] /\ s.values = <<word>>
  BY <1>1, <1>4, <1>5, <1>6 DEF Understood
<1>8. s.values \in Seq(Word) /\ 1 \in 1..Len(s.values)
  BY <1>4, <1>6 DEF Setting
<1>9. s.values[1] \in Word
  BY <1>8, ElementOfSeq
<1> QED BY <1>7, <1>9

(* The one value of an option, each time that it was said.                 *)
ValuesSaid(flag) ==
  LET read == All(Meaning(meant), flag)
      said  == Said(flag)
  IN  /\ Times(flag) \in Nat
      /\ DOMAIN read = 1..Times(flag) /\ DOMAIN said = 1..Times(flag)
      /\ \A m \in 1..Times(flag) : read[m] \in Word /\ said[m] = <<read[m]>>

(* The values of the options that have one.                                *)
LEMMA ValuesAsSaid ==
  ASSUME meant \in CommandLines, Carried, NEW flag \in Plain
  PROVE  ValuesSaid(flag)
<1> DEFINE c == Times(flag)
           read == All(Meaning(meant), flag)
           said == Said(flag)
<1>1. Spoken(flag)
  BY Speaking
<1>2. flag \notin Pairs \union {"--remote", "--workers", "--max-memory"}
  BY DEF Plain, Inputs, Pairs
<1>3. ASSUME NEW m \in 1..c
      PROVE  /\ FromArg(flag, Opt(Nth(flag, m))[2]) \in Word
             /\ Nth(flag, m).values = <<FromArg(flag, Opt(Nth(flag, m))[2])>>
  <2> DEFINE word == Opt(Nth(flag, m))[2]
  <2>1. word \in Word /\ Nth(flag, m).values = <<word>>
    BY Single
  <2>2. FromArg(flag, word) = word
    BY <1>2 DEF FromArg
  <2> HIDE DEF word
  <2> QED BY <2>1, <2>2 DEF word
<1>4. /\ c \in Nat
      /\ read = [m \in 1..c |-> FromArg(flag, Opt(Nth(flag, m))[2])]
      /\ said = [m \in 1..c |-> Nth(flag, m).values]
  BY <1>1 DEF Spoken
<1> HIDE DEF c, read, said
<1>5. DOMAIN read = 1..c /\ DOMAIN said = 1..c
  BY <1>4
<1>6. ASSUME NEW m \in 1..c PROVE read[m] \in Word /\ said[m] = <<read[m]>>
  BY <1>3, <1>4
<1> QED BY <1>4, <1>5, <1>6 DEF ValuesSaid, c, read, said

(* The one value, if it was said, and all of them.                         *)
LEMMA OneAsSaid ==
  ASSUME meant \in CommandLines, Carried, NEW flag \in Plain
  PROVE  /\ One(Meaning(meant), flag, Absent) = OneSaid(flag, Absent)
         /\ All(Meaning(meant), flag) = EachSaid(flag)
<1> DEFINE c == Times(flag)
           read == All(Meaning(meant), flag)
           said == Said(flag)
<1>1. /\ c \in Nat /\ DOMAIN read = 1..c /\ DOMAIN said = 1..c
      /\ \A m \in 1..c : said[m] = <<read[m]>>
  BY ValuesAsSaid DEF ValuesSaid
<1>2. /\ said = << >> <=> c = 0
      /\ read = << >> <=> c = 0
      /\ read = [m \in 1..c |-> read[m]]
  BY Speaking DEF Spoken
<1> HIDE DEF c, read, said
<1>3. ASSUME NEW m \in 1..c PROVE said[m][1] = read[m]
  BY <1>1
<1>4. read = [m \in DOMAIN said |-> said[m][1]]
  BY <1>1, <1>2, <1>3
<1>5. c # 0 => 1 \in 1..c
  BY <1>1
<1>6. (IF read = << >> THEN Absent ELSE read[1])
      = (IF said = << >> THEN Absent ELSE said[1][1])
  BY <1>2, <1>3, <1>5
<1> QED BY <1>4, <1>6 DEF One, OneSaid, EachSaid, read, said

(* The number, if one was said.                                            *)
LEMMA AmountAsSaid ==
  ASSUME meant \in CommandLines, Carried, NEW flag \in Numeric, NEW default
  PROVE  One(Meaning(meant), flag, default) = AmountSaid(flag, default)
<1> DEFINE c == Times(flag)
           read == All(Meaning(meant), flag)
           said == Said(flag)
<1>1. Spoken(flag)
  BY Speaking
<1>2. flag \notin Pairs \union {"--remote"}
  BY DEF Numeric, Pairs
<1>3. ASSUME NEW m \in 1..c
      PROVE  FromArg(flag, Opt(Nth(flag, m))[2]) = Number(Nth(flag, m).values[1])
  <2> DEFINE word == Opt(Nth(flag, m))[2]
  <2>1. word = Nth(flag, m).values[1]
    BY Single
  <2>2. FromArg(flag, word) = Number(word)
    BY <1>2 DEF FromArg, Numeric
  <2> HIDE DEF word
  <2> QED BY <2>1, <2>2 DEF word
<1>4. /\ c \in Nat
      /\ read = [m \in 1..c |-> FromArg(flag, Opt(Nth(flag, m))[2])]
      /\ said = [m \in 1..c |-> Nth(flag, m).values]
      /\ said = << >> <=> c = 0
      /\ read = << >> <=> c = 0
  BY <1>1 DEF Spoken
<1> HIDE DEF c, read, said
<1>5. c # 0 => 1 \in 1..c
  BY <1>4
<1>6. c # 0 => read[1] = Number(said[1][1])
  BY <1>3, <1>4, <1>5
<1> QED BY <1>4, <1>6 DEF One, AmountSaid, read, said

(* So the plan is what was meant.                                          *)
LEMMA Planning ==
  ASSUME meant \in CommandLines, Complete, meant.command \notin {"daemon", "worker"},
         plan = CommandPlan(meant.command, Meaning(meant))
  PROVE  RequestMeant
<1> DEFINE options == Meaning(meant)
           sub == meant.command
           config == Config(options)
<1>1. sub \in {"eval", "watch", "query", "diff"} /\ Carried
  BY LineIs, AcceptedIs DEF Subcommands
<1>2. /\ plan.config = config
      /\ plan.useDaemon <=> sub \in {"query", "diff"} \/ ~Given(options, "--no-daemon")
      /\ plan.socket = One(options, "--socket", Absent)
      /\ plan.systems = All(options, "--system")
      /\ plan.prefixes = All(options, "--attr-prefix")
  <2> HIDE DEF options, config
  <2> QED BY DEF CommandPlan, options, config
<1>3. /\ config.autoArgs = AutoArgs(options)
      /\ config.overrideInputs = All(options, "--override-input")
      /\ config.nixOptions = All(options, "--option")
      /\ config.remotes = All(options, "--remote")
      /\ config.workers = One(options, "--workers", 1)
      /\ config.maxMemory = One(options, "--max-memory", 4096)
      /\ config.gcRootsDir = One(options, "--gc-roots-dir", Absent)
      /\ config.switches = {s \in {"--meta", "--show-input-drvs", "--force-recurse"} :
                              Given(options, s)}
  BY DEF Config
<1>4. \A flag \in Pairs : All(options, flag) = Said(flag)
  BY <1>1, PairsAsSaid
<1>5. {"--arg", "--argstr", "--override-input", "--option"} \subseteq Pairs
  BY DEF Pairs
<1>6. RemotesMeant(config.remotes)
  BY <1>3, RemotesAsSaid
<1>7. <<config.input[2]>> = Said(config.input[1])[1]
  <2> DEFINE flag == CHOOSE f \in Inputs : Given(options, f)
  <2>1. config.input[1] = flag /\ config.input[2] = One(options, flag, Absent)
    BY DEF Config
  <2>2. \E f \in Inputs : Said(f) # << >>
    <3>1. Cardinality({f \in Inputs : Said(f) # << >>}) = 1
      BY DEF Complete
    <3>2. Cardinality({}) = 0
      BY FS_EmptySet
    <3> DEFINE T == {f \in Inputs : Said(f) # << >>}
    <3>3. T # {}
      <4>1. Cardinality(T) = 1
        BY <3>1
      <4> HIDE DEF T
      <4> QED BY <3>2, <4>1
    <3> QED BY <3>3
  <2>3. \A f : Said(f) # << >> => Given(options, f)
    BY Speaking DEF Spoken, Given
  <2>4. flag \in Inputs /\ Given(options, flag)
    BY <2>2, <2>3
  <2> HIDE DEF flag, options
  <2>5. ValuesSaid(flag) /\ Spoken(flag)
    BY <1>1, <2>4, ValuesAsSaid, Speaking DEF Plain
  <2>6. All(options, flag) # << >> /\ Times(flag) \in Nat /\ Times(flag) # 0
    BY <2>4, <2>5 DEF Given, Spoken, options
  <2>7. 1 \in 1..Times(flag)
    BY <2>6
  <2>8. Said(flag)[1] = <<All(options, flag)[1]>>
    BY <2>5, <2>7 DEF ValuesSaid, options
  <2>9. One(options, flag, Absent) = All(options, flag)[1]
    BY <2>6 DEF One
  <2> QED BY <2>1, <2>8, <2>9
<1>8. plan.useDaemon <=> ~(sub \in {"eval", "watch"} /\ Settings("--no-daemon") # << >>)
  <2>1. Given(options, "--no-daemon") <=> Settings("--no-daemon") # << >>
    BY Speaking DEF Spoken, Given
  <2> QED BY <1>1, <1>2, <2>1
<1>9. config.autoArgs = Tagged("Expr", Said("--arg")) \o Tagged("Str", Said("--argstr"))
  <2>1. All(options, "--arg") = Said("--arg") /\ All(options, "--argstr") = Said("--argstr")
    BY <1>4, <1>5
  <2>2. config.autoArgs = AutoArgs(options)
    BY <1>3
  <2> HIDE DEF config, options
  <2> QED BY <2>1, <2>2 DEF AutoArgs
<1>10. /\ plan.socket = OneSaid("--socket", Absent)
       /\ config.gcRootsDir = OneSaid("--gc-roots-dir", Absent)
       /\ plan.systems = EachSaid("--system") /\ plan.prefixes = EachSaid("--attr-prefix")
  BY <1>1, <1>2, <1>3, OneAsSaid DEF Plain
<1>11. /\ config.workers = AmountSaid("--workers", 1)
       /\ config.maxMemory = AmountSaid("--max-memory", 4096)
  BY <1>1, <1>3, AmountAsSaid DEF Numeric
<1>12. config.overrideInputs = Said("--override-input") /\ config.nixOptions = Said("--option")
  BY <1>3, <1>4, <1>5
<1>13. config.switches = {s \in {"--meta", "--show-input-drvs", "--force-recurse"} :
                            Settings(s) # << >>}
  <2>1. ASSUME NEW s PROVE Given(options, s) <=> Settings(s) # << >>
    BY Speaking DEF Spoken, Given
  <2> QED BY <1>3, <2>1
<1> HIDE DEF config, options
<1>14. ConfigMeant(config)
  BY <1>6, <1>7, <1>9, <1>10, <1>11, <1>12, <1>13 DEF ConfigMeant
<1> QED BY <1>2, <1>8, <1>10, <1>14 DEF RequestMeant, sub

(* A daemon and a worker are planned as they were meant.                   *)
LEMMA PlanningServers ==
  ASSUME meant \in CommandLines, Complete,
         plan = CommandPlan(meant.command, Meaning(meant))
  PROVE  /\ plan.command = meant.command
         /\ meant.command = "daemon" => DaemonMeant
         /\ meant.command = "worker" => plan.listen = OneSaid("--listen", Absent)
<1> DEFINE options == Meaning(meant)
<1>1. Carried /\ meant.command \in Subcommands
  BY LineIs, AcceptedIs
<1>2. /\ One(options, "--socket", Absent) = OneSaid("--socket", Absent)
      /\ One(options, "--listen", Absent) = OneSaid("--listen", Absent)
  BY <1>1, OneAsSaid DEF Plain
<1>3. Given(options, "--foreground") <=> Settings("--foreground") # << >>
  BY Speaking DEF Spoken, Given
<1> HIDE DEF options
<1>4. plan.command = meant.command
  BY <1>1 DEF CommandPlan, Subcommands, options
<1>5. ASSUME meant.command = "daemon" PROVE DaemonMeant
  BY <1>2, <1>3, <1>5 DEF CommandPlan, DaemonMeant, options
<1>6. ASSUME meant.command = "worker" PROVE plan.listen = OneSaid("--listen", Absent)
  BY <1>2, <1>6 DEF CommandPlan, options
<1> QED BY <1>4, <1>5, <1>6

-----------------------------------------------------------------------------
(* What has been done of the arguments in each phase.                      *)
FineUpTo(k) == \A m \in 1..k : Fine(meant.settings[m])

ArgInv ==
  /\ IsTyped
  /\ phase \in {"normalize", "parse", "refused", "planned", "asked"}
  /\ phase = "normalize" =>
       \/ index = 1 /\ normalized = << >>
       \/ \E k \in 0..Count(meant) : Behind(k) /\ FineUpTo(k)
       \/ \E k \in 1..Count(meant) : Within(k) /\ FineUpTo(k)
  /\ phase = "parse" =>
       normalized = ToldUpTo(meant)[Count(meant)] /\ FineUpTo(Count(meant))
  /\ phase = "refused" => ~Complete
  /\ phase \in {"planned", "asked"} =>
       Complete /\ plan = CommandPlan(meant.command, Meaning(meant))
  /\ phase = "asked" => meant.command = "query"

(* Nothing has been done of them at first.                                 *)
LEMMA Beginning ==
  ASSUME ArgInit
  PROVE  ArgInv
<1>1. meant \in CommandLines /\ phase = "normalize" /\ index = 1 /\ normalized = << >>
      /\ args = WordsUpTo(meant)[Count(meant)]
  BY ArgsAre DEF ArgInit
<1> QED BY <1>1 DEF ArgInv, IsTyped

(* What can be carried out depends on the command line alone.              *)
LEMMA SameLine ==
  ASSUME UNCHANGED meant
  PROVE  Complete' <=> Complete
<1>1. ASSUME NEW flag PROVE Settings(flag)' = Settings(flag)
  BY DEF Settings
<1>2. ASSUME NEW flag PROVE Said(flag)' = Said(flag)
  BY <1>1 DEF Said
<1>3. ASSUME NEW s PROVE Proper(s)' <=> Proper(s)
  BY DEF Proper
<1> QED BY <1>2, <1>3 DEF Complete

(* A setting that cannot be packed cannot be carried out.                  *)
LEMMA FineNot ==
  ASSUME IsTyped, NEW k \in 1..Count(meant), ~Fine(meant.settings[k])
  PROVE  ~Complete
<1>1. meant \in CommandLines
  BY DEF IsTyped
<1> QED BY <1>1, AcceptedIs DEF Carried

(* The first word is the command.                                          *)
LEMMA FirstIsCommand ==
  ASSUME IsTyped
  PROVE  /\ args[1] = <<meant.command>> /\ Len(args) \in Nat /\ Len(args) >= 1
         /\ ToldUpTo(meant)[Count(meant)][1] = <<meant.command>>
         /\ Len(WordsUpTo(meant)[0]) = 1 /\ ToldUpTo(meant)[0] = << <<meant.command>> >>
<1> DEFINE n == Count(meant)
           c == WordsUpTo(meant)
           d == ToldUpTo(meant)
<1>1. /\ n \in Nat /\ args = c[n]
      /\ Joins(c, Spellings(meant), n) /\ c[0] = << <<meant.command>> >>
      /\ Joins(d, Tellings(meant), n) /\ d[0] = << <<meant.command>> >>
  BY LineIs, LineCats DEF IsTyped, Start
<1> HIDE DEF n, c, d
<1>2. 0 \in 0..n /\ n \in 0..n
  BY <1>1
<1>3. /\ Len(c[0]) <= Len(c[n]) /\ \A p \in 1..Len(c[0]) : c[n][p] = c[0][p]
      /\ \A p \in 1..Len(d[0]) : d[n][p] = d[0][p]
  <2>1. ASSUME NEW e, NEW w, Joins(e, w, n)
        PROVE  Len(e[0]) <= Len(e[n]) /\ \A p \in 1..Len(e[0]) : e[n][p] = e[0][p]
    <3>1. n \in Nat /\ 0 \in 0..n /\ n \in 0..n
      BY <1>1
    <3> QED BY <2>1, <3>1, CatPrefix
  <2> DEFINE v == Spellings(meant)
             u == Tellings(meant)
  <2>2. Joins(c, v, n) /\ Joins(d, u, n)
    BY <1>1
  <2> HIDE DEF v, u
  <2> QED BY <2>1, <2>2
<1>4. Len(c[0]) = 1 /\ Len(d[0]) = 1 /\ c[0][1] = <<meant.command>> /\ d[0][1] = <<meant.command>>
  BY <1>1
<1>5. Len(args) \in Nat
  <2>1. c[n] \in Seq(Word)
    BY <1>1, <1>2 DEF Joins
  <2> QED BY <1>1, <2>1, LenProperties
<1> QED BY <1>1, <1>3, <1>4, <1>5 DEF n, c, d

(* normalize_args goes from a setting to its value or to the next one,     *)
LEMMA Normalizing ==
  ASSUME ArgInv, Normalize
  PROVE  ArgInv'
<1>1. IsTyped /\ UNCHANGED <<meant, args>> /\ phase = "normalize" /\ index <= Len(args)
  BY DEF ArgInv, Normalize
<1>2. IsTyped'
  BY <1>1 DEF IsTyped
<1>3. ASSUME NEW k \in 0..Count(meant), Behind(k)', UNCHANGED <<phase, plan>>, FineUpTo(k)
      PROVE  ArgInv'
  <2>1. (k \in 0..Count(meant))' /\ FineUpTo(k)'
    BY <1>1, <1>3 DEF FineUpTo
  <2> QED BY <1>1, <1>2, <1>3, <2>1 DEF ArgInv
<1>4. ASSUME NEW k \in 1..Count(meant), Within(k)', UNCHANGED <<phase, plan>>, FineUpTo(k)
      PROVE  ArgInv'
  <2>1. (k \in 1..Count(meant))' /\ FineUpTo(k)'
    BY <1>1, <1>4 DEF FineUpTo
  <2> QED BY <1>1, <1>2, <1>4, <2>1 DEF ArgInv
<1>5. CASE index = 1 /\ normalized = << >>
  <2>1. args[1] = <<meant.command>> /\ Len(WordsUpTo(meant)[0]) = 1
        /\ ToldUpTo(meant)[0] = << <<meant.command>> >>
    BY <1>1, FirstIsCommand
  <2>2. meant.command \in Subcommands /\ Count(meant) \in Nat
    BY <1>1, LineIs DEF IsTyped
  <2> DEFINE word == <<meant.command>>
  <2>3. ~Joined(word) /\ ~Bare(word)
    <3>1. meant.command \notin Pairs \union {"--remote"}
      BY <2>2 DEF Subcommands, Pairs
    <3> QED BY <2>2, <3>1, FlagWord, Arities
  <2> HIDE DEF word
  <2>4. normalized' = Append(normalized, word) /\ index' = index + 1 /\ UNCHANGED <<phase, plan>>
    <3>1. args[index] = word
      BY <1>5, <2>1 DEF word
    <3> QED BY <2>3, <3>1 DEF Normalize
  <2>5. normalized' = <<word>> /\ index' = 2
    BY <1>5, <2>4
  <2>6. Behind(0)'
    BY <1>1, <2>1, <2>5 DEF Behind, word
  <2>7. 0 \in 0..Count(meant) /\ FineUpTo(0)
    BY <2>2 DEF FineUpTo
  <2> QED BY <1>3, <2>4, <2>6, <2>7
<1>6. ASSUME NEW b \in 0..Count(meant), Behind(b), FineUpTo(b)
      PROVE  ArgInv'
  <2> DEFINE k == b + 1
  <2>1. k \in 1..Count(meant) /\ k - 1 = b
    <3>1. Count(meant) \in Nat
      BY <1>1, LineIs DEF IsTyped
    <3>2. b # Count(meant)
      <4>1. b = Count(meant) => index = Len(args) + 1
        BY <1>1, <1>6 DEF Behind, IsTyped
      <4>2. Len(args) \in Nat
        BY <1>1, FirstIsCommand
      <4> QED BY <1>1, <4>1, <4>2
    <3> QED BY <3>1, <3>2
  <2> HIDE DEF k
  <2>2. Behind(k - 1)
    BY <1>6, <2>1
  <2>3. Fine(meant.settings[k]) => FineUpTo(k)
    <3>1. \A m \in 1..k : m = k \/ m \in 1..b
      BY <2>1
    <3> QED BY <1>6, <3>1 DEF FineUpTo
  <2>4. CASE Packed(meant.settings[k].flag)
    <3>1. CASE Fine(meant.settings[k])
      <4>1. Behind(k)' /\ UNCHANGED <<phase, plan>>
        BY <1>1, <2>1, <2>2, <2>4, <3>1, NormalizePacked
      <4>2. k \in 0..Count(meant)
        BY <2>1
      <4> QED BY <1>3, <2>3, <3>1, <4>1, <4>2
    <3>2. CASE ~Fine(meant.settings[k])
      <4>1. phase' = "refused"
        BY <1>1, <2>1, <2>2, <2>4, <3>2, NormalizePacked
      <4>2. ~Complete
        BY <1>1, <2>1, <3>2, FineNot
      <4>3. ~Complete'
        BY <1>1, <4>2, SameLine
      <4> QED BY <1>2, <4>1, <4>3 DEF ArgInv
    <3> QED BY <3>1, <3>2
  <2>5. CASE ~Packed(meant.settings[k].flag)
    <3>1. Fine(meant.settings[k]) /\ (Behind(k)' \/ Within(k)') /\ UNCHANGED <<phase, plan>>
      BY <1>1, <2>1, <2>2, <2>5, NormalizeOther
    <3>2. k \in 0..Count(meant)
      BY <2>1
    <3> QED BY <1>3, <1>4, <2>1, <2>3, <3>1, <3>2
  <2> QED BY <2>4, <2>5
<1>7. ASSUME NEW k \in 1..Count(meant), Within(k), FineUpTo(k)
      PROVE  ArgInv'
  <2>1. Behind(k)' /\ UNCHANGED <<phase, plan>>
    BY <1>1, <1>7, NormalizeValue
  <2> QED BY <1>3, <1>7, <2>1
<1> QED BY <1>1, <1>5, <1>6, <1>7 DEF ArgInv

(* has told all settings when it ends,                                     *)
LEMMA EndNormalizing ==
  ASSUME ArgInv, Normalized
  PROVE  ArgInv'
<1>1. /\ IsTyped /\ UNCHANGED <<meant, args, normalized, plan>> /\ phase = "normalize"
      /\ index > Len(args) /\ phase' = "parse"
  BY DEF ArgInv, Normalized
<1>2. IsTyped'
  BY <1>1 DEF IsTyped
<1>3. Len(args) \in Nat /\ Len(args) >= 1 /\ Count(meant) \in Nat /\ meant \in CommandLines
      /\ args = WordsUpTo(meant)[Count(meant)]
  BY <1>1, FirstIsCommand, LineIs DEF IsTyped
<1>4. PICK k \in 0..Count(meant) : Behind(k) /\ FineUpTo(k)
  <2>1. ~(index = 1 /\ normalized = << >>)
    BY <1>1, <1>3
  <2>2. ASSUME NEW k \in 1..Count(meant), Within(k) PROVE FALSE
    <3> DEFINE s == meant.settings[k]
    <3>1. Placed(meant, k) /\ s \in Setting
      BY <1>3, Placing, LineIs
    <3>2. ~s.joined /\ Len(s.values) = 1 /\ index = Len(WordsUpTo(meant)[k - 1]) + 2
      BY <2>2 DEF Within
    <3>3. Len(Written(s)) = 2
      <4>1. Spelled(s, Written(s))
        BY <3>1, Spelling
      <4> QED BY <3>2, <4>1 DEF Spelled
    <3>4. index <= Len(args)
      BY <1>3, <3>1, <3>2, <3>3 DEF Placed
    <3> QED BY <1>1, <1>3, <3>2, <3>4, <3>1 DEF Placed
  <2> QED BY <1>1, <2>1, <2>2 DEF ArgInv
<1>5. k = Count(meant)
  <2> SUFFICES ASSUME k # Count(meant) PROVE FALSE
    OBVIOUS
  <2>1. k + 1 \in 1..Count(meant) /\ (k + 1) - 1 = k
    BY <1>3
  <2>2. Placed(meant, k + 1)
    BY <1>3, <2>1, Placing
  <2>3. /\ Len(WordsUpTo(meant)[k]) \in Nat
        /\ Len(WordsUpTo(meant)[k + 1]) = Len(WordsUpTo(meant)[k]) + Len(Written(meant.settings[k + 1]))
        /\ Len(Written(meant.settings[k + 1])) >= 1 /\ Len(Written(meant.settings[k + 1])) \in Nat
        /\ Len(WordsUpTo(meant)[k + 1]) <= Len(args)
    BY <1>3, <2>1, <2>2 DEF Placed
  <2>4. index = Len(WordsUpTo(meant)[k]) + 1
    BY <1>4 DEF Behind
  <2>5. ASSUME NEW x \in Nat, NEW y \in Nat, NEW z \in Nat, y >= 1, x + y <= z
        PROVE  ~(x + 1 > z)
    BY <2>5
  <2> QED BY <1>1, <1>3, <2>3, <2>4, <2>5
<1>6. normalized' = ToldUpTo(meant')[Count(meant')] /\ FineUpTo(Count(meant))'
  BY <1>1, <1>4, <1>5 DEF Behind, FineUpTo
<1> QED BY <1>1, <1>2, <1>6 DEF ArgInv, FineUpTo

(* and the plan that is made of them is the one that was meant.            *)
LEMMA Parsing ==
  ASSUME ArgInv, Parse
  PROVE  ArgInv'
<1> DEFINE options == Options(meant.command, ToldUpTo(meant)[Count(meant)])
<1>1. /\ IsTyped /\ UNCHANGED <<meant, args, index, normalized>> /\ phase = "parse"
      /\ normalized = ToldUpTo(meant)[Count(meant)] /\ FineUpTo(Count(meant))
      /\ meant \in CommandLines
  BY DEF ArgInv, Parse, IsTyped
<1>2. IsTyped'
  BY <1>1 DEF IsTyped
<1>3. normalized[1][1] = meant.command
  BY <1>1, FirstIsCommand
<1>4. IF Accepted(meant.command, options)
        THEN phase' = "planned" /\ plan' = CommandPlan(meant.command, options)
        ELSE phase' = "refused" /\ UNCHANGED plan
  BY <1>1, <1>3 DEF Parse
<1>5. IF \A k \in 1..Count(meant) : Known(meant.command, meant.settings[k])
        THEN options = Meaning(meant)
        ELSE \E k \in DOMAIN options : options[k][1] = Invalid
  <2> HIDE DEF options
  <2>1. \A k \in 1..Count(meant) : Fine(meant.settings[k])
    BY <1>1 DEF FineUpTo
  <2> QED BY <1>1, <2>1, OptionsAre DEF options
<1> HIDE DEF options
<1>6. CASE \A k \in 1..Count(meant) : Known(meant.command, meant.settings[k])
  <2>1. Carried
    BY <1>1, <1>6 DEF Carried, FineUpTo
  <2>2. options = Meaning(meant) /\ (Complete <=> Accepted(meant.command, options))
    BY <1>1, <1>5, <1>6, <2>1, AcceptedIs
  <2>3. CASE Complete
    <3>1. phase' = "planned" /\ plan' = CommandPlan(meant.command, Meaning(meant))
      BY <1>4, <2>2, <2>3
    <3>2. Complete'
      BY <1>1, <2>3, SameLine
    <3>3. plan' = CommandPlan(meant'.command, Meaning(meant'))
      BY <1>1, <3>1
    <3> QED BY <1>2, <3>1, <3>2, <3>3 DEF ArgInv
  <2>4. CASE ~Complete
    <3>1. phase' = "refused"
      BY <1>4, <2>2, <2>4
    <3>2. ~Complete'
      BY <1>1, <2>4, SameLine
    <3> QED BY <1>2, <3>1, <3>2 DEF ArgInv
  <2> QED BY <2>3, <2>4
<1>7. CASE ~\A k \in 1..Count(meant) : Known(meant.command, meant.settings[k])
  <2>1. ~Accepted(meant.command, options)
    <3>1. {"--remote", "--workers", "--max-memory"} \union Pairs \subseteq Flags
      <4>1. Valued("eval") \subseteq Flags /\ Valued("eval") = Common
        BY DEF Flags, Subcommands, Valued
      <4> QED BY <4>1 DEF Common
    <3>2. \A w : ~Readable(Invalid, w)
      BY <3>1, FlagsAre DEF Readable
    <3> QED BY <1>5, <1>7, <3>2 DEF Accepted
  <2>2. ~Complete
    BY <1>1, <1>7, AcceptedIs DEF Carried
  <2>3. phase' = "refused" /\ ~Complete'
    BY <1>1, <1>4, <2>1, <2>2, SameLine
  <2> QED BY <1>2, <2>3 DEF ArgInv
<1> QED BY <1>6, <1>7

(* Nothing is done of the arguments once there is a plan.                  *)
LEMMA ArgStays ==
  ASSUME ArgInv, UNCHANGED argvars
  PROVE  ArgInv'
<1>1. Complete' <=> Complete
  BY SameLine DEF argvars
<1>2. \A k : (Behind(k)' <=> Behind(k)) /\ (Within(k)' <=> Within(k)) /\ (FineUpTo(k)' <=> FineUpTo(k))
  BY DEF argvars, Behind, Within, FineUpTo
<1>3. IsTyped' /\ UNCHANGED <<meant, phase, index, normalized, plan>>
  BY DEF ArgInv, argvars, IsTyped
<1> QED BY <1>1, <1>2, <1>3 DEF ArgInv

(* The whole of it.                                                        *)
QInv == (meant = None /\ phase = "asked") \/ ArgInv

(* A query that is asked has the plan that it had.                         *)
LEMMA AskStays ==
  ASSUME ArgInv, Ask
  PROVE  ArgInv'
<1>1. /\ UNCHANGED <<meant, args, index, normalized, plan>> /\ phase = "planned"
      /\ plan.command = "query" /\ phase' = "asked"
  BY DEF Ask
<1>2. /\ IsTyped /\ Complete /\ plan = CommandPlan(meant.command, Meaning(meant))
      /\ meant.command \in Subcommands
  BY <1>1, LineIs DEF ArgInv, IsTyped
<1>3. plan.command = meant.command
  BY <1>2 DEF CommandPlan, Subcommands
<1>4. IsTyped' /\ Complete'
  BY <1>1, <1>2, SameLine DEF IsTyped
<1> QED BY <1>1, <1>2, <1>3, <1>4 DEF ArgInv

(* In all steps.                                                           *)
LEMMA QInvariant == QSpec => []QInv
<1>1. ASSUME QInit PROVE QInv
  BY <1>1, Beginning DEF QInit, FromLibrary, QInv
<1>2. ASSUME QInv, [QNext]_qvars PROVE QInv'
  <2>1. CASE ArgInv
    <3>1. ASSUME ArgNext PROVE ArgInv'
      BY <2>1, <3>1, Normalizing, EndNormalizing, Parsing DEF ArgNext
    <3>2. ASSUME UNCHANGED argvars PROVE ArgInv'
      BY <2>1, <3>2, ArgStays
    <3>3. ASSUME Ask PROVE ArgInv'
      BY <2>1, <3>3, AskStays
    <3>4. UNCHANGED qvars => UNCHANGED argvars
      BY DEF qvars
    <3> QED BY <1>2, <3>1, <3>2, <3>3, <3>4 DEF QNext, QInv
  <2>2. CASE meant = None /\ phase = "asked"
    <3>1. UNCHANGED argvars
      BY <1>2, <2>2 DEF QNext, ArgNext, Normalize, Normalized, Parse, Ask, qvars
    <3> QED BY <2>2, <3>1 DEF QInv, argvars
  <2> QED BY <1>2, <2>1, <2>2 DEF QInv
<1> QED BY <1>1, <1>2, PTL DEF QSpec

(* The invariant says that the plan is what was meant.                     *)
LEMMA PlanFromInv ==
  ASSUME QInv
  PROVE  PlanIsMeant
<1> SUFFICES ASSUME phase \in {"planned", "refused"} PROVE PlanIsMeant
  BY DEF PlanIsMeant
<1>1. ArgInv
  BY DEF QInv
<1>2. Complete <=> phase = "planned"
  BY <1>1 DEF ArgInv
<1>3. ASSUME Complete
      PROVE  plan = CommandPlan(meant.command, Meaning(meant)) /\ meant \in CommandLines
  BY <1>1, <1>2, <1>3 DEF ArgInv, IsTyped
<1>4. ASSUME Complete, meant.command \notin {"daemon", "worker"}
      PROVE  RequestMeant
  BY <1>3, <1>4, Planning
<1>5. ASSUME Complete
      PROVE  /\ plan.command = meant.command
             /\ meant.command = "daemon" => DaemonMeant
             /\ meant.command = "worker" => plan.listen = OneSaid("--listen", Absent)
  BY <1>3, <1>5, PlanningServers
<1> QED BY <1>2, <1>4, <1>5 DEF PlanIsMeant

(* Every command line that can be carried out is planned as it was meant,  *)
(* and every other is refused, for any words, settings and values          *)
(* (normalize_args, the from_arg functions, command_plan and config).      *)
THEOREM PlansAreMeant == QSpec => []PlanIsMeant
BY QInvariant, PlanFromInv, PTL

-----------------------------------------------------------------------------
(* The parts of a word.                                                    *)
Cutting == [parts : Seq(Word), part : Word]

(* One more character of a word that is split.                             *)
CutAt(x, c, piece) ==
  IF c # piece THEN [x EXCEPT !.part = Append(@, c)]
  ELSE [parts |-> Closed(x), part |-> << >>]

(* All of them, one after the other.                                       *)
Cuts(f, word, piece, n) ==
  f = [k \in 0..n |-> IF k = 0 THEN [parts |-> << >>, part |-> << >>]
                      ELSE CutAt(f[k - 1], word[k], piece)]

(* What has been found up to a place, with the part that the place is in,  *)
(* are words.                                                              *)
LEMMA Closing ==
  ASSUME NEW x \in Cutting
  PROVE  Closed(x) \in Seq(Word)
<1>1. x.parts \in Seq(Word) /\ x.part \in Word
  BY DEF Cutting
<1>2. Append(x.parts, x.part) \in Seq(Word)
  BY <1>1, AppendProperties
<1> QED BY <1>1, <1>2 DEF Closed

(* One more character extends the part or ends it.                         *)
LEMMA CuttingOn ==
  ASSUME NEW x \in Cutting, NEW c \in Pieces, NEW piece
  PROVE  CutAt(x, c, piece) \in Cutting
<1>1. x.parts \in Seq(Word) /\ x.part \in Word /\ x = [parts |-> x.parts, part |-> x.part]
  BY DEF Cutting
<1>2. Append(x.part, c) \in Word
  BY <1>1, AppendProperties DEF Word
<1>3. [x EXCEPT !.part = Append(@, c)] = [parts |-> x.parts, part |-> Append(x.part, c)]
  BY <1>1, SMTT(30)
<1>4. << >> \in Word
  BY DEF Word
<1>5. Closed(x) \in Seq(Word)
  BY Closing
<1>6. CASE c # piece
  BY <1>1, <1>2, <1>3, <1>6 DEF CutAt, Cutting
<1>7. CASE c = piece
  BY <1>4, <1>5, <1>7 DEF CutAt, Cutting
<1> QED BY <1>6, <1>7

(* There is what split computes character by character,                    *)
LEMMA CutsExist ==
  ASSUME NEW word \in Word, NEW piece
  PROVE  \E f : Cuts(f, word, piece, Len(word)) /\ f[Len(word)] \in Cutting
<1> DEFINE n == Len(word)
           T == Cutting
           start == [parts |-> << >>, part |-> << >>]
           g == [k \in 1..n |-> [x \in T |-> CutAt(x, word[k], piece)]]
<1>0. n \in Nat /\ \A k \in 1..n : word[k] \in Pieces
  BY ElementOfSeq DEF Word
<1>1. \A x \in T, k \in 1..n : g[k][x] = CutAt(x, word[k], piece)
  OBVIOUS
<1>2. start \in T
  BY Empty DEF Cutting, Word
<1>3. \A x \in T, k \in 1..n : CutAt(x, word[k], piece) \in T
  BY <1>0, CuttingOn
<1> HIDE DEF n, T, g, start
<1>4. PICK f : Computed(f, T, start, g, n)
  <2>1. \A x \in T, k \in 1..n : g[k][x] \in T
    BY <1>1, <1>3
  <2> QED BY <1>0, <1>2, <2>1, Recursion
<1>5. \A k \in 1..n : f[k] = CutAt(f[k - 1], word[k], piece)
  <2> TAKE k \in 1..n
  <2>1. k - 1 \in 0..n
    BY <1>0
  <2>2. f[k - 1] \in T
    BY <1>4, <2>1 DEF Computed
  <2> QED BY <1>1, <1>4, <2>2 DEF Computed
<1> DEFINE h == [k \in 0..n |-> IF k = 0 THEN start ELSE CutAt(f[k - 1], word[k], piece)]
<1>6. f = h
  <2>1. ASSUME NEW k \in 0..n PROVE f[k] = h[k]
    <3>1. CASE k = 0
      BY <1>4, <3>1 DEF Computed
    <3>2. CASE k \in 1..n
      <4>1. k # 0
        BY <3>2
      <4> QED BY <1>5, <3>2, <4>1
    <3> QED BY <1>0, <3>1, <3>2
  <2> QED BY <1>4, <2>1 DEF Computed
<1>7. Cuts(f, word, piece, n)
  BY <1>6 DEF Cuts, start
<1>8. f[n] \in T
  BY <1>0, <1>4 DEF Computed
<1> QED BY <1>7, <1>8 DEF n, T

(* and it is the only one.                                                 *)
LEMMA CutsAlike ==
  ASSUME NEW n \in Nat, NEW word, NEW piece, NEW f, NEW h,
         Cuts(f, word, piece, n), Cuts(h, word, piece, n)
  PROVE  f[n] = h[n]
<1> DEFINE S == {k \in Nat : k <= n => f[k] = h[k]}
<1>1. \A k \in 0..n : k # 0 => /\ f[k] = CutAt(f[k - 1], word[k], piece)
                               /\ h[k] = CutAt(h[k - 1], word[k], piece)
  BY DEF Cuts
<1>2. f[0] = h[0]
  BY DEF Cuts
<1>3. 0 \in S
  BY <1>2
<1>4. ASSUME NEW k \in Nat, k \in S PROVE k + 1 \in S
  <2> SUFFICES ASSUME k + 1 <= n PROVE f[k + 1] = h[k + 1]
    OBVIOUS
  <2>1. k + 1 \in 0..n /\ k + 1 # 0 /\ (k + 1) - 1 = k /\ f[k] = h[k]
    BY <1>4
  <2> QED BY <1>1, <2>1
<1> HIDE DEF S
<1>5. n \in S
  BY <1>3, <1>4, Induction
<1> QED BY <1>5 DEF S

(* They are words.                                                         *)
LEMMA PartsAreWords ==
  ASSUME NEW word \in Word, NEW piece
  PROVE  Parts(word, piece) \in Seq(Word)
<1> DEFINE n == Len(word)
           F == CHOOSE f : Cuts(f, word, piece, n)
<1>1. Parts(word, piece) = Closed(F[n])
  BY DEF Parts, Cuts, CutAt
<1>2. PICK f : Cuts(f, word, piece, n) /\ f[n] \in Cutting
  BY CutsExist
<1>3. Cuts(F, word, piece, n)
  BY <1>2
<1>4. n \in Nat
  BY DEF Word
<1> HIDE DEF n, F
<1>5. F[n] = f[n]
  BY <1>2, <1>3, <1>4, CutsAlike
<1> QED BY <1>1, <1>2, <1>5, Closing

-----------------------------------------------------------------------------
(* The answer to a query that was typed.                                   *)
Wanted ==
  /\ Lists("systems", drv.system)
  /\ filter.attr_prefix # None => StartsWith(drv.attr_path, filter.attr_prefix)

(* A query is asked once it has been planned.                              *)
Asking ==
  /\ drv.attr_path \in Seq(Seq(Char))
  /\ phase # "asked" =>
       question \in Questions /\ filter = Anything /\ stage = "include_patterns"
  /\ phase = "asked" => filter = FilterOf(plan.systems, plan.prefixes)
  /\ stage = "return" => (answer <=> Wanted)

(* The fields that a command line populates.                               *)
LEMMA FilterFields ==
  ASSUME NEW systems, NEW prefixes
  PROVE  LET f == FilterOf(systems, prefixes)
         IN  /\ f.systems = IF systems = << >> THEN None ELSE systems
             /\ f.attr_prefix =
                  IF prefixes = << >> THEN None
                  ELSE X!FlattenSeq([n \in DOMAIN prefixes |-> Parts(prefixes[n], Dot)])
<1>1. Anything = [f \in Fields |-> None]
  BY QueryAssumption
<1>2. "systems" \in Fields /\ "attr_prefix" \in Fields /\ "systems" # "attr_prefix"
  BY DEF Fields
<1> QED BY <1>1, <1>2, Zenon DEF FilterOf

(* It populates no other.                                                  *)
LEMMA OtherFields ==
  ASSUME NEW systems, NEW prefixes, NEW g \in Fields \ {"systems", "attr_prefix"}
  PROVE  FilterOf(systems, prefixes)[g] = None
<1>1. Anything = [f \in Fields |-> None]
  BY QueryAssumption
<1>2. g \in Fields /\ g # "systems" /\ g # "attr_prefix"
  OBVIOUS
<1> QED BY <1>1, <1>2, Zenon DEF FilterOf

(* At first nothing has been asked.                                        *)
LEMMA NotAsked ==
  ASSUME QInit, ArgInit
  PROVE  Asking
<1>1. question \in Questions /\ stage = "include_patterns" /\ phase = "normalize"
  BY DEF QInit, FInit, ArgInit
<1>2. filter = Anything
  BY <1>1 DEF QInit, FromLibrary
<1>3. drv.attr_path \in Seq(Seq(Char))
  BY <1>1, FilterAssumption DEF drv, Strings
<1> QED BY <1>1, <1>2, <1>3 DEF Asking

(* While the arguments are read nothing is asked.                          *)
LEMMA NotYetAsked ==
  ASSUME Asking, ArgNext, UNCHANGED fvars
  PROVE  Asking'
<1>1. phase # "asked" /\ phase' # "asked"
  BY DEF ArgNext, Normalize, Normalized, Parse, Collect, Refuse
<1>2. question' = question /\ stage' = stage /\ drv' = drv /\ filter' = filter
  BY SameQuestion DEF fvars
<1> QED BY <1>1, <1>2 DEF Asking

(* filter (args.rs) makes the filter of the plan.                          *)
LEMMA AskAsks ==
  ASSUME Asking, Ask
  PROVE  Asking'
<1>1. /\ question \in Questions /\ stage = "include_patterns" /\ phase' = "asked"
      /\ stage' = stage /\ UNCHANGED plan
      /\ question' = [question EXCEPT !.filter = FilterOf(plan.systems, plan.prefixes)]
  BY DEF Asking, Ask
<1>2. DOMAIN question = {"drv", "filter"}
  BY <1>1, FilterAssumption
<1>3. question'.drv = question.drv
      /\ question'.filter = FilterOf(plan.systems, plan.prefixes)
  BY <1>1, <1>2
<1>4. drv' = drv /\ filter' = FilterOf(plan.systems, plan.prefixes)
  BY <1>3 DEF drv, filter
<1>5. FilterOf(plan.systems, plan.prefixes)' = FilterOf(plan.systems, plan.prefixes)
  BY <1>1 DEF FilterOf
<1> QED BY <1>1, <1>4, <1>5 DEF Asking

(* Of the fields that a command line does not populate none refuses a      *)
(* derivation.                                                             *)
LEMMA AskedAnswers ==
  ASSUME Asking, phase = "asked", FNext, UNCHANGED argvars
  PROVE  Asking'
<1>1. phase' = phase /\ plan' = plan /\ question' = question
  BY DEF argvars, FNext, Call, Match, Returned, Exhausted, Decide, fvars
<1>2. /\ drv' = drv /\ filter' = filter
      /\ FilterOf(plan.systems, plan.prefixes)' = FilterOf(plan.systems, plan.prefixes)
  BY <1>1 DEF drv, filter, FilterOf
<1>3. Wanted' <=> Wanted
  BY <1>2 DEF Wanted, Lists, StartsWith
<1>4. ASSUME stage' = "return" PROVE answer' <=> Wanted
  <2>1. CASE stage' = stage /\ answer' = answer
    BY <1>4, <2>1 DEF Asking
  <2>2. CASE Exhausted
    BY <1>4, <2>2 DEF Exhausted
  <2>3. CASE Decide
    <3>1. /\ filter.attr_prefixes = None /\ filter.attrs = None /\ filter.names = None
          /\ filter.drv_paths = None /\ filter.include_patterns = None
          /\ filter.exclude_patterns = None
      <4>1. \A g \in Fields \ {"systems", "attr_prefix"} : filter[g] = None
        <5>1. filter = FilterOf(plan.systems, plan.prefixes)
          BY DEF Asking
        <5>2. ASSUME NEW u, NEW v, NEW g \in Fields \ {"systems", "attr_prefix"}
              PROVE  FilterOf(u, v)[g] = None
          BY OtherFields
        <5> QED BY <5>1, <5>2, Zenon
      <4> QED BY <4>1 DEF Fields
    <3>2. /\ Lists("attrs", drv.attr_path) /\ Lists("names", drv.name)
          /\ Lists("drv_paths", drv.drv_path) /\ Included /\ ~Excluded
      BY <3>1 DEF Lists, Included, Excluded
    <3> QED BY <2>3, <3>1, <3>2 DEF Decide, Wanted
  <2>4. Call \/ Match \/ Returned => stage' = stage /\ answer' = answer
    BY DEF Call, Match, Returned, fvars
  <2> QED BY <2>1, <2>2, <2>3, <2>4 DEF FNext
<1> QED BY <1>1, <1>2, <1>3, <1>4 DEF Asking

(* A filter that did not come from the command line is decided as in the   *)
(* module Filter.                                                          *)
QAll == (meant = None /\ phase = "asked" /\ FInv) \/ (ArgInv /\ Asking)

(* In all steps of a query, wherever its filter came from.                 *)
LEMMA QAnswers == QSpec => []QAll
<1>1. ASSUME QInit PROVE QAll
  BY <1>1, Beginning, NotAsked, FilterInit DEF QInit, FromLibrary, QAll
<1>2. ASSUME QAll, QInv, QInv', [QNext]_qvars PROVE QAll'
  <2>1. CASE meant = None /\ phase = "asked" /\ FInv
    <3>1. UNCHANGED argvars /\ [FNext]_<<vars, fvars>>
      BY <1>2, <2>1 DEF QNext, ArgNext, Normalize, Normalized, Parse, Ask, qvars
    <3>2. FInv'
      BY <2>1, <3>1, FilterStep
    <3>3. meant' = None /\ phase' = "asked"
      BY <2>1, <3>1 DEF argvars
    <3> QED BY <3>2, <3>3 DEF QAll
  <2>2. CASE ArgInv /\ Asking
    <3>1. meant # None /\ meant' = meant
      BY <1>2, <2>2, QueryAssumption
      DEF ArgInv, IsTyped, QNext, ArgNext, Normalize, Normalized, Parse, Ask, qvars, argvars
    <3>2. ArgInv'
      BY <1>2, <3>1 DEF QInv
    <3>3. Asking'
      <4>1. CASE UNCHANGED qvars
        <5>1. UNCHANGED <<question, stage, answer, phase, plan>>
          BY <4>1 DEF qvars, argvars, fvars
        <5> QED BY <2>2, <5>1 DEF Asking, Wanted, drv, filter, Lists, StartsWith, FilterOf
      <4> QED BY <1>2, <2>2, <4>1, NotYetAsked, AskAsks, AskedAnswers DEF QNext
    <3> QED BY <3>2, <3>3 DEF QAll
  <2> QED BY <1>2, <2>1, <2>2 DEF QAll
<1> QED BY <1>1, <1>2, QInvariant, PTL DEF QSpec

-----------------------------------------------------------------------------
(* attr_path_starts_with, as a prefix of sequences.                        *)
LEMMA StartsIsPrefix ==
  ASSUME NEW W, NEW s \in Seq(W), NEW t \in Seq(W)
  PROVE  StartsWith(t, s) <=> X!IsPrefix(s, t)
<1>0. /\ Len(s) \in Nat /\ Len(t) \in Nat
      /\ DOMAIN s = 1..Len(s) /\ DOMAIN t = 1..Len(t)
  OBVIOUS
<1> SUFFICES ASSUME Len(s) <= Len(t)
             PROVE  (\A n \in DOMAIN t \cap DOMAIN s : t[n] = s[n])
                    <=> SubSeq(s, 1, Len(s)) = SubSeq(t, 1, Len(s))
  BY <1>0 DEF StartsWith, X!IsPrefix
<1>1. SubSeq(s, 1, Len(s)) = [n \in 1..Len(s) |-> s[n]]
  BY <1>0
<1>2. SubSeq(t, 1, Len(s)) = [n \in 1..Len(s) |-> t[n]]
  BY <1>0
<1>3. DOMAIN t \cap DOMAIN s = 1..Len(s)
  BY <1>0
<1>4. [n \in 1..Len(s) |-> s[n]] = [n \in 1..Len(s) |-> t[n]]
      <=> \A n \in 1..Len(s) : t[n] = s[n]
  <2>1. ASSUME [n \in 1..Len(s) |-> s[n]] = [n \in 1..Len(s) |-> t[n]], NEW n \in 1..Len(s)
        PROVE  t[n] = s[n]
    <3>1. [m \in 1..Len(s) |-> s[m]][n] = [m \in 1..Len(s) |-> t[m]][n]
      BY <2>1
    <3> QED BY <3>1
  <2>2. (\A n \in 1..Len(s) : t[n] = s[n])
        => [n \in 1..Len(s) |-> s[n]] = [n \in 1..Len(s) |-> t[n]]
    OBVIOUS
  <2> QED BY <2>1, <2>2
<1> QED BY <1>1, <1>2, <1>3, <1>4

(* The names of all prefixes, one after the other.                         *)
Sought(prefixes) == X!FlattenSeq([n \in DOMAIN prefixes |-> Parts(prefixes[n], Dot)])

(* The prefixes together are one sequence of names,                        *)
LEMMA SoughtWords ==
  ASSUME NEW prefixes, NEW c \in Nat, DOMAIN prefixes = 1..c,
         \A m \in 1..c : prefixes[m] \in Word
  PROVE  Sought(prefixes) \in Seq(Word)
<1> DEFINE w == [n \in DOMAIN prefixes |-> Parts(prefixes[n], Dot)]
<1>1. \A n \in 1..c : Parts(prefixes[n], Dot) \in Seq(Word)
  BY PartsAreWords
<1>2. w \in [1..c -> Seq(Word)]
  BY <1>1
<1> HIDE DEF w
<1>3. w \in Seq(Seq(Word))
  <2>1. ASSUME NEW V, w \in [1..c -> V] PROVE w \in Seq(V)
    BY <2>1, SeqDef
  <2> QED BY <1>2, <2>1
<1>4. X!FlattenSeq(w) \in Seq(Word)
  BY <1>3, Empty, Flattened
<1> QED BY <1>4 DEF Sought, w

(* an empty one if there are none.                                         *)
LEMMA NothingSought == Sought(<< >>) = << >>
<1>1. [n \in DOMAIN << >> |-> Parts(<< >>[n], Dot)] = << >>
  OBVIOUS
<1>2. Len(<< >>) = 0
  BY Empty
<1>3. X!FlattenSeq(<< >>) = << >>
  BY <1>2 DEF X!FlattenSeq
<1> QED BY <1>1, <1>3 DEF Sought

(* The invariant says that the answer is what the command line asks for.   *)
LEMMA AnswerFromInv ==
  ASSUME ArgInv, Asking
  PROVE  QueryIsMeant
<1> DEFINE systems  == All(Meaning(meant), "--system")
           prefixes == All(Meaning(meant), "--attr-prefix")
           said     == Said("--attr-prefix")
           names    == X!FlattenSeq([n \in DOMAIN said |-> Parts(said[n][1], Dot)])
<1> SUFFICES ASSUME stage = "return"
             PROVE  answer <=>
                      /\ Said("--system") # << >> =>
                           <<drv.system>> \in X!Range(Said("--system"))
                      /\ X!IsPrefix(names, drv.attr_path)
  BY DEF QueryIsMeant
<1>1. /\ phase = "asked" /\ filter = FilterOf(plan.systems, plan.prefixes)
      /\ answer <=> Wanted
  BY DEF Asking
<1>2. /\ meant \in CommandLines /\ Carried /\ meant.command = "query"
      /\ plan = CommandPlan("query", Meaning(meant))
  BY <1>1, AcceptedIs DEF ArgInv, IsTyped
<1>3. plan.systems = systems /\ plan.prefixes = prefixes
  BY <1>2 DEF CommandPlan
<1>4. ValuesSaid("--system") /\ ValuesSaid("--attr-prefix")
  BY <1>2, ValuesAsSaid DEF Plain
<1>5. Spoken("--system") /\ Spoken("--attr-prefix")
  BY <1>2, Speaking
<1>6. /\ filter.systems = IF systems = << >> THEN None ELSE systems
      /\ filter.attr_prefix = IF prefixes = << >> THEN None ELSE Sought(prefixes)
  BY <1>1, <1>3, FilterFields DEF Sought
<1>7. Lists("systems", drv.system)
      <=> (Said("--system") # << >> => <<drv.system>> \in X!Range(Said("--system")))
  <2> DEFINE c == Times("--system")
             all == Said("--system")
  <2>1. /\ c \in Nat /\ DOMAIN systems = 1..c /\ DOMAIN all = 1..c
        /\ \A m \in 1..c : systems[m] \in Word /\ all[m] = <<systems[m]>>
        /\ all = << >> <=> c = 0
        /\ systems = << >> <=> c = 0
    BY <1>4, <1>5 DEF ValuesSaid, Spoken
  <2> HIDE DEF c, all, systems
  <2>2. CASE c = 0
    <3>1. filter.systems = None /\ all = << >>
      BY <1>6, <2>1, <2>2
    <3> QED BY <3>1 DEF Lists, all
  <2>3. CASE c # 0
    <3>1. systems # << >> /\ all # << >> /\ filter.systems = systems
      BY <1>6, <2>1, <2>3
    <3>2. systems # None
      <4>1. systems \in Seq(Word)
        <5>1. systems = [m \in 1..c |-> systems[m]]
          BY <1>5, <2>1 DEF Spoken, systems, c
        <5>2. ASSUME NEW V, systems \in [1..c -> V] PROVE systems \in Seq(V)
          BY <2>1, <5>2, SeqDef
        <5>3. systems \in [1..c -> Word]
          BY <2>1, <5>1
        <5> QED BY <5>2, <5>3
      <4> QED BY <4>1, QueryAssumption DEF Word
    <3>3. <<drv.system>> \in X!Range(all) <=> \E m \in 1..c : systems[m] = drv.system
      <4>1. <<drv.system>> \in X!Range(all) <=> \E m \in 1..c : all[m] = <<drv.system>>
        BY <2>1 DEF X!Range
      <4>2. ASSUME NEW m \in 1..c
            PROVE  all[m] = <<drv.system>> <=> systems[m] = drv.system
        <5>1. all[m] = <<systems[m]>>
          BY <2>1
        <5>2. ASSUME NEW u, NEW v PROVE <<u>> = <<v>> <=> u = v
          OBVIOUS
        <5> QED BY <5>1, <5>2
      <4> QED BY <4>1, <4>2
    <3> QED BY <2>1, <3>1, <3>2, <3>3 DEF Lists, all
  <2> QED BY <2>2, <2>3
<1>8. (filter.attr_prefix # None => StartsWith(drv.attr_path, filter.attr_prefix))
      <=> X!IsPrefix(names, drv.attr_path)
  <2> DEFINE c == Times("--attr-prefix")
  <2>1. /\ c \in Nat /\ DOMAIN prefixes = 1..c /\ DOMAIN said = 1..c
        /\ \A m \in 1..c : prefixes[m] \in Word /\ said[m] = <<prefixes[m]>>
        /\ prefixes = << >> <=> c = 0
    BY <1>4, <1>5 DEF ValuesSaid, Spoken
  <2> HIDE DEF c, said, prefixes
  <2>2. names = Sought(prefixes)
    <3>1. \A m \in 1..c : said[m][1] = prefixes[m]
      BY <2>1
    <3>2. [n \in DOMAIN said |-> Parts(said[n][1], Dot)]
          = [n \in DOMAIN prefixes |-> Parts(prefixes[n], Dot)]
      BY <2>1, <3>1
    <3> QED BY <3>2 DEF Sought
  <2>3. names \in Seq(Word)
    BY <2>1, <2>2, SoughtWords
  <2>4. StartsWith(drv.attr_path, names) <=> X!IsPrefix(names, drv.attr_path)
    <3> DEFINE W == Word \cup Seq(Char)
    <3>1. ASSUME NEW U, NEW V, NEW s \in Seq(U) PROVE s \in Seq(U \cup V)
      OBVIOUS
    <3>2. names \in Seq(W)
      BY <2>3, <3>1
    <3>3. drv.attr_path \in Seq(W)
      <4>1. drv.attr_path \in Seq(Seq(Char) \cup Word)
        BY <3>1 DEF Asking
      <4>2. Seq(Char) \cup Word = W
        OBVIOUS
      <4> QED BY <4>1, <4>2
    <3> HIDE DEF W, names
    <3> QED BY <3>2, <3>3, StartsIsPrefix
  <2> HIDE DEF names
  <2>5. CASE c = 0
    <3>1. filter.attr_prefix = None /\ names = << >>
      BY <1>6, <2>1, <2>2, <2>5, NothingSought
    <3>2. StartsWith(drv.attr_path, << >>)
      BY DEF StartsWith, Asking
    <3> QED BY <2>4, <3>1, <3>2
  <2>6. CASE c # 0
    <3>1. filter.attr_prefix = names
      BY <1>6, <2>1, <2>2, <2>6
    <3>2. names # None
      BY <2>3, QueryAssumption DEF Word
    <3> QED BY <2>4, <3>1, <3>2
  <2> QED BY <2>5, <2>6
<1> QED BY <1>1, <1>7, <1>8 DEF Wanted

(* `evix query` lets through exactly the derivations of the systems that   *)
(* are named whose path begins with the names of the prefixes, for any     *)
(* words (normalize_args, filter in args.rs, matches_filter).              *)
THEOREM QueriesAreMeant == QSpec => []QueryIsMeant
<1>1. ASSUME QAll PROVE QueryIsMeant
  BY <1>1, AnswerFromInv DEF QAll, QueryIsMeant
<1> QED BY <1>1, QAnswers, PTL

(* The filter of a query that was typed is decided as any other.           *)
LEMMA PrefixIsNames ==
  ASSUME ArgInv, Asking, phase = "asked", filter.attr_prefix # None
  PROVE  filter.attr_prefix \in Seq(Word)
<1> DEFINE prefixes == All(Meaning(meant), "--attr-prefix")
<1>1. filter = FilterOf(plan.systems, plan.prefixes)
  BY DEF Asking
<1>2. /\ meant \in CommandLines /\ Carried
      /\ plan = CommandPlan("query", Meaning(meant))
  BY AcceptedIs DEF ArgInv, IsTyped
<1>3. plan.prefixes = prefixes
  BY <1>2 DEF CommandPlan
<1>4. ValuesSaid("--attr-prefix")
  BY <1>2, ValuesAsSaid DEF Plain
<1>5. Sought(prefixes) \in Seq(Word)
  BY <1>4, SoughtWords DEF ValuesSaid
<1>6. filter.attr_prefix = Sought(prefixes)
  BY <1>1, <1>3, FilterFields DEF Sought
<1> QED BY <1>5, <1>6

(* What matches_filter computes of such a filter is what it means.         *)
LEMMA FilteredFromInv ==
  ASSUME ArgInv, Asking
  PROVE  FilterRight
<1> SUFFICES ASSUME stage = "return" PROVE answer <=> Admitted
  BY DEF FilterRight
<1>1. phase = "asked" /\ (answer <=> Wanted) /\ drv.attr_path \in Seq(Seq(Char))
  BY DEF Asking
<1>2. \A g \in Fields \ {"systems", "attr_prefix"} : filter[g] = None
  <2>1. filter = FilterOf(plan.systems, plan.prefixes)
    BY <1>1 DEF Asking
  <2>2. ASSUME NEW u, NEW v, NEW g \in Fields \ {"systems", "attr_prefix"}
        PROVE  FilterOf(u, v)[g] = None
    BY OtherFields
  <2> QED BY <2>1, <2>2, Zenon
<1>3. Admitted <=>
        /\ Lists("systems", drv.system)
        /\ filter.attr_prefix # None => Selects("attr_prefixes", filter.attr_prefix)
  BY <1>2, ListsRight DEF Admitted, Fields
<1>4. ASSUME filter.attr_prefix # None
      PROVE  StartsWith(drv.attr_path, filter.attr_prefix)
             <=> Selects("attr_prefixes", filter.attr_prefix)
  <2> DEFINE W == Word \cup Seq(Char)
  <2>1. ASSUME NEW U, NEW V, NEW s \in Seq(U) PROVE s \in Seq(U \cup V)
    OBVIOUS
  <2>2. filter.attr_prefix \in Seq(W)
    BY <1>1, <1>4, <2>1, PrefixIsNames
  <2>3. drv.attr_path \in Seq(W)
    <3>1. drv.attr_path \in Seq(Seq(Char) \cup Word)
      BY <1>1, <2>1
    <3>2. Seq(Char) \cup Word = W
      OBVIOUS
    <3> QED BY <3>1, <3>2
  <2> HIDE DEF W
  <2> QED BY <2>2, <2>3, Begins DEF Selects
<1> QED BY <1>1, <1>3, <1>4 DEF Wanted

(* A query lets through exactly the derivations that its filter selects,   *)
(* also when the filter was typed: filter (args.rs) populates no field     *)
(* that matches_filter would misread.                                      *)
THEOREM QueriesAreFiltered == QSpec => []FilterRight
<1>1. ASSUME QAll PROVE FilterRight
  BY <1>1, FilteredFromInv DEF QAll, FInv
<1> QED BY <1>1, QAnswers, PTL
=============================================================================
