---------------------------- MODULE AccessProofs ----------------------------
(***************************************************************************)
(* Proofs about what users are let in to do: module Policy, for every      *)
(* topology and every set of files, and module Auth, for any number of     *)
(* requests, subjects, native accounts, logins, restarts and faults.  The  *)
(* two share no state; each part has an inductive invariant of its own.    *)
(***************************************************************************)
EXTENDS Policy, Auth, SequenceTheorems, WellFoundedInduction, TLAPS

(***************************************************************************)
(* References                                                              *)
(***************************************************************************)
(* A nonempty set of naturals has a least element. *)
LEMMA LeastNatural ==
  ASSUME NEW T, T \subseteq Nat, T # {}
  PROVE  \E x \in T : \A y \in T : x <= y
<1> DEFINE R == {ss \in Nat \X Nat : ss[1] < ss[2]}
<1>1. IsWellFoundedOn(R, Nat)
  BY NatLessThanWellFounded, Zenon DEF OpToRel
<1> HIDE DEF R
<1>2. PICK x \in T : \A y \in T : ~(<<y, x>> \in R)
  BY <1>1, WFMin, Zenon
<1>3. ASSUME NEW y \in T
      PROVE  x <= y
  <2>1. <<y, x>> \in Nat \X Nat
    OBVIOUS
  <2>2. ~(y < x)
    BY <1>2, <2>1 DEF R
  <2> QED
    BY <2>2
<1> QED
  BY <1>3

(* The names paths are made of; the prover does not know which names are  *)
(* strings.                                                                *)
Name == STRING \cup {"..", "topologies", "t"}

(* Paths are sequences of names, and the directory of the topology is one. *)
LEMMA Paths ==
  /\ Home \in Seq(Name) /\ Len(Home) = 2 /\ Home[1] = "topologies" /\ Home[2] = "t"
  /\ \A s \in Seq(STRING) : s \in Seq(Name)
<1>1. "topologies" \in Name /\ "t" \in Name /\ STRING \subseteq Name
  BY DEF Name
<1>2. Home \in Seq(Name) /\ Len(Home) = 2 /\ Home[1] = "topologies" /\ Home[2] = "t"
  BY <1>1 DEF Home
<1>3. ASSUME NEW S, S \subseteq Name, NEW s \in Seq(S)
      PROVE  s \in Seq(Name)
  BY <1>3
<1> QED
  BY <1>1, <1>2, <1>3

(* A path without its last element. *)
LEMMA FrontOfPath ==
  ASSUME NEW s \in Seq(Name), s # <<>>
  PROVE  /\ SubSeq(s, 1, Len(s) - 1) \in Seq(Name)
         /\ Len(SubSeq(s, 1, Len(s) - 1)) = Len(s) - 1
         /\ \A j \in 1 .. Len(s) - 1 : SubSeq(s, 1, Len(s) - 1)[j] = s[j]
<1>1. Len(s) \in Nat /\ Len(s) >= 1 /\ \A j \in 1 .. Len(s) - 1 : s[j] \in Name
  OBVIOUS
<1>2. PICK n : n = Len(s) - 1
  OBVIOUS
<1>3. n \in Nat /\ n \in Int /\ \A j \in 1 .. n : s[j] \in Name
  BY <1>1, <1>2
<1>4. /\ SubSeq(s, 1, n) \in Seq(Name)
      /\ Len(SubSeq(s, 1, n)) = IF 1 <= n THEN n - 1 + 1 ELSE 0
      /\ \A j \in 1 .. n - 1 + 1 : SubSeq(s, 1, n)[j] = s[1 + j - 1]
  BY <1>3, SubSeqProperties
<1>5. Len(SubSeq(s, 1, n)) = n /\ \A j \in 1 .. n : SubSeq(s, 1, n)[j] = s[j]
  BY <1>3, <1>4
<1> QED
  BY <1>2, <1>4, <1>5

(* What Clean and Walk do with one element of a path. *)
CleanStep(done, p) ==
  IF p = "." THEN done
  ELSE IF p = ".." /\ done # <<>> /\ done[Len(done)] # ".." THEN SubSeq(done, 1, Len(done) - 1)
  ELSE Append(done, p)

WalkStep(at, p) ==
  IF p = "." THEN at
  ELSE IF p # ".." THEN Append(at, p)
  ELSE IF at = <<>> THEN at
  ELSE SubSeq(at, 1, Len(at) - 1)

(* The two recursive functions Clean and Walk use. *)
CleanUpTo(parts) ==
  CHOOSE f : f = [i \in 0 .. Len(parts) |-> IF i = 0 THEN <<>> ELSE CleanStep(f[i - 1], parts[i])]

WalkUpTo(parts) ==
  CHOOSE f : f = [i \in 0 .. Len(parts) |-> IF i = 0 THEN Home ELSE WalkStep(f[i - 1], parts[i])]

(* A function that makes n steps of Clean; and of Walk. *)
Cleans(f, parts, n) == f = [i \in 0 .. n |-> IF i = 0 THEN <<>> ELSE CleanStep(f[i - 1], parts[i])]
Walks(f, parts, n) == f = [i \in 0 .. n |-> IF i = 0 THEN Home ELSE WalkStep(f[i - 1], parts[i])]

(* Clean's function exists, however long the path is. *)
LEMMA CleanExists ==
  ASSUME NEW parts, NEW n \in Nat
  PROVE  \E f : Cleans(f, parts, n)
<1> DEFINE Bad == {m \in Nat : ~\E f : Cleans(f, parts, m)}
<1> SUFFICES ASSUME Bad # {} PROVE FALSE
  OBVIOUS
<1>1. PICK m \in Bad : \A k \in Bad : m <= k
  BY LeastNatural
<1>2. m # 0
  <2>1. Cleans([i \in 0 .. 0 |-> <<>>], parts, 0)
    BY DEF Cleans
  <2> QED
    BY <2>1
<1>3. PICK f : Cleans(f, parts, m - 1)
  BY <1>1, <1>2
<1>4. PICK g : g = [i \in 0 .. m |-> IF i = m THEN CleanStep(f[m - 1], parts[m]) ELSE f[i]]
  OBVIOUS
<1>5. \A i \in 0 .. m : g[i] = IF i = 0 THEN <<>> ELSE CleanStep(g[i - 1], parts[i])
  <2> TAKE i \in 0 .. m
  <2>1. CASE i = 0
    BY <1>2, <1>3, <1>4, <2>1 DEF Cleans
  <2>2. CASE i = m
    BY <1>2, <1>4, <2>2
  <2>3. CASE i # 0 /\ i # m
    <3>1. i \in 0 .. m - 1 /\ i - 1 \in 0 .. m /\ i - 1 # m /\ i # 0
      BY <2>3
    <3>2. f[i] = CleanStep(f[i - 1], parts[i])
      BY <1>3, <3>1 DEF Cleans
    <3> QED
      BY <1>4, <2>3, <3>1, <3>2
  <2> QED
    BY <2>1, <2>2, <2>3
<1>6. Cleans(g, parts, m)
  <2>1. g = [i \in 0 .. m |-> g[i]]
    BY <1>4
  <2> QED
    BY <1>5, <2>1 DEF Cleans
<1> QED
  BY <1>6

(* So does Walk's. *)
LEMMA WalkExists ==
  ASSUME NEW parts, NEW n \in Nat
  PROVE  \E f : Walks(f, parts, n)
<1> DEFINE Bad == {m \in Nat : ~\E f : Walks(f, parts, m)}
<1> SUFFICES ASSUME Bad # {} PROVE FALSE
  OBVIOUS
<1>1. PICK m \in Bad : \A k \in Bad : m <= k
  BY LeastNatural
<1>2. m # 0
  <2>1. Walks([i \in 0 .. 0 |-> Home], parts, 0)
    BY DEF Walks
  <2> QED
    BY <2>1
<1>3. PICK f : Walks(f, parts, m - 1)
  BY <1>1, <1>2
<1>4. PICK g : g = [i \in 0 .. m |-> IF i = m THEN WalkStep(f[m - 1], parts[m]) ELSE f[i]]
  OBVIOUS
<1>5. \A i \in 0 .. m : g[i] = IF i = 0 THEN Home ELSE WalkStep(g[i - 1], parts[i])
  <2> TAKE i \in 0 .. m
  <2>1. CASE i = 0
    BY <1>2, <1>3, <1>4, <2>1 DEF Walks
  <2>2. CASE i = m
    BY <1>2, <1>4, <2>2
  <2>3. CASE i # 0 /\ i # m
    <3>1. i \in 0 .. m - 1 /\ i - 1 \in 0 .. m /\ i - 1 # m /\ i # 0
      BY <2>3
    <3>2. f[i] = WalkStep(f[i - 1], parts[i])
      BY <1>3, <3>1 DEF Walks
    <3> QED
      BY <1>4, <2>3, <3>1, <3>2
  <2> QED
    BY <2>1, <2>2, <2>3
<1>6. Walks(g, parts, m)
  <2>1. g = [i \in 0 .. m |-> g[i]]
    BY <1>4
  <2> QED
    BY <1>5, <2>1 DEF Walks
<1> QED
  BY <1>6

(* Clean and Walk go through the path element by element. *)
LEMMA StepByStep ==
  ASSUME NEW parts \in Seq(Name)
  PROVE  \E c, w :
           /\ c[0] = <<>> /\ w[0] = Home
           /\ \A i \in 1 .. Len(parts) : c[i] = CleanStep(c[i - 1], parts[i]) /\ w[i] = WalkStep(w[i - 1], parts[i])
           /\ Clean(parts) = c[Len(parts)] /\ Walk(parts) = w[Len(parts)]
<1>1. Len(parts) \in Nat
  OBVIOUS
<1>2. Cleans(CleanUpTo(parts), parts, Len(parts))
  BY <1>1, CleanExists, Zenon DEF CleanUpTo, Cleans
<1>3. Walks(WalkUpTo(parts), parts, Len(parts))
  BY <1>1, WalkExists, Zenon DEF WalkUpTo, Walks
<1>4. Clean(parts) = CleanUpTo(parts)[Len(parts)]
  BY Zenon DEF Clean, CleanUpTo, CleanStep
<1>5. Walk(parts) = WalkUpTo(parts)[Len(parts)]
  BY Zenon DEF Walk, WalkUpTo, WalkStep
<1>6. PICK c, w : c = CleanUpTo(parts) /\ w = WalkUpTo(parts)
  OBVIOUS
<1>7. c[0] = <<>> /\ \A i \in 1 .. Len(parts) : c[i] = CleanStep(c[i - 1], parts[i])
  BY <1>1, <1>2, <1>6 DEF Cleans
<1>8. w[0] = Home /\ \A i \in 1 .. Len(parts) : w[i] = WalkStep(w[i - 1], parts[i])
  BY <1>1, <1>3, <1>6 DEF Walks
<1> QED
  BY <1>4, <1>5, <1>6, <1>7, <1>8

(* w is the path c below the directory of the topology. *)
Below(w, c) ==
  /\ w \in Seq(Name)
  /\ Len(w) = Len(c) + 2
  /\ w[1] = "topologies" /\ w[2] = "t"
  /\ \A j \in 1 .. Len(c) : w[j + 2] = c[j]

(* A path that has been cleaned so far leads out of the directory, or has  *)
(* only names in it and leads where it is walked to.                       *)
InStep(c, w) ==
  /\ c \in Seq(Name)
  /\ \/ c # <<>> /\ c[1] = ".."
     \/ Below(w, c) /\ \A j \in 1 .. Len(c) : c[j] # ".."

(* One more element keeps Clean and Walk in step. *)
LEMMA ElementKeepsStep ==
  ASSUME NEW c, NEW w, InStep(c, w), NEW p \in Name
  PROVE  InStep(CleanStep(c, p), WalkStep(w, p))
<1>1. c \in Seq(Name) /\ Len(c) \in Nat
  BY DEF InStep
<1>2. CASE p = "."
  BY <1>2 DEF CleanStep, WalkStep
<1>3. CASE p # "." /\ p # ".."
  <2>1. CleanStep(c, p) = Append(c, p) /\ WalkStep(w, p) = Append(w, p)
    BY <1>3 DEF CleanStep, WalkStep
  <2>2. Append(c, p) \in Seq(Name)
    BY <1>1
  <2>3. CASE c # <<>> /\ c[1] = ".."
    <3>1. Append(c, p) # <<>> /\ Append(c, p)[1] = ".."
      BY <1>1, <2>3
    <3> QED
      BY <2>1, <2>2, <3>1 DEF InStep
  <2>4. CASE Below(w, c) /\ \A j \in 1 .. Len(c) : c[j] # ".."
    <3>1. Below(Append(w, p), Append(c, p))
      BY <1>1, <2>4 DEF Below
    <3>2. \A j \in 1 .. Len(Append(c, p)) : Append(c, p)[j] # ".."
      BY <1>1, <1>3, <2>4
    <3> QED
      BY <2>1, <2>2, <3>1, <3>2 DEF InStep
  <2> QED
    BY <2>3, <2>4 DEF InStep
<1>4. CASE p = ".." /\ c # <<>> /\ c[Len(c)] # ".."
  <2>1. CleanStep(c, p) = SubSeq(c, 1, Len(c) - 1)
    BY <1>4 DEF CleanStep
  <2>2. /\ SubSeq(c, 1, Len(c) - 1) \in Seq(Name)
        /\ Len(SubSeq(c, 1, Len(c) - 1)) = Len(c) - 1
        /\ \A j \in 1 .. Len(c) - 1 : SubSeq(c, 1, Len(c) - 1)[j] = c[j]
    BY <1>1, <1>4, FrontOfPath
  <2>3. CASE c[1] = ".."
    <3>1. Len(c) # 1 /\ Len(c) # 0
      BY <1>1, <1>4, <2>3
    <3>2. SubSeq(c, 1, Len(c) - 1) # <<>> /\ SubSeq(c, 1, Len(c) - 1)[1] = ".."
      <4>1. Len(c) - 1 >= 1 /\ Len(c) - 1 # 0
        <5>1. PICK n : n = Len(c)
          OBVIOUS
        <5>2. n \in Nat /\ n # 1 /\ n # 0
          BY <1>1, <3>1, <5>1
        <5> QED
          BY <5>1, <5>2
      <4>2. SubSeq(c, 1, Len(c) - 1) # <<>>
        BY <2>2, <4>1
      <4>3. 1 \in 1 .. Len(c) - 1
        BY <1>1, <4>1
      <4> QED
        BY <2>2, <2>3, <4>2, <4>3
    <3> QED
      BY <2>1, <2>2, <3>2 DEF InStep
  <2>4. CASE Below(w, c) /\ \A j \in 1 .. Len(c) : c[j] # ".."
    <3>1. w \in Seq(Name) /\ Len(w) = Len(c) + 2 /\ w # <<>>
      BY <1>1, <2>4 DEF Below
    <3>2. WalkStep(w, p) = SubSeq(w, 1, Len(w) - 1)
      BY <1>4, <3>1 DEF WalkStep
    <3>3. /\ SubSeq(w, 1, Len(w) - 1) \in Seq(Name)
          /\ Len(SubSeq(w, 1, Len(w) - 1)) = Len(c) + 1
          /\ \A j \in 1 .. Len(c) + 1 : SubSeq(w, 1, Len(w) - 1)[j] = w[j]
      <4>1. Len(w) - 1 = Len(c) + 1
        BY <1>1, <3>1
      <4> QED
        BY <3>1, <4>1, FrontOfPath
    <3>4. Below(SubSeq(w, 1, Len(w) - 1), SubSeq(c, 1, Len(c) - 1))
      <4>1. Len(c) >= 1
        BY <1>1, <1>4
      <4>2. \A j \in 1 .. Len(c) - 1 : j + 2 \in 1 .. Len(c) + 1 /\ w[j + 2] = c[j]
        BY <1>1, <2>4 DEF Below
      <4> QED
        BY <1>1, <2>2, <2>4, <3>3, <4>1, <4>2 DEF Below
    <3>5. \A j \in 1 .. Len(SubSeq(c, 1, Len(c) - 1)) : SubSeq(c, 1, Len(c) - 1)[j] # ".."
      BY <1>1, <2>2, <2>4
    <3> QED
      BY <2>1, <2>2, <3>2, <3>4, <3>5 DEF InStep
  <2> QED
    BY <1>4, <2>3, <2>4 DEF InStep
<1>5. CASE p = ".." /\ ~(c # <<>> /\ c[Len(c)] # "..")
  <2>1. CleanStep(c, p) = Append(c, p)
    BY <1>5 DEF CleanStep
  <2>2. Append(c, p) \in Seq(Name) /\ Append(c, p) # <<>>
    BY <1>1
  <2>3. Append(c, p)[1] = ".."
    <3>1. CASE c = <<>>
      BY <1>5, <3>1
    <3>2. CASE c # <<>>
      <4>1. c[1] = ".."
        <5>1. Len(c) \in 1 .. Len(c) /\ c[Len(c)] = ".."
          BY <1>1, <1>5, <3>2
        <5> QED
          BY <5>1 DEF InStep
      <4> QED
        BY <1>1, <3>2, <4>1
    <3> QED
      BY <3>1, <3>2
  <2> QED
    BY <2>1, <2>2, <2>3 DEF InStep
<1> QED
  BY <1>2, <1>3, <1>4, <1>5

(* A path that is local once it is cleaned leads below the directory of    *)
(* the topology, wherever it turns on its way.                             *)
LEMMA CleanIsWalk ==
  ASSUME NEW parts \in Seq(Name), IsBelow(Clean(parts))
  PROVE  Clean(parts) \in Seq(Name) /\ Clean(parts) # <<>> /\ Below(Walk(parts), Clean(parts))
<1>1. PICK c, w :
           /\ c[0] = <<>> /\ w[0] = Home
           /\ \A i \in 1 .. Len(parts) : c[i] = CleanStep(c[i - 1], parts[i]) /\ w[i] = WalkStep(w[i - 1], parts[i])
           /\ Clean(parts) = c[Len(parts)] /\ Walk(parts) = w[Len(parts)]
  BY StepByStep
<1>2. Len(parts) \in Nat /\ \A i \in 1 .. Len(parts) : parts[i] \in Name
  OBVIOUS
<1> DEFINE Bad == {m \in 0 .. Len(parts) : ~InStep(c[m], w[m])}
<1>3. Bad = {}
  <2> SUFFICES ASSUME Bad # {} PROVE FALSE
    OBVIOUS
  <2>1. PICK m \in Bad : \A k \in Bad : m <= k
    <3>1. Bad \subseteq Nat
      OBVIOUS
    <3> QED
      BY <3>1, LeastNatural
  <2>2. m # 0
    <3>1. InStep(<<>>, Home)
      BY Paths DEF InStep, Below
    <3> QED
      BY <1>1, <3>1
  <2>3. InStep(c[m - 1], w[m - 1]) /\ m \in 1 .. Len(parts)
    BY <1>2, <2>1, <2>2
  <2>4. InStep(c[m], w[m])
    BY <1>1, <1>2, <2>3, ElementKeepsStep
  <2> QED
    BY <2>4
<1>4. InStep(Clean(parts), Walk(parts))
  BY <1>1, <1>2, <1>3
<1> QED
  BY <1>4 DEF InStep, IsBelow

(* The file isOwnFile finds is the one the reference leads to. *)
LEMMA OwnFilesAreReached ==
  ASSUME NEW ref, NEW files, isOwnFile(ref, files), ref.parts \in Seq(Name),
         \A f \in files : f \in Seq(Name)
  PROVE  LeadsToOwnFile(ref, files)
<1>1. PICK c, w : c = Clean(ref.parts) /\ w = Walk(ref.parts)
  OBVIOUS
<1>2. PICK f \in files : Contains(c, f)
  BY <1>1 DEF isOwnFile
<1>3. c \in Seq(Name) /\ c # <<>> /\ Below(w, c) /\ Len(c) \in Nat /\ Len(c) # 0
  <2>1. IsBelow(Clean(ref.parts))
    BY DEF isOwnFile
  <2> QED
    BY <1>1, <2>1, CleanIsWalk
<1>4. f \in Seq(Name) /\ Len(f) \in Nat
  OBVIOUS
<1>5. /\ w \in Seq(Name) /\ Len(w) = Len(c) + 2
      /\ w[1] = "topologies" /\ w[2] = "t"
      /\ \A j \in 1 .. Len(c) : w[j + 2] = c[j]
  BY <1>3 DEF Below
<1>6. w # Home
  <2>1. Len(w) # 2
    BY <1>3, <1>5
  <2> QED
    BY <2>1, Paths
<1>7. PICK h : h = Home \o f
  OBVIOUS
<1>8. /\ h \in Seq(Name) /\ Len(h) = Len(f) + 2
      /\ h[1] = "topologies" /\ h[2] = "t"
      /\ \A j \in 1 .. Len(f) : h[j + 2] = f[j]
  <2>1. Home \in Seq(Name) /\ Len(Home) = 2 /\ Home[1] = "topologies" /\ Home[2] = "t"
    BY Paths
  <2>2. h \in Seq(Name) /\ Len(h) = 2 + Len(f) /\ \A j \in 1 .. 2 + Len(f) : h[j] = IF j <= 2 THEN Home[j] ELSE f[j - 2]
    <3>1. /\ Home \o f \in Seq(Name) /\ Len(Home \o f) = Len(Home) + Len(f)
          /\ \A j \in 1 .. Len(Home) + Len(f) : (Home \o f)[j] = IF j <= Len(Home) THEN Home[j] ELSE f[j - Len(Home)]
      BY <1>4, <2>1, ConcatProperties
    <3> QED
      BY <1>7, <2>1, <3>1
  <2> QED
    BY <1>4, <2>1, <2>2
<1>9. Len(c) <= Len(f) /\ \A j \in 1 .. Len(c) : f[j] = c[j]
  <2>1. Len(c) <= Len(f) /\ SubSeq(f, 1, Len(c)) = c
    BY <1>2 DEF Contains
  <2>2. \A j \in 1 .. Len(c) : SubSeq(f, 1, Len(c))[j] = f[j]
    BY <1>3, <1>4, <2>1
  <2> QED
    BY <2>1, <2>2
<1>10. Contains(w, h)
  <2>1. Len(w) \in Nat /\ Len(w) <= Len(h) /\ Len(h) \in Nat
    BY <1>3, <1>4, <1>5, <1>8, <1>9
  <2>2. \A j \in 1 .. Len(w) : h[j] = w[j]
    <3> TAKE j \in 1 .. Len(w)
    <3>1. CASE j = 1 \/ j = 2
      BY <1>5, <1>8, <3>1
    <3>2. CASE j > 2
      <4>1. j - 2 \in 1 .. Len(c) /\ j - 2 \in 1 .. Len(f) /\ (j - 2) + 2 = j
        BY <1>3, <1>4, <1>5, <1>9, <3>2
      <4> QED
        BY <1>5, <1>8, <1>9, <4>1
    <3> QED
      BY <2>1, <3>1, <3>2
  <2>3. /\ SubSeq(h, 1, Len(w)) \in Seq(Name)
        /\ Len(SubSeq(h, 1, Len(w))) = Len(w)
        /\ \A j \in 1 .. Len(w) : SubSeq(h, 1, Len(w))[j] = h[j]
    BY <1>8, <2>1
  <2>4. SubSeq(h, 1, Len(w)) = w
    BY <1>5, <2>1, <2>2, <2>3, SeqEqual
  <2> QED
    BY <2>1, <2>4 DEF Contains
<1>11. Contains(Home, w)
  <2>1. Home \in Seq(Name) /\ Len(Home) = 2 /\ Home[1] = "topologies" /\ Home[2] = "t"
    BY Paths
  <2>2. Len(Home) <= Len(w)
    BY <1>3, <1>5, <2>1
  <2>3. /\ SubSeq(w, 1, Len(Home)) \in Seq(Name)
        /\ Len(SubSeq(w, 1, Len(Home))) = 2
        /\ \A j \in 1 .. 2 : SubSeq(w, 1, Len(Home))[j] = w[j]
    BY <1>5, <2>1, <2>2
  <2>4. SubSeq(w, 1, Len(Home)) = Home
    BY <1>5, <2>1, <2>3, SeqEqual
  <2> QED
    BY <2>2, <2>4 DEF Contains
<1> QED
  BY <1>1, <1>6, <1>7, <1>10, <1>11 DEF LeadsToOwnFile, isOwnFile

-----------------------------------------------------------------------------
(***************************************************************************)
(* The rules                                                               *)
(***************************************************************************)
(* Every definition of a topology is looked at under its path. *)
LEMMA EveryDefinition ==
  ASSUME NEW topo, NEW d, d = Definitions(topo)
  PROVE  /\ <<"defaults">> \in DOMAIN d /\ d[<<"defaults">>] = topo.defaults
         /\ \A n \in DOMAIN topo.kinds : <<"kinds", n>> \in DOMAIN d /\ d[<<"kinds", n>>] = topo.kinds[n]
         /\ \A n \in DOMAIN topo.groups : <<"groups", n>> \in DOMAIN d /\ d[<<"groups", n>>] = topo.groups[n]
         /\ \A n \in DOMAIN topo.nodes : <<"nodes", n>> \in DOMAIN d /\ d[<<"nodes", n>>] = topo.nodes[n]
<1>1. <<"defaults">> \in DOMAIN d /\ d[<<"defaults">>] = topo.defaults
  BY DEF Definitions
<1>2. ASSUME NEW section \in {"kinds", "groups", "nodes"}, NEW n \in DOMAIN topo[section]
      PROVE  <<section, n>> \in DOMAIN d /\ d[<<section, n>>] = topo[section][n]
  <2>1. <<section, n>> \in {section} \X DOMAIN topo[section] /\ <<section, n>> # <<"defaults">>
    OBVIOUS
  <2> QED
    BY <2>1 DEF Definitions
<1> QED
  BY <1>1, <1>2

(* No rule reports anything of the definition: of its keys and its values. *)
Unreported(def, files) ==
  /\ DOMAIN def \subseteq AllowedFields
  /\ \A f \in DOMAIN def : Harmless(f, def[f], files)

(* A reference that is not reported leads to a file of the topology. *)
LEMMA UnreportedReference ==
  ASSUME NEW path, NEW ref, NEW files, checkFileReference(path, ref, files) = {},
         ref.start = "here" => ref.parts \in Seq(STRING), files \subseteq Seq(STRING)
  PROVE  LeadsToOwnFile(ref, files)
<1>1. isOwnFile(ref, files)
  BY DEF checkFileReference
<1>2. ref.parts \in Seq(Name) /\ \A f \in files : f \in Seq(Name)
  BY <1>1, Paths DEF isOwnFile
<1> QED
  BY <1>1, <1>2, OwnFilesAreReached

(* The rules report every field of a definition that is not harmless. *)
LEMMA UnreportedDefinition ==
  ASSUME NEW path, NEW def, NEW files, files \subseteq Seq(STRING),
         checkNodeKeys(path, def) = {}, checkNodeDefinition(path, def, files) = {},
         \A r \in FileReferences(def) : r[2].start = "here" => r[2].parts \in Seq(STRING)
  PROVE  Unreported(def, files)
<1>1. \A k \in DOMAIN def : k \notin DOMAIN DeniedFields
  BY DEF checkNodeKeys
<1>2. \A k \in DOMAIN def : Reviewed(k)
  <2> SUFFICES ASSUME NEW k \in DOMAIN def, ~Reviewed(k)
               PROVE  FALSE
    OBVIOUS
  <2>1. Finding(Append(path, k), "unreviewed-field", "unreviewed") \in unknown(Append(path, k))
    BY DEF unknown
  <2>2. unknown(Append(path, k)) \in {unknown(Append(path, x)) : x \in {key \in DOMAIN def : ~Reviewed(key)}}
    OBVIOUS
  <2> QED
    BY <2>1, <2>2 DEF checkNodeKeys
<1>3. \A k \in DOMAIN def : k \in AllowedFields
  BY <1>1, <1>2 DEF Reviewed
<1>4. \A r \in FileReferences(def) : LeadsToOwnFile(r[2], files)
  <2> SUFFICES ASSUME NEW r \in FileReferences(def)
               PROVE  LeadsToOwnFile(r[2], files)
    OBVIOUS
  <2>1. checkFileReference(Append(path, r[1]), r[2], files) = {}
    BY DEF checkNodeDefinition
  <2> QED
    BY <2>1, UnreportedReference
<1>5. ASSUME NEW f \in DOMAIN def
      PROVE  Harmless(f, def[f], files)
  <2>1. CASE f = "kind"
    <3>1. ~(Normalised(def["kind"]) \in hostReachingKinds)
      BY <2>1 DEF checkNodeDefinition
    <3> QED
      BY <2>1, <3>1 DEF Harmless, Normalised
  <2>2. CASE f = "image"
    <3>1. checkImage(Append(path, "image"), def["image"]) = {}
      BY <2>2 DEF checkNodeDefinition
    <3> QED
      BY <2>2, <3>1 DEF Harmless, checkImage
  <2>3. CASE f = "privileged"
    <3>1. ~def["privileged"]
      BY <2>3 DEF checkNodeDefinition
    <3> QED
      BY <2>3, <3>1 DEF Harmless
  <2>4. CASE f = "binds"
    <3>1. \A r \in def["binds"] : <<"binds", r>> \in FileReferences(def)
      BY <2>4 DEF FileReferences
    <3>2. \A r \in def["binds"] : LeadsToOwnFile(r, files)
      BY <1>4, <3>1
    <3> QED
      BY <2>4, <3>2 DEF Harmless
  <2>5. CASE f \in {"license", "credentials"}
    <3>1. <<f, def[f]>> \in FileReferences(def)
      BY <2>5 DEF FileReferences
    <3>2. LeadsToOwnFile(def[f], files)
      BY <1>4, <3>1
    <3> QED
      BY <2>5, <3>2 DEF Harmless
  <2>6. CASE f = "startup-config" /\ def[f].start # "inline"
    <3>1. <<f, def[f]>> \in FileReferences(def)
      BY <2>6 DEF FileReferences
    <3>2. LeadsToOwnFile(def[f], files)
      BY <1>4, <3>1
    <3> QED
      BY <2>6, <3>2 DEF Harmless
  <2>7. CASE f = "startup-config" /\ def[f].start = "inline"
    BY <2>7 DEF Harmless
  <2>8. CASE f = "stages"
    <3>1. checkStages(Append(path, "stages"), def["stages"]) = {}
      <4>1. \A x : x \in checkStages(Append(path, "stages"), def["stages"]) => x \in checkNodeDefinition(path, def, files)
        BY <2>8 DEF checkNodeDefinition
      <4> QED
        BY <4>1
    <3>2. \A x \in def["stages"] : x.word \in {"", "container"}
      BY <3>1 DEF checkStages, Normalised
    <3> QED
      BY <2>8, <3>2 DEF Harmless
  <2>9. CASE f \notin {"kind", "image", "privileged", "binds", "license", "credentials", "startup-config", "stages"}
    BY <1>3, <2>9 DEF Harmless
  <2> QED
    BY <2>1, <2>2, <2>3, <2>4, <2>5, <2>6, <2>7, <2>8, <2>9
<1> QED
  BY <1>3, <1>5 DEF Unreported

(* Whatever layer containerlab takes a field from, it is one of a checked  *)
(* definition.                                                             *)
LEMMA FieldsComeFromDefinitions ==
  ASSUME NEW topo, NEW files, NEW n \in DOMAIN topo.nodes, NEW layers, layers = Layers(topo, n),
         \A p \in DOMAIN Definitions(topo) : Unreported(Definitions(topo)[p], files)
  PROVE  \A i \in 1 .. 4 : \A f \in DOMAIN layers[i] : Harmless(f, layers[i][f], files)
<1>1. PICK d : d = Definitions(topo)
  OBVIOUS
<1>2. /\ Unreported(topo.defaults, files)
      /\ \A k \in DOMAIN topo.kinds : Unreported(topo.kinds[k], files)
      /\ \A k \in DOMAIN topo.groups : Unreported(topo.groups[k], files)
      /\ Unreported(topo.nodes[n], files)
  <2>1. /\ <<"defaults">> \in DOMAIN d /\ d[<<"defaults">>] = topo.defaults
        /\ \A k \in DOMAIN topo.kinds : <<"kinds", k>> \in DOMAIN d /\ d[<<"kinds", k>>] = topo.kinds[k]
        /\ \A k \in DOMAIN topo.groups : <<"groups", k>> \in DOMAIN d /\ d[<<"groups", k>>] = topo.groups[k]
        /\ \A k \in DOMAIN topo.nodes : <<"nodes", k>> \in DOMAIN d /\ d[<<"nodes", k>>] = topo.nodes[k]
    BY <1>1, EveryDefinition
  <2>2. \A p \in DOMAIN d : Unreported(d[p], files)
    BY <1>1
  <2> QED
    BY <2>1, <2>2
<1>3. /\ layers[1] = topo.nodes[n] /\ layers[4] = topo.defaults
      /\ layers[2] = <<>> \/ \E k \in DOMAIN topo.groups : layers[2] = topo.groups[k]
      /\ layers[3] = <<>> \/ \E k \in DOMAIN topo.kinds : layers[3] = topo.kinds[k]
  <2>1. \A givers, key : \/ Named(topo.groups, key, givers) = <<>>
                         \/ \E k \in DOMAIN topo.groups : Named(topo.groups, key, givers) = topo.groups[k]
    BY DEF Named
  <2>2. \A givers, key : \/ Named(topo.kinds, key, givers) = <<>>
                         \/ \E k \in DOMAIN topo.kinds : Named(topo.kinds, key, givers) = topo.kinds[k]
    BY DEF Named
  <2> QED
    BY <2>1, <2>2 DEF Layers
<1>4. DOMAIN <<>> = {}
  OBVIOUS
<1>5. \A i \in 1 .. 4 : DOMAIN layers[i] = {} \/ Unreported(layers[i], files)
  <2> TAKE i \in 1 .. 4
  <2>1. i = 1 \/ i = 2 \/ i = 3 \/ i = 4
    OBVIOUS
  <2> QED
    BY <1>2, <1>3, <1>4, <2>1
<1> QED
  BY <1>5 DEF Unreported

(* A topology without findings is confined to its lab. *)
LEMMA AcceptedMeansConfined ==
  ASSUME NEW topo, NEW files, files \subseteq Seq(STRING), WellFormed(topo), check(topo, files) = {}
  PROVE  Confined(topo, files)
<1>1. topo.text = {}
  BY DEF check, checkRawText
<1>2. checkRootKeys(topo) = {} /\ checkLinks(topo.links) = {}
  <2>1. \A x : x \in checkRootKeys(topo) \/ x \in checkLinks(topo.links) => x \in check(topo, files)
    BY DEF check
  <2> QED
    BY <2>1
<1>3. topo.root \subseteq {"name", "debug"}
  <2> SUFFICES ASSUME NEW k \in topo.root, k \notin {"name", "debug"}
               PROVE  FALSE
    OBVIOUS
  <2> DEFINE Of(x) == CASE x = "mgmt" -> {Finding(<<x>>, "mgmt", "shell")}
                        [] x = "prefix" -> {Finding(<<x>>, "prefix", "deploy")}
                        [] x = "settings" -> {Finding(<<x>>, "settings", "deploy")}
                        [] x \in {"name", "debug"} -> {}
                        [] OTHER -> unknown(<<x>>)
  <2>1. Of(k) # {}
    BY DEF unknown
  <2>2. Of(k) \in {Of(x) : x \in topo.root}
    OBVIOUS
  <2>3. UNION {Of(x) : x \in topo.root} = {}
    BY <1>2 DEF checkRootKeys
  <2> HIDE DEF Of
  <2> QED
    BY <2>1, <2>2, <2>3
<1>4. \A l \in topo.links : l.type = "dummy" \/ (l.type = "veth" /\ \A x \in l.endpoints : x.word \notin hostEndpointNodes)
  BY <1>2 DEF checkLinks, Normalised
<1>5. \A p \in DOMAIN Definitions(topo) : Unreported(Definitions(topo)[p], files)
  <2> SUFFICES ASSUME NEW p \in DOMAIN Definitions(topo)
               PROVE  Unreported(Definitions(topo)[p], files)
    OBVIOUS
  <2>1. checkNodeKeys(p, Definitions(topo)[p]) = {}
    <3>1. checkTopologyKeys(topo) = {}
      <4>1. \A x : x \in checkTopologyKeys(topo) => x \in checkRootKeys(topo)
        BY DEF checkRootKeys
      <4> QED
        BY <1>2, <4>1
    <3>2. \A x : x \in checkNodeKeys(p, Definitions(topo)[p]) => x \in checkTopologyKeys(topo)
      BY DEF checkTopologyKeys
    <3> QED
      BY <3>1, <3>2
  <2>2. checkNodeDefinition(p, Definitions(topo)[p], files) = {}
    BY DEF check
  <2>3. \A r \in FileReferences(Definitions(topo)[p]) : r[2].start = "here" => r[2].parts \in Seq(STRING)
    BY DEF WellFormed
  <2> QED
    BY <2>1, <2>2, <2>3, UnreportedDefinition
<1>6. ASSUME NEW n \in DOMAIN topo.nodes, NEW f \in Fields(topo, n)
      PROVE  IF f \in {"binds", "kind"}
             THEN \A i \in 1 .. 4 : f \in DOMAIN Layers(topo, n)[i] => Harmless(f, Layers(topo, n)[i][f], files)
             ELSE Harmless(f, Effective(topo, n, f), files)
  <2>1. PICK layers : layers = Layers(topo, n)
    OBVIOUS
  <2>2. \A i \in 1 .. 4 : \A g \in DOMAIN layers[i] : Harmless(g, layers[i][g], files)
    BY <1>5, <2>1, FieldsComeFromDefinitions
  <2> DEFINE First(i) == f \in DOMAIN layers[i] /\ \A j \in 1 .. i - 1 : f \notin DOMAIN layers[j]
  <2>3. \E i \in 1 .. 4 : First(i)
    <3>1. \E i \in 1 .. 4 : f \in DOMAIN layers[i]
      BY <2>1 DEF Fields
    <3>2. PICK i \in {k \in 1 .. 4 : f \in DOMAIN layers[k]} : \A j \in {k \in 1 .. 4 : f \in DOMAIN layers[k]} : i <= j
      <4>1. {k \in 1 .. 4 : f \in DOMAIN layers[k]} \subseteq Nat /\ {k \in 1 .. 4 : f \in DOMAIN layers[k]} # {}
        BY <3>1
      <4> QED
        BY <4>1, LeastNatural
    <3> QED
      BY <3>2
  <2>4. PICK first : first = CHOOSE i \in 1 .. 4 : First(i)
    OBVIOUS
  <2>5. first \in 1 .. 4 /\ First(first)
    BY <2>3, <2>4
  <2>6. Effective(topo, n, f) = layers[first][f]
    BY <2>1, <2>4 DEF Effective
  <2> QED
    BY <2>1, <2>2, <2>5, <2>6
<1> QED
  BY <1>1, <1>3, <1>4, <1>6 DEF Confined

(* Every finding has a rule and an impact clients know. *)
LEMMA FindingsAreKnown ==
  ASSUME NEW topo, NEW files, NEW f \in check(topo, files)
  PROVE  f.rule \in Rules /\ f.impact \in Impacts
<1> DEFINE Known(x) == x.rule \in Rules /\ x.impact \in Impacts
<1>1. \A path : \A x \in unknown(path) : Known(x)
  BY DEF unknown, Finding, Rules, Impacts
<1>2. \A x \in checkRawText(topo.text) : Known(x)
  BY DEF checkRawText, Finding, Rules, Impacts
<1>3. \A path, def : \A x \in checkNodeKeys(path, def) : Known(x)
  <2> SUFFICES ASSUME NEW path, NEW def, NEW x \in checkNodeKeys(path, def)
               PROVE  Known(x)
    OBVIOUS
  <2>1. CASE \E k : x \in unknown(Append(path, k))
    BY <1>1, <2>1
  <2>2. ASSUME NEW k \in DOMAIN DeniedFields, x = Finding(Append(path, k), DeniedFields[k][1], DeniedFields[k][2])
        PROVE  Known(x)
    <3>1. DeniedFields[k][1] \in Rules /\ DeniedFields[k][2] \in Impacts
      BY DEF DeniedFields, Rules, Impacts
    <3> QED
      BY <2>2, <3>1 DEF Finding
  <2> QED
    BY <2>1, <2>2 DEF checkNodeKeys
<1>4. \A x \in checkRootKeys(topo) : Known(x)
  <2> SUFFICES ASSUME NEW x \in checkRootKeys(topo)
               PROVE  Known(x)
    OBVIOUS
  <2>1. CASE x \in checkTopologyKeys(topo)
    BY <1>1, <1>3, <2>1 DEF checkTopologyKeys
  <2>2. CASE x \notin checkTopologyKeys(topo)
    <3>1. PICK k \in topo.root : x \in CASE k = "mgmt" -> {Finding(<<k>>, "mgmt", "shell")}
                                         [] k = "prefix" -> {Finding(<<k>>, "prefix", "deploy")}
                                         [] k = "settings" -> {Finding(<<k>>, "settings", "deploy")}
                                         [] k \in {"name", "debug"} -> {}
                                         [] OTHER -> unknown(<<k>>)
      BY <2>2 DEF checkRootKeys
    <3> QED
      BY <1>1, <3>1 DEF Finding, Rules, Impacts
  <2> QED
    BY <2>1, <2>2
<1>5. \A path, def : \A x \in checkNodeDefinition(path, def, files) : Known(x)
  <2> SUFFICES ASSUME NEW path, NEW def, NEW x \in checkNodeDefinition(path, def, files)
               PROVE  Known(x)
    OBVIOUS
  <2>1. \A q, y : \A z \in checkImage(q, y) \cup checkStages(q, y) \cup checkFileReference(q, y, files) : Known(z)
    <3>1. \A q, y : \A z \in checkImage(q, y) : Known(z)
      BY DEF checkImage, Finding, Rules, Impacts
    <3>2. \A q, y : \A z \in checkStages(q, y) : Known(z)
      <4>1. \A q, y : \A z \in checkStages(q, y) : z = Finding(q, "host-exec", "deploy")
        BY DEF checkStages
      <4> QED
        BY <4>1 DEF Finding, Rules, Impacts
    <3>3. \A q, y : \A z \in checkFileReference(q, y, files) : Known(z)
      BY DEF checkFileReference, Finding, Rules, Impacts
    <3> QED
      BY <3>1, <3>2, <3>3
  <2>2. \/ x = Finding(Append(path, "kind"), "host-kind", "shell")
        \/ x = Finding(Append(path, "privileged"), "privileged", "shell")
        \/ \E q, y : x \in checkImage(q, y) \cup checkStages(q, y) \cup checkFileReference(q, y, files)
    BY DEF checkNodeDefinition
  <2> QED
    BY <2>1, <2>2 DEF Finding, Rules, Impacts
<1>6. \A x \in checkLinks(topo.links) : Known(x)
  BY DEF checkLinks, Finding, Rules, Impacts
<1> HIDE DEF Known
<1>7. Known(f)
  BY <1>2, <1>4, <1>5, <1>6 DEF check
<1> QED
  BY <1>7 DEF Known

(* A key the policy does not know is reported, in whichever definition. *)
LEMMA UnknownIsReported ==
  ASSUME NEW topo, NEW files, NEW path \in DOMAIN Definitions(topo),
         NEW k \in DOMAIN Definitions(topo)[path], ~Reviewed(k)
  PROVE  \E f \in check(topo, files) : f.path = Append(path, k)
<1>1. PICK f : f = Finding(Append(path, k), "unreviewed-field", "unreviewed")
  OBVIOUS
<1>2. f \in unknown(Append(path, k)) /\ f.path = Append(path, k)
  BY <1>1 DEF unknown, Finding
<1>3. f \in checkNodeKeys(path, Definitions(topo)[path])
  BY <1>2 DEF checkNodeKeys
<1>4. f \in checkTopologyKeys(topo)
  BY <1>3 DEF checkTopologyKeys
<1>5. f \in checkRootKeys(topo)
  BY <1>4 DEF checkRootKeys
<1>6. f \in check(topo, files)
  BY <1>5 DEF check
<1> QED
  BY <1>2, <1>6

-----------------------------------------------------------------------------
(***************************************************************************)
(* The cache                                                               *)
(***************************************************************************)
(* The findings of a content; what the cache holds; and the requests.      *)
FindingsOf(c) == check(c.topo, c.files)

Cached == {[hash |-> hashInput(c), findings |-> FindingsOf(c)] : c \in Content}

Calls == [at : {"idle", "read", "miss", "done"}, id : Topologies \cup {None}, in : Content \cup {None},
          out : {{}} \cup {FindingsOf(c) : c \in Content}]

(* The findings in the cache are those of the content they have the hash   *)
(* of, and so are those of a request that is done.                         *)
CacheInv ==
  /\ content \in [Topologies -> Content \cup {None}]
  /\ entries \in [Topologies -> Cached \cup {None}]
  /\ call \in [Procs -> Calls]
  /\ \A p \in Procs : call[p].at # "idle" => call[p].id \in Topologies /\ call[p].in \in Content
  /\ \A p \in Procs : call[p].at = "done" => call[p].out = FindingsOf(call[p].in)

(* What the cache finds under the hash of an input are its findings. *)
LEMMA HashFinds ==
  ASSUME NEW in \in Content, NEW entry \in Cached, entry.hash = hashInput(in)
  PROVE  entry.findings = FindingsOf(in)
BY DEF Cached, hashInput, FindingsOf

(* In the beginning nothing is cached. *)
LEMMA InitCache == Init => CacheInv
<1> SUFFICES ASSUME Init PROVE CacheInv
  OBVIOUS
<1>1. NoCall \in Calls /\ NoCall.at = "idle"
  BY DEF NoCall, Calls
<1>2. content \in [Topologies -> Content \cup {None}]
  BY DEF Init, Content
<1> QED
  BY <1>1, <1>2 DEF Init, CacheInv

(* No step puts findings where they do not belong. *)
LEMMA NextCache == CacheInv /\ [Next]_vars => CacheInv'
<1> SUFFICES ASSUME CacheInv, [Next]_vars PROVE CacheInv'
  OBVIOUS
<1>1. ASSUME NEW t \in Topologies, Edit(t)
      PROVE  CacheInv'
  <2>1. PICK c \in [topo : Edits \cup {content[t].topo}, files : FileSets] : content' = [content EXCEPT ![t] = c]
    BY <1>1 DEF Edit
  <2>2. content[t] \in Content
    BY <1>1 DEF Edit, CacheInv
  <2>3. c \in Content
    BY <2>2 DEF Content
  <2>4. UNCHANGED <<entries, call>>
    BY <1>1 DEF Edit
  <2> QED
    BY <2>1, <2>3, <2>4 DEF CacheInv
<1>2. ASSUME NEW t \in Topologies, Forget(t)
      PROVE  CacheInv'
  BY <1>2 DEF Forget, CacheInv
<1>3. ASSUME NEW p \in Procs, NEW t \in Topologies, Begin(p, t)
      PROVE  CacheInv'
  <2>1. PICK r : r = [at |-> "read", id |-> t, in |-> content[t], out |-> {}]
    OBVIOUS
  <2>2. content[t] \in Content
    BY <1>3 DEF Begin, CacheInv
  <2>3. r \in Calls /\ r.at = "read" /\ r.id = t /\ r.in = content[t]
    BY <2>1, <2>2 DEF Calls
  <2>4. call' = [call EXCEPT ![p] = r] /\ UNCHANGED <<content, entries>>
    BY <1>3, <2>1 DEF Begin
  <2> QED
    BY <2>2, <2>3, <2>4 DEF CacheInv
<1>4. ASSUME NEW p \in Procs, Get(p)
      PROVE  CacheInv'
  <2>1. PICK entry, c : entry = entries[call[p].id] /\ c = call[p]
    OBVIOUS
  <2>2. c \in Calls /\ c.at = "read" /\ c.id \in Topologies /\ c.in \in Content /\ entry \in Cached \cup {None}
    BY <1>4, <2>1 DEF Get, CacheInv
  <2>3. PICK r : /\ r = IF entry # None /\ entry.hash = hashInput(c.in)
                          THEN [c EXCEPT !.at = "done", !.out = entry.findings] ELSE [c EXCEPT !.at = "miss"]
                 /\ call' = [call EXCEPT ![p] = r]
    BY <1>4, <2>1 DEF Get
  <2>4. /\ r \in Calls /\ r.id = c.id /\ r.in = c.in
        /\ r.at = "done" => r.out = FindingsOf(c.in)
    <3>1. CASE entry # None /\ entry.hash = hashInput(c.in)
      <4>1. entry.findings = FindingsOf(c.in)
        BY <2>2, <3>1, HashFinds
      <4>2. r = [c EXCEPT !.at = "done", !.out = FindingsOf(c.in)]
        BY <2>3, <3>1, <4>1
      <4> QED
        BY <2>2, <4>2 DEF Calls
    <3>2. CASE ~(entry # None /\ entry.hash = hashInput(c.in))
      <4>1. r = [c EXCEPT !.at = "miss"]
        BY <2>3, <3>2
      <4> QED
        BY <2>2, <4>1 DEF Calls
    <3> QED
      BY <3>1, <3>2
  <2>5. UNCHANGED <<content, entries>>
    BY <1>4 DEF Get
  <2> QED
    BY <2>2, <2>3, <2>4, <2>5 DEF CacheInv
<1>5. ASSUME NEW p \in Procs, Set(p)
      PROVE  CacheInv'
  <2>1. PICK c : c = call[p]
    OBVIOUS
  <2>2. c \in Calls /\ c.id \in Topologies /\ c.in \in Content
    BY <1>5, <2>1 DEF Set, CacheInv
  <2>3. PICK entry : entry = [hash |-> hashInput(c.in), findings |-> FindingsOf(c.in)]
    OBVIOUS
  <2>4. entry \in Cached /\ entries' = [entries EXCEPT ![c.id] = entry]
    BY <1>5, <2>1, <2>2, <2>3 DEF Set, Cached, FindingsOf
  <2>5. PICK r : r = [c EXCEPT !.at = "done", !.out = FindingsOf(c.in)]
    OBVIOUS
  <2>6. r \in Calls /\ r.id = c.id /\ r.in = c.in /\ r.at = "done" /\ r.out = FindingsOf(c.in)
    BY <2>2, <2>5 DEF Calls
  <2>7. call' = [call EXCEPT ![p] = r] /\ UNCHANGED content
    BY <1>5, <2>1, <2>5 DEF Set, FindingsOf
  <2> QED
    BY <2>2, <2>4, <2>6, <2>7 DEF CacheInv
<1>6. CASE UNCHANGED vars
  BY <1>6 DEF vars, CacheInv
<1> QED
  BY <1>1, <1>2, <1>3, <1>4, <1>5, <1>6 DEF Next

(* The answer to a check belongs to the question, whatever has been saved, *)
(* deleted or checked since, and reports every key the policy does not     *)
(* know (engine.go:60-116, cache.go:27-73).                                *)
THEOREM ChecksAreFresh == Spec => []CheckInv
<1>1. ASSUME CacheInv PROVE CheckInv
  <2>1. CheckIsFresh
    BY <1>1 DEF CacheInv, CheckIsFresh, FindingsOf
  <2>2. \A p \in Procs : \E topo, files : call[p].out = check(topo, files) \/ call[p].out = {}
    BY <1>1 DEF CacheInv, Calls, FindingsOf
  <2>3. \A p \in Procs : \A f \in call[p].out : f.rule \in Rules /\ f.impact \in Impacts
    BY <2>2, FindingsAreKnown
  <2>4. \A p \in Procs : call[p].at \in {"idle", "read", "miss", "done"}
    BY <1>1 DEF CacheInv, Calls
  <2>5. TypeOK
    BY <1>1, <2>3, <2>4 DEF CacheInv, TypeOK
  <2>6. FailsClosed
    BY <2>1, UnknownIsReported DEF CheckIsFresh, FailsClosed
  <2> QED
    BY <2>1, <2>5, <2>6 DEF CheckInv
<1> QED
  BY <1>1, InitCache, NextCache, PTL DEF Spec

(* A topology without findings is confined to its lab, for any topology    *)
(* and any bind files: whichever of node, group, kind and defaults a field *)
(* comes from, and however a path turns (engine.go:60-116, 395-433).       *)
THEOREM AcceptedStaysConfined == Spec => []AcceptedIsConfined
<1>1. ASSUME CacheInv PROVE AcceptedIsConfined
  <2> SUFFICES ASSUME NEW p \in Procs, call[p].at = "done", call[p].out = {}
               PROVE  Confined(call[p].in.topo, call[p].in.files)
    BY DEF AcceptedIsConfined
  <2>1. PICK in : in = call[p].in
    OBVIOUS
  <2>2. in \in Content /\ FindingsOf(in) = {}
    BY <1>1, <2>1 DEF CacheInv
  <2>3. WellFormed(in.topo) /\ in.files \subseteq Seq(STRING)
    BY <2>2, PolicyAssumption DEF Content
  <2>4. Confined(in.topo, in.files)
    BY <2>2, <2>3, AcceptedMeansConfined DEF FindingsOf
  <2> QED
    BY <2>1, <2>4
<1> QED
  BY <1>1, InitCache, NextCache, PTL DEF Spec

-----------------------------------------------------------------------------
(***************************************************************************)
(* Accounts and tokens                                                     *)
(***************************************************************************)

Columns == Subs \cup Usernames \cup {"Admin"}

RequestRecords == [at : {"idle", "lookup", "create", "update", "register", "store"},
                   sub : Subs \cup Usernames \cup {""}, uuid : Nat, rights : Rights \cup {""}, number : Nat]

Tokens == [kind : {"auth", "access"}, id : Nat, secret : Nat, rights : Rights \cup {""}]

(* The types of the records and maps that AuthTypeOK says nothing about.   *)
RecordInv ==
  /\ methods \in MethodSets
  /\ uuids \in Nat /\ logins \in Nat /\ secret \in Nat
  /\ provider \in [Subs -> Rights]
  /\ rows \subseteq [uuid : Nat, sub : Columns]
  /\ request \in [Requests -> RequestRecords]
  /\ tokens \subseteq Tokens
  /\ DOMAIN newest \subseteq 0 .. uuids
  /\ \A id \in DOMAIN newest : newest[id] \in [number : Nat, rights : Rights, overtaken : BOOLEAN]

memoryVars == <<methods, fixedSecret, authenticatedUsers, accounts, secret>>

(* A request that logs a subject in is about a subject, and the account it *)
(* has found or created is in the database under its name.                 *)
CallInv ==
  \A p \in Requests :
    /\ request[p].at \in {"lookup", "create", "update", "register"} => request[p].sub \in Subs /\ request[p].rights \in Rights
    /\ request[p].at \in {"update", "register"} => \E r \in rows : r.uuid = request[p].uuid /\ r.sub = request[p].sub
    /\ request[p].at = "store" => request[p].sub \in Usernames /\ request[p].uuid \in 1 .. uuids

(* The uuid of the native account is that of its name only, and its row is *)
(* there unless writing it has failed.                                     *)
NativeInv ==
  /\ \A r \in rows : r.uuid = NativeUserID => r.sub = NativeRow.sub
  /\ NativeRow \in rows \/ NativeUserID \in orphans

(* A request that is going to create an account is the only one, and there *)
(* is none, unless first logins have overlapped or the name is a native one. *)
CreatorInv ==
  \A p \in Requests : request[p].at = "create" /\ request[p].sub \notin raced \cup NativeSubs =>
    /\ Missing(request[p].sub)
    /\ \A q \in Requests : q # p /\ request[q].at = "create" => request[q].sub # request[p].sub

HasAccount(id) ==
  \/ \E r \in rows : r.uuid = id
  \/ id \in orphans
  \/ \E p \in Requests : request[p].at = "store" /\ request[p].uuid = id

(* Every user whose rights are registered has an account.                  *)
EntryInv == \A id \in DOMAIN authenticatedUsers : HasAccount(id)

(* The rights of a user are those of the newest answer registered.         *)
NewestInv ==
  \A id \in DOMAIN newest :
    /\ id \in DOMAIN authenticatedUsers
    /\ newest[id].overtaken \/ authenticatedUsers[id] = newest[id].rights

AuthIndInv ==
  /\ AuthTypeOK /\ RecordInv /\ CallInv /\ NativeInv /\ CreatorInv
  /\ OneAccountPerSubject /\ NativeEntryStays /\ EntryInv /\ NewestInv

-----------------------------------------------------------------------------
USE AuthAssumption DEF NativeUserID

(* The fields of a request, of a row and of a token have their types.      *)
LEMMA RequestFields ==
  /\ \A c \in RequestRecords : /\ c.at \in {"idle", "lookup", "create", "update", "register", "store"}
                               /\ c.sub \in Subs \cup Usernames \cup {""} /\ c.uuid \in Nat
                               /\ c.rights \in Rights \cup {""} /\ c.number \in Nat
  /\ Idle \in RequestRecords /\ Idle.at = "idle"
  /\ NativeRow.uuid = 0 /\ NativeRow.sub = "Admin"
BY DEF RequestRecords, Idle, NativeRow

-----------------------------------------------------------------------------
(* A step of a login that changes nothing but its own local variables.     *)
LEMMA CallStep ==
  ASSUME AuthIndInv, NEW p \in Requests, NEW c \in RequestRecords,
         request' = [request EXCEPT ![p] = c],
         UNCHANGED <<memoryVars, rows, tokens, provider, uuids, orphans, newest>>,
         raced \subseteq raced', logins' \in Nat,
         request[p].at # "store", c.at # "store",
         c.at \in {"lookup", "create", "update", "register"} => c.sub \in Subs /\ c.rights \in Rights,
         c.at \in {"update", "register"} => \E r \in rows : r.uuid = c.uuid /\ r.sub = c.sub,
         c.at = "create" /\ c.sub \notin raced' \cup NativeSubs =>
           /\ Missing(c.sub)
           /\ \A q \in Requests : q # p /\ request[q].at = "create" => request[q].sub # c.sub
  PROVE  AuthIndInv'
<1>1. request' \in [Requests -> RequestRecords] /\ request'[p] = c /\ \A q \in Requests : q # p => request'[q] = request[q]
  BY DEF AuthIndInv, RecordInv
<1>2. AuthTypeOK'
  <2>1. \A q \in Requests : request'[q].at \in {"idle", "lookup", "create", "update", "register", "store"}
    BY <1>1, RequestFields
  <2> QED BY <2>1 DEF AuthIndInv, AuthTypeOK, memoryVars
<1>3. RecordInv'
  BY <1>1 DEF AuthIndInv, RecordInv, memoryVars
<1>4. CallInv'
  BY <1>1 DEF AuthIndInv, CallInv
<1>5. CreatorInv'
  BY <1>1 DEF AuthIndInv, CreatorInv, Missing
<1>6. OneAccountPerSubject'
  BY DEF AuthIndInv, OneAccountPerSubject
<1>7. EntryInv'
  BY <1>1 DEF AuthIndInv, EntryInv, HasAccount, memoryVars
<1>8. NativeInv' /\ NativeEntryStays' /\ NewestInv'
  BY DEF AuthIndInv, NativeInv, NativeEntryStays, NewestInv, memoryVars
<1> QED BY <1>2, <1>3, <1>4, <1>5, <1>6, <1>7, <1>8 DEF AuthIndInv

(* A login begins with a subject and its rights at the provider.           *)
LEMMA UserInfoStep ==
  ASSUME AuthIndInv, NEW p \in Requests, NEW s \in Subs, UserInfo(p, s)
  PROVE  AuthIndInv'
<1> DEFINE c == [Idle EXCEPT !.at = "lookup", !.sub = s, !.rights = provider[s], !.number = logins']
<1>1. logins' \in Nat /\ provider[s] \in Rights
  BY DEF AuthIndInv, RecordInv, UserInfo
<1>2. c \in RequestRecords /\ c.at = "lookup" /\ c.sub = s /\ c.rights \in Rights
  BY <1>1 DEF RequestRecords, Idle
<1>3. request[p].at # "store" /\ request' = [request EXCEPT ![p] = c]
  BY DEF UserInfo
<1> HIDE DEF c
<1> QED
  BY <1>1, <1>2, <1>3, CallStep DEF UserInfo, config, history, memoryVars

(* A login finds the account of its subject, or is the only one to create  *)
(* it unless another is about to.                                          *)
LEMMA GetBySubStep ==
  ASSUME AuthIndInv, NEW p \in Requests, GetBySub(p)
  PROVE  AuthIndInv'
<1> DEFINE s == request[p].sub
<1>1. /\ request[p] \in RequestRecords /\ s \in Subs /\ request[p].rights \in Rights /\ request[p].at # "store"
      /\ UNCHANGED <<memoryVars, rows, tokens, provider, uuids, orphans, newest, logins>>
      /\ logins \in Nat
  BY DEF AuthIndInv, RecordInv, CallInv, GetBySub, config, memoryVars
<1>2. raced' = IF Missing(s) /\ \E q \in Requests \ {p} : request[q].at = "create" /\ request[q].sub = s THEN raced \cup {s} ELSE raced
  BY DEF GetBySub
<1>3. ASSUME NEW r \in rows, r.sub = s, request' = [request EXCEPT ![p].at = "update", ![p].uuid = r.uuid]
      PROVE  AuthIndInv'
  <2>1. PICK c : c = [request[p] EXCEPT !.at = "update", !.uuid = r.uuid]
    OBVIOUS
  <2>2. r.uuid \in Nat
    BY <1>1, <1>3 DEF AuthIndInv, RecordInv
  <2>3. c \in RequestRecords /\ c.at = "update" /\ c.uuid = r.uuid /\ c.sub = s /\ c.rights = request[p].rights
    BY <1>1, <2>1, <2>2 DEF RequestRecords
  <2>4. request' = [request EXCEPT ![p] = c]
    BY <1>3, <2>1 DEF AuthIndInv, RecordInv
  <2>5. \E o \in rows : o.uuid = c.uuid /\ o.sub = c.sub
    BY <1>3, <2>3
  <2>6. c.sub \in Subs /\ c.rights \in Rights /\ raced \subseteq raced'
    BY <1>1, <1>2, <2>3
  <2> HIDE DEF s
  <2> QED BY <1>1, <2>3, <2>4, <2>5, <2>6, CallStep
<1>4. ASSUME Missing(s), request' = [request EXCEPT ![p].at = "create"]
      PROVE  AuthIndInv'
  <2>1. PICK c : c = [request[p] EXCEPT !.at = "create"]
    OBVIOUS
  <2>2. c \in RequestRecords /\ c.at = "create" /\ c.sub = s /\ c.rights = request[p].rights
    BY <1>1, <2>1 DEF RequestRecords
  <2>3. request' = [request EXCEPT ![p] = c]
    BY <1>4, <2>1 DEF AuthIndInv, RecordInv
  <2>4. c.sub \notin raced' \cup NativeSubs => \A q \in Requests : q # p /\ request[q].at = "create" => request[q].sub # c.sub
    BY <1>2, <1>4, <2>2
  <2> HIDE DEF s
  <2> QED BY <1>1, <1>2, <1>4, <2>2, <2>3, <2>4, CallStep
<1>5. ASSUME request' = [request EXCEPT ![p] = Idle]
      PROVE  AuthIndInv'
  BY <1>1, <1>2, <1>5, RequestFields, CallStep
<1> QED BY <1>3, <1>4, <1>5 DEF GetBySub

(* The account found is still there when its name has been updated.        *)
LEMMA UpdateStep ==
  ASSUME AuthIndInv, NEW p \in Requests, Update(p)
  PROVE  AuthIndInv'
<1>1. /\ request[p] \in RequestRecords /\ request[p].at = "update" /\ logins \in Nat
      /\ UNCHANGED <<memoryVars, rows, tokens, provider, uuids, orphans, newest, logins, raced>>
  BY DEF AuthIndInv, RecordInv, Update, config, history, memoryVars
<1>2. ASSUME request' = [request EXCEPT ![p].at = "register"]
      PROVE  AuthIndInv'
  <2>1. PICK c : c = [request[p] EXCEPT !.at = "register"]
    OBVIOUS
  <2>2. /\ c \in RequestRecords /\ c.at = "register"
        /\ c.sub = request[p].sub /\ c.rights = request[p].rights /\ c.uuid = request[p].uuid
    BY <1>1, <2>1 DEF RequestRecords
  <2>3. request' = [request EXCEPT ![p] = c]
    BY <1>2, <2>1 DEF AuthIndInv, RecordInv
  <2>4. c.sub \in Subs /\ c.rights \in Rights /\ \E r \in rows : r.uuid = c.uuid /\ r.sub = c.sub
    BY <1>1, <2>2 DEF AuthIndInv, CallInv
  <2> QED BY <1>1, <2>2, <2>3, <2>4, CallStep
<1>3. ASSUME request' = [request EXCEPT ![p] = Idle]
      PROVE  AuthIndInv'
  BY <1>1, <1>3, RequestFields, CallStep
<1> QED BY <1>2, <1>3 DEF Update

(* The account that is created is the only one of its subject, unless the  *)
(* subject's first logins overlapped.                                      *)
LEMMA CreateStep ==
  ASSUME AuthIndInv, NEW p \in Requests, Create(p)
  PROVE  AuthIndInv'
<1>1. /\ request[p] \in RequestRecords /\ request[p].at = "create" /\ request[p].sub \in Subs /\ request[p].rights \in Rights
      /\ UNCHANGED <<memoryVars, tokens, provider, orphans, newest, logins, raced>>
      /\ logins \in Nat /\ uuids \in Nat /\ uuids' = uuids + 1
  BY DEF AuthIndInv, RecordInv, CallInv, Create, config, history, memoryVars
<1>2. PICK c : c = IF request' = [request EXCEPT ![p] = Idle] THEN Idle
                   ELSE [request[p] EXCEPT !.at = "register", !.uuid = uuids']
  OBVIOUS
<1>3. PICK row : row = [uuid |-> uuids', sub |-> request[p].sub]
  OBVIOUS
<1>4. row \in [uuid : Nat, sub : Columns] /\ row.uuid = uuids + 1 /\ row.sub = request[p].sub
  BY <1>1, <1>3 DEF Columns
<1>5. /\ c \in RequestRecords /\ request' = [request EXCEPT ![p] = c]
      /\ \/ c.at = "idle"
         \/ c.at = "register" /\ c.uuid = uuids + 1 /\ c.sub = row.sub /\ c.sub \in Subs /\ c.rights \in Rights /\ row \in rows'
  <2>1. CASE request' = [request EXCEPT ![p] = Idle]
    BY <1>2, <2>1, RequestFields
  <2>2. CASE request' # [request EXCEPT ![p] = Idle]
    <3>1. request' = [request EXCEPT ![p].at = "register", ![p].uuid = uuids'] /\ row \in rows'
      BY <1>3, <2>2 DEF Create
    <3>2. request' = [request EXCEPT ![p] = c]
      BY <1>2, <2>2, <3>1 DEF AuthIndInv, RecordInv
    <3>3. c = [request[p] EXCEPT !.at = "register", !.uuid = uuids'] /\ uuids' \in Nat
      BY <1>1, <1>2, <2>2
    <3>4. c \in RequestRecords /\ c.at = "register" /\ c.uuid = uuids' /\ c.sub = request[p].sub /\ c.rights = request[p].rights
      BY <1>1, <3>3 DEF RequestRecords
    <3> QED BY <1>1, <1>4, <3>1, <3>2, <3>4
  <2> QED BY <2>1, <2>2
<1>6. rows \subseteq rows' /\ rows' \subseteq rows \cup {row}
  BY <1>3 DEF Create
<1>7. request' \in [Requests -> RequestRecords] /\ request'[p] = c /\ \A q \in Requests : q # p => request'[q] = request[q]
  BY <1>5 DEF AuthIndInv, RecordInv
<1>8. AuthTypeOK'
  <2>1. \A q \in Requests : request'[q].at \in {"idle", "lookup", "create", "update", "register", "store"}
    BY <1>7, RequestFields
  <2>2. \A r \in rows' : r.uuid \in 0 .. uuids' /\ r.sub \in Subs \cup Usernames \cup {"Admin"}
    BY <1>1, <1>4, <1>6 DEF AuthIndInv, AuthTypeOK
  <2> QED BY <1>1, <2>1, <2>2 DEF AuthIndInv, AuthTypeOK, memoryVars
<1>9. RecordInv'
  BY <1>1, <1>4, <1>6, <1>7 DEF AuthIndInv, RecordInv, memoryVars
<1>10. CallInv'
  BY <1>1, <1>4, <1>5, <1>6, <1>7 DEF AuthIndInv, CallInv
<1>11. NativeInv'
  BY <1>1, <1>4, <1>6 DEF AuthIndInv, NativeInv
<1>12. CreatorInv'
  BY <1>1, <1>4, <1>5, <1>6, <1>7 DEF AuthIndInv, CreatorInv, Missing
<1>13. OneAccountPerSubject'
  BY <1>1, <1>4, <1>6 DEF AuthIndInv, CreatorInv, OneAccountPerSubject, Missing
<1>14. EntryInv'
  BY <1>1, <1>6, <1>7 DEF AuthIndInv, EntryInv, HasAccount, memoryVars
<1>15. NativeEntryStays' /\ NewestInv'
  BY <1>1 DEF AuthIndInv, NativeEntryStays, NewestInv, memoryVars
<1> QED BY <1>8, <1>9, <1>10, <1>11, <1>12, <1>13, <1>14, <1>15 DEF AuthIndInv

(* A login registers the rights of an account that is in the database,     *)
(* over those of older answers of the provider; also those of the native   *)
(* user, whose entry it replaces.                                          *)
LEMMA RegisterLoginStep ==
  ASSUME AuthIndInv, NEW p \in Requests, RegisterLogin(p)
  PROVE  AuthIndInv'
<1>1. PICK c : c = request[p]
  OBVIOUS
<1>2. /\ c \in RequestRecords /\ c.at = "register" /\ c.rights \in Rights /\ c.uuid \in Nat /\ c.number \in Nat
      /\ \E r \in rows : r.uuid = c.uuid
      /\ c.uuid \in 0 .. uuids
  <2>1. c \in RequestRecords /\ c.at = "register"
    BY <1>1 DEF AuthIndInv, RecordInv, RegisterLogin
  <2>2. PICK r \in rows : r.uuid = c.uuid
    BY <1>1, <2>1 DEF AuthIndInv, CallInv
  <2>3. c.uuid \in 0 .. uuids
    BY <2>2 DEF AuthIndInv, AuthTypeOK, RecordInv
  <2> QED BY <1>1, <2>1, <2>2, <2>3, RequestFields DEF AuthIndInv, CallInv
<1>3. /\ request' = [request EXCEPT ![p] = Idle]
      /\ UNCHANGED <<methods, fixedSecret, rows, accounts, secret, provider, uuids, logins, raced, orphans>>
      /\ uuids \in Nat /\ secret \in Nat
  BY DEF AuthIndInv, RecordInv, RegisterLogin, config, bounds
<1>4. /\ DOMAIN authenticatedUsers' = DOMAIN authenticatedUsers \cup {c.uuid}
      /\ authenticatedUsers'[c.uuid] = c.rights
      /\ \A id \in DOMAIN authenticatedUsers : id # c.uuid => authenticatedUsers'[id] = authenticatedUsers[id]
  <2>1. authenticatedUsers' = Put(authenticatedUsers, c.uuid, c.rights)
    BY <1>1 DEF RegisterLogin
  <2> QED BY <2>1 DEF Put
<1>5. request' \in [Requests -> RequestRecords] /\ request'[p].at = "idle" /\ \A q \in Requests : q # p => request'[q] = request[q]
  BY <1>3, RequestFields DEF AuthIndInv, RecordInv
<1>6. \A t \in tokens' : t \in Tokens /\ t.id \in 0 .. uuids /\ t.secret \in 0 .. secret
  <2>1. \A t \in tokens : t \in Tokens /\ t.id \in 0 .. uuids /\ t.secret \in 0 .. secret
    BY DEF AuthIndInv, AuthTypeOK, RecordInv
  <2>2. AuthToken(c.uuid) \in Tokens /\ AuthToken(c.uuid).id = c.uuid /\ AuthToken(c.uuid).secret = secret
    BY <1>2, <1>3 DEF AuthToken, Tokens
  <2>3. /\ AccessToken(c.uuid, c.rights) \in Tokens /\ AccessToken(c.uuid, c.rights).id = c.uuid
        /\ AccessToken(c.uuid, c.rights).secret = secret
    BY <1>2, <1>3 DEF AccessToken, Tokens
  <2>4. tokens' = tokens \cup {AuthToken(c.uuid), AccessToken(c.uuid, c.rights)}
    BY <1>1 DEF RegisterLogin
  <2> QED BY <1>2, <1>3, <2>1, <2>2, <2>3, <2>4
<1>7. /\ DOMAIN newest' = DOMAIN newest \cup {c.uuid}
      /\ newest'[c.uuid] \in [number : Nat, rights : Rights, overtaken : BOOLEAN]
      /\ newest'[c.uuid].overtaken \/ newest'[c.uuid].rights = c.rights
      /\ \A id \in DOMAIN newest : id # c.uuid => newest'[id] = newest[id]
  <2>1. CASE c.uuid \in DOMAIN newest /\ newest[c.uuid].number > c.number
    <3>1. newest' = [newest EXCEPT ![c.uuid].overtaken = TRUE]
      BY <1>1, <2>1 DEF RegisterLogin
    <3>2. newest[c.uuid] \in [number : Nat, rights : Rights, overtaken : BOOLEAN]
      BY <2>1 DEF AuthIndInv, RecordInv
    <3>3. DOMAIN newest' = DOMAIN newest /\ newest'[c.uuid] = [newest[c.uuid] EXCEPT !.overtaken = TRUE]
          /\ \A id \in DOMAIN newest : id # c.uuid => newest'[id] = newest[id]
      BY <2>1, <3>1
    <3> QED BY <2>1, <3>2, <3>3
  <2>2. CASE ~(c.uuid \in DOMAIN newest /\ newest[c.uuid].number > c.number)
    <3>1. newest' = Put(newest, c.uuid, [number |-> c.number, rights |-> c.rights, overtaken |-> FALSE])
      BY <1>1, <2>2 DEF RegisterLogin
    <3> QED BY <1>2, <3>1 DEF Put
  <2> QED BY <2>1, <2>2
<1>8. AuthTypeOK'
  <2>1. \A q \in Requests : request'[q].at \in {"idle", "lookup", "create", "update", "register", "store"}
    BY <1>5, RequestFields
  <2>2. \A u \in DOMAIN accounts : accounts[u] \in DOMAIN authenticatedUsers'
    BY <1>4 DEF AuthIndInv, AuthTypeOK
  <2> QED BY <1>2, <1>3, <1>4, <1>6, <2>1, <2>2 DEF AuthIndInv, AuthTypeOK
<1>9. RecordInv'
  BY <1>2, <1>3, <1>5, <1>6, <1>7 DEF AuthIndInv, RecordInv
<1>10. CallInv'
  BY <1>3, <1>5 DEF AuthIndInv, CallInv
<1>11. CreatorInv'
  BY <1>3, <1>5 DEF AuthIndInv, CreatorInv, Missing
<1>12. NativeEntryStays'
  BY <1>2, <1>3, <1>4, <1>7 DEF AuthIndInv, NativeEntryStays
<1>13. EntryInv'
  BY <1>1, <1>2, <1>3, <1>4, <1>5 DEF AuthIndInv, EntryInv, HasAccount
<1>14. NewestInv'
  BY <1>4, <1>7 DEF AuthIndInv, NewestInv
<1>15. NativeInv' /\ OneAccountPerSubject'
  BY <1>3 DEF AuthIndInv, NativeInv, OneAccountPerSubject
<1> QED BY <1>8, <1>9, <1>10, <1>11, <1>12, <1>13, <1>14, <1>15 DEF AuthIndInv

-----------------------------------------------------------------------------
(* A native account gets a uuid nobody has, and is between its steps until *)
(* its row is written.                                                     *)
LEMMA RegisterNativeUserStep ==
  ASSUME AuthIndInv, NEW p \in Requests, NEW tok \in tokens, NEW u \in Usernames, RegisterNativeUser(p, tok, u)
  PROVE  AuthIndInv'
<1>1. /\ uuids \in Nat /\ uuids' = uuids + 1 /\ logins' \in Nat /\ request[p].at = "idle"
      /\ UNCHANGED <<methods, fixedSecret, rows, secret, tokens, provider, raced, orphans, newest>>
  BY DEF AuthIndInv, RecordInv, RegisterNativeUser, config, history
<1>2. PICK c : c = [Idle EXCEPT !.at = "store", !.sub = u, !.uuid = uuids']
  OBVIOUS
<1>3. c \in RequestRecords /\ c.at = "store" /\ c.sub = u /\ c.uuid = uuids'
  <2>1. c = [at |-> "store", sub |-> u, uuid |-> uuids', rights |-> "", number |-> 0]
    BY <1>2 DEF Idle
  <2>2. uuids' \in Nat
    BY <1>1
  <2> QED BY <2>1, <2>2 DEF RequestRecords
<1>4. request' = [request EXCEPT ![p] = c]
  BY <1>2 DEF RegisterNativeUser
<1>5. request' \in [Requests -> RequestRecords] /\ request'[p] = c /\ \A q \in Requests : q # p => request'[q] = request[q]
  BY <1>3, <1>4 DEF AuthIndInv, RecordInv
<1>6. uuids' \notin DOMAIN authenticatedUsers /\ uuids' \notin DOMAIN newest
  BY <1>1 DEF AuthIndInv, AuthTypeOK, RecordInv
<1>7. /\ DOMAIN authenticatedUsers' = DOMAIN authenticatedUsers \cup {uuids'}
      /\ authenticatedUsers'[uuids'] = "member"
      /\ \A id \in DOMAIN authenticatedUsers : authenticatedUsers'[id] = authenticatedUsers[id]
  <2>1. authenticatedUsers' = Put(authenticatedUsers, uuids', "member")
    BY DEF RegisterNativeUser
  <2> QED BY <1>6, <2>1 DEF Put
<1>8. \A v \in DOMAIN accounts' : v \in Usernames /\ accounts'[v] \in DOMAIN authenticatedUsers'
  <2>1. accounts' = Put(accounts, u, uuids')
    BY DEF RegisterNativeUser
  <2>2. \A v \in DOMAIN accounts : v \in Usernames /\ accounts[v] \in DOMAIN authenticatedUsers
    BY DEF AuthIndInv, AuthTypeOK
  <2> QED BY <1>7, <2>1, <2>2 DEF Put
<1>9. AuthTypeOK'
  <2>1. \A q \in Requests : request'[q].at \in {"idle", "lookup", "create", "update", "register", "store"}
    BY <1>5, RequestFields
  <2>2. /\ DOMAIN authenticatedUsers' \subseteq 0 .. uuids'
        /\ \A id \in DOMAIN authenticatedUsers' : authenticatedUsers'[id] \in Rights
    BY <1>1, <1>7 DEF AuthIndInv, AuthTypeOK, Rights
  <2> QED BY <1>1, <1>8, <2>1, <2>2 DEF AuthIndInv, AuthTypeOK
<1>10. RecordInv'
  BY <1>1, <1>5 DEF AuthIndInv, RecordInv
<1>11. CallInv'
  BY <1>1, <1>3, <1>5 DEF AuthIndInv, CallInv
<1>12. CreatorInv'
  BY <1>1, <1>3, <1>5 DEF AuthIndInv, CreatorInv, Missing
<1>13. NativeEntryStays'
  BY <1>1, <1>6, <1>7 DEF AuthIndInv, NativeEntryStays
<1>14. EntryInv'
  BY <1>1, <1>3, <1>5, <1>7 DEF AuthIndInv, EntryInv, HasAccount
<1>15. NewestInv'
  BY <1>1, <1>7 DEF AuthIndInv, NewestInv
<1>16. NativeInv' /\ OneAccountPerSubject'
  BY <1>1 DEF AuthIndInv, NativeInv, OneAccountPerSubject
<1> QED BY <1>9, <1>10, <1>11, <1>12, <1>13, <1>14, <1>15, <1>16 DEF AuthIndInv

(* The row of a native account is written, or known to be missing.         *)
LEMMA StoreNativeUserStep ==
  ASSUME AuthIndInv, NEW p \in Requests, StoreNativeUser(p)
  PROVE  AuthIndInv'
<1>1. PICK row : row = [uuid |-> request[p].uuid, sub |-> request[p].sub]
  OBVIOUS
<1>2. /\ row \in [uuid : Nat, sub : Columns]
      /\ row.uuid = request[p].uuid /\ row.sub \in Usernames /\ row.uuid \in 1 .. uuids /\ uuids \in Nat
  BY <1>1 DEF AuthIndInv, RecordInv, CallInv, StoreNativeUser, Columns
<1>3. /\ UNCHANGED <<memoryVars, tokens, provider, uuids, logins, raced, newest>>
      /\ rows \subseteq rows' /\ rows' \subseteq rows \cup {row} /\ orphans \subseteq orphans'
      /\ row \in rows' \/ row.uuid \in orphans'
      /\ request' = [request EXCEPT ![p] = Idle]
  BY <1>1, <1>2 DEF StoreNativeUser, config, memoryVars
<1>4. request' \in [Requests -> RequestRecords] /\ request'[p].at = "idle" /\ \A q \in Requests : q # p => request'[q] = request[q]
  BY <1>3, RequestFields DEF AuthIndInv, RecordInv
<1>5. AuthTypeOK'
  <2>1. \A q \in Requests : request'[q].at \in {"idle", "lookup", "create", "update", "register", "store"}
    BY <1>4, RequestFields
  <2>2. \A r \in rows' : r.uuid \in 0 .. uuids' /\ r.sub \in Subs \cup Usernames \cup {"Admin"}
    BY <1>2, <1>3 DEF AuthIndInv, AuthTypeOK
  <2> QED BY <1>3, <2>1, <2>2 DEF AuthIndInv, AuthTypeOK, memoryVars
<1>6. RecordInv'
  BY <1>2, <1>3, <1>4 DEF AuthIndInv, RecordInv, memoryVars
<1>7. CallInv'
  BY <1>3, <1>4 DEF AuthIndInv, CallInv
<1>8. NativeInv'
  BY <1>2, <1>3 DEF AuthIndInv, NativeInv
<1>9. CreatorInv'
  BY <1>2, <1>3, <1>4 DEF AuthIndInv, CallInv, CreatorInv, Missing, NativeSubs
<1>10. OneAccountPerSubject'
  BY <1>2, <1>3 DEF AuthIndInv, OneAccountPerSubject, NativeSubs
<1>11. EntryInv'
  BY <1>2, <1>3, <1>4 DEF AuthIndInv, EntryInv, HasAccount, memoryVars
<1>12. NativeEntryStays' /\ NewestInv'
  BY <1>3 DEF AuthIndInv, NativeEntryStays, NewestInv, memoryVars
<1> QED BY <1>5, <1>6, <1>7, <1>8, <1>9, <1>10, <1>11, <1>12 DEF AuthIndInv

(* After a restart only the native user is registered, and its account is  *)
(* stored or known to be missing.                                          *)
LEMMA RestartStep ==
  ASSUME AuthIndInv, Restart
  PROVE  AuthIndInv'
<1>1. /\ UNCHANGED <<methods, tokens, provider, uuids, logins, raced>>
      /\ uuids \in Nat /\ secret' \in Nat /\ secret <= secret' /\ secret \in Nat
      /\ accounts' = << >> /\ newest' = << >>
  BY DEF AuthIndInv, RecordInv, Restart, config
<1>2. DOMAIN accounts' = {} /\ DOMAIN newest' = {}
  BY <1>1
<1>3. /\ DOMAIN authenticatedUsers' \subseteq {NativeUserID}
      /\ methods \cap {"admin", "desktop"} # {} => NativeUserID \in DOMAIN authenticatedUsers'
      /\ \A id \in DOMAIN authenticatedUsers' : authenticatedUsers'[id] = "admin"
  BY DEF Restart, Registered
<1>4. /\ rows \subseteq rows' /\ rows' \subseteq rows \cup {NativeRow}
      /\ NativeRow \in rows' \/ NativeUserID \in orphans'
  BY DEF AuthIndInv, NativeInv, Restart
<1>5. request' \in [Requests -> RequestRecords] /\ \A q \in Requests : request'[q].at = "idle"
  BY RequestFields DEF Restart
<1>6. AuthTypeOK'
  <2>1. \A r \in rows' : r.uuid \in 0 .. uuids' /\ r.sub \in Subs \cup Usernames \cup {"Admin"}
    BY <1>1, <1>4 DEF AuthIndInv, AuthTypeOK, NativeRow
  <2>2. /\ DOMAIN authenticatedUsers' \subseteq 0 .. uuids'
        /\ \A id \in DOMAIN authenticatedUsers' : authenticatedUsers'[id] \in Rights
    BY <1>1, <1>3 DEF Rights
  <2>3. \A t \in tokens' : t.secret \in 0 .. secret' /\ t.id \in 0 .. uuids'
    BY <1>1 DEF AuthIndInv, AuthTypeOK
  <2> QED BY <1>2, <1>5, <2>1, <2>2, <2>3 DEF AuthTypeOK
<1>7. RecordInv'
  <2>1. NativeRow \in [uuid : Nat, sub : Columns]
    BY DEF NativeRow, Columns
  <2> QED BY <1>1, <1>2, <1>4, <1>5, <2>1 DEF AuthIndInv, RecordInv
<1>8. CallInv' /\ CreatorInv'
  BY <1>5 DEF CallInv, CreatorInv
<1>9. NativeInv' /\ OneAccountPerSubject'
  BY <1>1, <1>4 DEF AuthIndInv, NativeInv, OneAccountPerSubject, NativeRow, NativeSubs
<1>10. NativeEntryStays'
  BY <1>1, <1>3 DEF NativeEntryStays
<1>11. EntryInv' /\ NewestInv'
  BY <1>2, <1>3, <1>4, RequestFields DEF EntryInv, HasAccount, NewestInv
<1> QED BY <1>6, <1>7, <1>8, <1>9, <1>10, <1>11 DEF AuthIndInv

-----------------------------------------------------------------------------
(* A step that changes the tokens of clients only.                         *)
LEMMA TokenStep ==
  ASSUME AuthIndInv,
         UNCHANGED <<config, rows, memory, provider, uuids, bounds, history>>,
         \A t \in tokens' : t \in tokens \/ (t \in Tokens /\ t.id \in 0 .. uuids /\ t.secret = secret)
  PROVE  AuthIndInv'
<1>1. UNCHANGED <<methods, rows, authenticatedUsers, accounts, secret, request, provider, uuids, logins,
                  raced, orphans, newest>>
  BY DEF config, memory, bounds, history
<1>2. AuthTypeOK' /\ RecordInv'
  <2>1. \A t \in tokens' : t \in Tokens /\ t.id \in 0 .. uuids /\ t.secret \in 0 .. secret
    BY DEF AuthIndInv, AuthTypeOK, RecordInv
  <2> QED BY <1>1, <2>1 DEF AuthIndInv, AuthTypeOK, RecordInv
<1>3. CallInv' /\ NativeInv' /\ CreatorInv' /\ OneAccountPerSubject'
  BY <1>1 DEF AuthIndInv, CallInv, NativeInv, CreatorInv, OneAccountPerSubject, Missing
<1>4. NativeEntryStays' /\ EntryInv' /\ NewestInv'
  BY <1>1 DEF AuthIndInv, NativeEntryStays, EntryInv, NewestInv, HasAccount
<1> QED BY <1>2, <1>3, <1>4 DEF AuthIndInv

(* The tokens made for a user who is registered.                           *)
LEMMA TokenTypes ==
  ASSUME AuthIndInv, NEW id \in DOMAIN authenticatedUsers
  PROVE  /\ AuthToken(id) \in Tokens /\ AuthToken(id).id \in 0 .. uuids /\ AuthToken(id).secret = secret
         /\ LET tok == AccessToken(id, authenticatedUsers[id]) IN
            tok \in Tokens /\ tok.id \in 0 .. uuids /\ tok.secret = secret
<1>1. id \in 0 .. uuids /\ id \in Nat /\ secret \in Nat /\ authenticatedUsers[id] \in Rights
  BY DEF AuthIndInv, AuthTypeOK, RecordInv
<1> QED BY <1>1 DEF AuthToken, AccessToken, Tokens

(* Clients get tokens, lose them, or have them refreshed.                  *)
LEMMA ClientStep ==
  ASSUME AuthIndInv,
         \/ LoginDesktop
         \/ \E tok \in tokens : RefreshAccessToken(tok) \/ Expire(tok)
         \/ \E id \in 0 .. uuids : Logout(id) \/ LoginNative(id)
  PROVE  AuthIndInv'
<1>1. CASE LoginDesktop
  <2>1. NativeUserID \in DOMAIN authenticatedUsers
    BY <1>1 DEF AuthIndInv, NativeEntryStays, LoginDesktop
  <2> QED BY <1>1, <2>1, TokenTypes, TokenStep DEF LoginDesktop
<1>2. ASSUME NEW tok \in tokens, RefreshAccessToken(tok)
      PROVE  AuthIndInv'
  BY <1>2, TokenTypes, TokenStep DEF RefreshAccessToken, Accepted, AuthenticateUser
<1>3. ASSUME NEW tok \in tokens, Expire(tok)
      PROVE  AuthIndInv'
  BY <1>3, TokenStep DEF Expire
<1>4. ASSUME NEW id \in 0 .. uuids, Logout(id)
      PROVE  AuthIndInv'
  BY <1>4, TokenStep DEF Logout
<1>5. ASSUME NEW id \in 0 .. uuids, LoginNative(id)
      PROVE  AuthIndInv'
  BY <1>5, TokenTypes, TokenStep DEF LoginNative
<1> QED BY <1>1, <1>2, <1>3, <1>4, <1>5

(* The rights at the provider are not those of the server.                 *)
LEMMA ProviderStep ==
  ASSUME AuthIndInv, UNCHANGED authVars \/ \E s \in Subs : ChangeRights(s)
  PROVE  AuthIndInv'
<1>1. /\ UNCHANGED <<methods, rows, authenticatedUsers, accounts, secret, request, tokens, uuids, logins,
                     raced, orphans, newest>>
      /\ provider' \in [Subs -> Rights]
  BY DEF AuthIndInv, RecordInv, authVars, ChangeRights, config, memory, bounds, history
<1>2. AuthTypeOK' /\ RecordInv' /\ CallInv' /\ NativeInv' /\ CreatorInv' /\ OneAccountPerSubject'
  BY <1>1 DEF AuthIndInv, AuthTypeOK, RecordInv, CallInv, NativeInv, CreatorInv, OneAccountPerSubject, Missing
<1>3. NativeEntryStays' /\ EntryInv' /\ NewestInv'
  BY <1>1 DEF AuthIndInv, NativeEntryStays, EntryInv, NewestInv, HasAccount
<1> QED BY <1>2, <1>3 DEF AuthIndInv

(* A server that starts with a new database.                               *)
LEMMA AuthInitInv ==
  ASSUME AuthInit
  PROVE  AuthIndInv
<1>1. DOMAIN accounts = {} /\ DOMAIN newest = {}
  <2>1. accounts = << >> /\ newest = << >>
    BY DEF AuthInit
  <2> QED BY <2>1
<1>2. /\ DOMAIN authenticatedUsers \subseteq {NativeUserID}
      /\ methods \cap {"admin", "desktop"} # {} => NativeUserID \in DOMAIN authenticatedUsers
      /\ \A id \in DOMAIN authenticatedUsers : authenticatedUsers[id] = "admin"
  BY DEF AuthInit, Registered
<1>3. /\ rows \subseteq {NativeRow}
      /\ NativeRow \in rows \/ NativeUserID \in orphans
      /\ NativeRow \in [uuid : Nat, sub : Columns]
  BY DEF AuthInit, NativeRow, Columns
<1>4. request \in [Requests -> RequestRecords] /\ \A q \in Requests : request[q].at = "idle"
  BY RequestFields DEF AuthInit
<1>5. /\ uuids = 0 /\ logins = 0 /\ secret = 0 /\ tokens = {} /\ provider \in [Subs -> Rights]
      /\ methods \in MethodSets
  BY DEF AuthInit
<1>6. AuthTypeOK
  BY <1>1, <1>2, <1>3, <1>4, <1>5 DEF AuthTypeOK, Rights, NativeRow
<1>7. RecordInv
  BY <1>1, <1>3, <1>4, <1>5 DEF RecordInv
<1>8. CallInv /\ CreatorInv
  BY <1>4 DEF CallInv, CreatorInv
<1>9. NativeInv /\ OneAccountPerSubject
  BY <1>3 DEF NativeInv, OneAccountPerSubject, NativeRow
<1>10. NativeEntryStays /\ EntryInv /\ NewestInv
  BY <1>1, <1>2, <1>3, RequestFields DEF NativeEntryStays, EntryInv, HasAccount, NewestInv
<1> QED BY <1>6, <1>7, <1>8, <1>9, <1>10 DEF AuthIndInv

(* Every step keeps the invariant.                                         *)
LEMMA AuthNextStep ==
  ASSUME AuthIndInv, [AuthNext]_authVars
  PROVE  AuthIndInv'
BY RestartStep, ClientStep, ProviderStep, UserInfoStep, GetBySubStep, CreateStep, UpdateStep,
   RegisterLoginStep, StoreNativeUserStep, RegisterNativeUserStep DEF AuthNext

(* The invariant holds in every state.                                     *)
LEMMA AuthIndInvHolds == AuthSpec => []AuthIndInv
<1>1. AuthInit => AuthIndInv
  BY AuthInitInv
<1>2. AuthIndInv /\ [AuthNext]_authVars => AuthIndInv'
  BY AuthNextStep
<1> QED BY <1>1, <1>2, PTL DEF AuthSpec

(* Whatever order logins, restarts and failing accesses to the database    *)
(* come in, everybody has the one account they had, and the native         *)
(* administrator keeps its entry and its account, whatever the provider's  *)
(* subjects are called: only a subject with the administrator's name gets  *)
(* that account (manager.go:83-131, user/service.go:21-113).               *)
THEOREM AccountInvariant == AuthSpec => []AccountInv
<1>1. ASSUME AuthIndInv
      PROVE  NativeAccountIsKept
  BY <1>1 DEF AuthIndInv, CallInv, NativeInv, NativeAccountIsKept
<1>2. AuthIndInv => AccountInv
  BY <1>1 DEF AuthIndInv, AccountInv, NativeAdminStays
<1> QED BY <1>2, AuthIndInvHolds, PTL

(* Whoever is let in can be found in the database, unless their row was    *)
(* reported as not written or is being written                             *)
(* (user/service.go:75-113, manager.go:176-192).                           *)
THEOREM AcceptedTokensHaveAccounts == AuthSpec => []SessionsHaveAccounts
<1>1. AuthIndInv => SessionsHaveAccounts
  BY DEF AuthIndInv, EntryInv, HasAccount, SessionsHaveAccounts, Accepted
<1> QED BY <1>1, AuthIndInvHolds, PTL

(* No token keeps rights its user has lost with a newer login, unless the  *)
(* newer login overtook it (manager.go:365-392, 424).                      *)
THEOREM RightsAreCurrent == AuthSpec => []NoStaleRights
<1>1. AuthIndInv => NoStaleRights
  BY DEF AuthIndInv, NewestInv, NoStaleRights, AuthenticateUser
<1> QED BY <1>1, AuthIndInvHolds, PTL
=============================================================================
