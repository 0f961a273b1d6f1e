-------------------------- MODULE SelectionProofs --------------------------
(***************************************************************************)
(* What selecting the elements of a set does to a sequence: appending to   *)
(* the one appends to the other or changes nothing, and cutting the one    *)
(* cuts the other.                                                         *)
(***************************************************************************)
EXTENDS Selection, SequenceTheorems, WellFoundedInduction, TLAPS

(* A nonempty set of natural numbers has a least element.                  *)
LEMMA LeastOf ==
    ASSUME NEW M \in SUBSET Nat, M # {}
    PROVE  \E m \in M : \A k \in M : m <= k
<1>1. PICK m \in M : \A k \in M : ~ (<<k, m>> \in OpToRel(<, Nat))
    BY NatLessThanWellFounded, WFMin
<1>2. \A k \in M : ~ (k < m)
    BY <1>1 DEF OpToRel
<1>. QED
    BY <1>2

(* Induction over the sequences, for a set of them.                        *)
LEMMA SequencesGrow ==
    ASSUME NEW S, NEW Good, <<>> \in Good,
           \A s \in Seq(S) : \A e \in S : s \in Good => Append(s, e) \in Good
    PROVE  \A s \in Seq(S) : s \in Good
<1>. SUFFICES ASSUME NEW bad \in Seq(S), bad \notin Good PROVE FALSE
    OBVIOUS
<1>. DEFINE M == {n \in Nat : \E s \in Seq(S) : Len(s) = n /\ s \notin Good}
<1>1. Len(bad) \in M
    BY LenProperties
<1>2. PICK m \in M : \A k \in M : m <= k
    BY <1>1, LeastOf
<1>3. PICK s \in Seq(S) : Len(s) = m /\ s \notin Good
    BY <1>2
<1>4. PICK t \in Seq(S), e \in S : s = Append(t, e)
    BY <1>3, SequenceEmptyOrAppend
<1>5. Len(t) = m - 1 /\ Len(t) \in Nat
    BY <1>3, <1>4, AppendProperties, LenProperties
<1>6. t \in Good
    <2>1. Len(t) \notin M
        BY <1>2, <1>5
    <2>. QED
        BY <1>5, <2>1
<1>. QED
    BY <1>3, <1>4, <1>6

-----------------------------------------------------------------------------
(* The recursive function has a value, and only one.                       *)

Keeps(f, s, T) ==
    f = [n \in 0..Len(s) |->
            IF n = 0 THEN <<>>
            ELSE IF s[n] \in T THEN Append(f[n - 1], s[n]) ELSE f[n - 1]]

(* Some function satisfies the recursion, for every sequence.              *)
LEMMA KeepsExists ==
    ASSUME NEW S, NEW T
    PROVE  \A s \in Seq(S) : \E f : Keeps(f, s, T)
<1>. DEFINE Good == {s \in Seq(S) : \E f : Keeps(f, s, T)}
<1>1. <<>> \in Good
    <2>. DEFINE f == [n \in 0..0 |-> <<>>]
    <2>1. Len(<<>>) = 0 /\ <<>> \in Seq(S)
        BY EmptySeq
    <2>2. Keeps(f, <<>>, T)
        BY <2>1 DEF Keeps
    <2>. QED
        BY <2>1, <2>2
<1>2. ASSUME NEW s \in Seq(S), NEW e \in S, s \in Good
      PROVE  Append(s, e) \in Good
    <2>1. PICK f : Keeps(f, s, T)
        BY <1>2
    <2>. DEFINE t == Append(s, e)
                g == [n \in 0..Len(s) + 1 |->
                        IF n <= Len(s) THEN f[n]
                        ELSE IF e \in T THEN Append(f[Len(s)], e) ELSE f[Len(s)]]
    <2>2. /\ t \in Seq(S) /\ Len(t) = Len(s) + 1 /\ Len(s) \in Nat
          /\ \A n \in 1..Len(s) : t[n] = s[n]
          /\ t[Len(s) + 1] = e
        BY AppendProperties, LenProperties
    <2>3. \A n \in 0..Len(s) :
              f[n] = IF n = 0 THEN <<>>
                     ELSE IF s[n] \in T THEN Append(f[n - 1], s[n]) ELSE f[n - 1]
        BY <2>1 DEF Keeps
    <2>. HIDE DEF t
    <2>4. ASSUME NEW n \in 0..Len(t)
          PROVE  g[n] = IF n = 0 THEN <<>>
                        ELSE IF t[n] \in T THEN Append(g[n - 1], t[n]) ELSE g[n - 1]
        <3>1. CASE n = Len(s) + 1
            BY <2>2, <3>1
        <3>2. CASE n # Len(s) + 1
            BY <2>2, <2>3, <3>2
        <3>. QED
            BY <3>1, <3>2
    <2>5. Keeps(g, t, T)
        BY <2>2, <2>4 DEF Keeps
    <2>. QED
        BY <2>2, <2>5 DEF t
<1>. HIDE DEF Good
<1>3. \A s \in Seq(S) : s \in Good
    BY <1>1, <1>2, SequencesGrow
<1>. QED
    BY <1>3 DEF Good

(* Two of them agree on what their sequences share.                        *)
LEMMA KeepsAgree ==
    ASSUME NEW S, NEW T, NEW s \in Seq(S), NEW t \in Seq(S), Len(s) <= Len(t),
           \A n \in 1..Len(s) : t[n] = s[n],
           NEW f, Keeps(f, s, T), NEW g, Keeps(g, t, T)
    PROVE  \A n \in 0..Len(s) : f[n] = g[n]
<1>. DEFINE M == {n \in 0..Len(s) : f[n] # g[n]}
<1>. SUFFICES ASSUME M # {} PROVE FALSE
    OBVIOUS
<1>1. Len(s) \in Nat /\ Len(t) \in Nat
    BY LenProperties
<1>2. M \in SUBSET Nat
    BY <1>1
<1>3. PICK m \in M : \A k \in M : m <= k
    BY <1>2, LeastOf
<1>4. f[m] = IF m = 0 THEN <<>>
             ELSE IF s[m] \in T THEN Append(f[m - 1], s[m]) ELSE f[m - 1]
    BY <1>3 DEF Keeps
<1>5. g[m] = IF m = 0 THEN <<>>
             ELSE IF t[m] \in T THEN Append(g[m - 1], t[m]) ELSE g[m - 1]
    <2>1. m \in 0..Len(t)
        BY <1>1, <1>3
    <2>. QED
        BY <2>1 DEF Keeps
<1>6. m # 0
    BY <1>3, <1>4, <1>5
<1>7. m - 1 \in 0..Len(s) /\ m \in 1..Len(s)
    BY <1>1, <1>3, <1>6
<1>8. f[m - 1] = g[m - 1]
    <2>1. m - 1 \notin M
        BY <1>1, <1>3, <1>7
    <2>. QED
        BY <1>7, <2>1
<1>. QED
    BY <1>3, <1>4, <1>5, <1>6, <1>7, <1>8

(* A selection is the last value of such a function.                       *)
LEMMA OnlyKeeps ==
    ASSUME NEW S, NEW s \in Seq(S), NEW T
    PROVE  \E f : Keeps(f, s, T) /\ Only(s, T) = f[Len(s)]
<1>. DEFINE f == CHOOSE h : Keeps(h, s, T)
<1>1. Keeps(f, s, T)
    BY KeepsExists
<1>2. Only(s, T) = f[Len(s)]
    BY DEF Only, Keeps
<1>. HIDE DEF f
<1>. QED
    BY <1>1, <1>2

-----------------------------------------------------------------------------
(* How a selection follows its sequence.                                   *)

(* Nothing is selected from the empty sequence.                            *)
LEMMA OnlyEmpty ==
    ASSUME NEW T
    PROVE  Only(<<>>, T) = <<>>
<1>1. <<>> \in Seq({}) /\ Len(<<>>) = 0
    BY EmptySeq
<1>2. PICK f : Keeps(f, <<>>, T) /\ Only(<<>>, T) = f[0]
    BY <1>1, OnlyKeeps
<1>. QED
    BY <1>1, <1>2 DEF Keeps

(* A selection grows with its sequence, by the elements of the set.        *)
LEMMA OnlyAppend ==
    ASSUME NEW S, NEW s \in Seq(S), NEW e \in S, NEW T
    PROVE  Only(Append(s, e), T) = IF e \in T THEN Append(Only(s, T), e) ELSE Only(s, T)
<1>. DEFINE t == Append(s, e)
<1>1. /\ t \in Seq(S) /\ Len(t) = Len(s) + 1 /\ Len(s) \in Nat
      /\ \A n \in 1..Len(s) : t[n] = s[n]
      /\ t[Len(s) + 1] = e
    BY AppendProperties, LenProperties
<1>. HIDE DEF t
<1>2. PICK f : Keeps(f, s, T) /\ Only(s, T) = f[Len(s)]
    BY OnlyKeeps
<1>3. PICK g : Keeps(g, t, T) /\ Only(t, T) = g[Len(t)]
    BY <1>1, OnlyKeeps
<1>4. f[Len(s)] = g[Len(s)]
    <2>1. Len(s) <= Len(t) /\ Len(s) \in 0..Len(s)
        BY <1>1
    <2>. QED
        BY <1>1, <1>2, <1>3, <2>1, KeepsAgree
<1>5. g[Len(t)] = IF t[Len(t)] \in T THEN Append(g[Len(t) - 1], t[Len(t)]) ELSE g[Len(t) - 1]
    <2>1. Len(t) \in 0..Len(t) /\ Len(t) # 0
        BY <1>1
    <2>. QED
        BY <1>3, <2>1 DEF Keeps
<1>. QED
    BY <1>1, <1>2, <1>3, <1>4, <1>5 DEF t

(* It consists of the sequence's elements in the set.                      *)
LEMMA OnlyType ==
    ASSUME NEW S, NEW T
    PROVE  \A s \in Seq(S) : Only(s, T) \in Seq(S \cap T)
<1>. DEFINE Good == {s \in Seq(S) : Only(s, T) \in Seq(S \cap T)}
<1>1. <<>> \in Good
    BY OnlyEmpty, EmptySeq
<1>2. ASSUME NEW s \in Seq(S), NEW e \in S, s \in Good
      PROVE  Append(s, e) \in Good
    <2>1. Append(s, e) \in Seq(S)
        BY AppendProperties
    <2>2. e \in T => Append(Only(s, T), e) \in Seq(S \cap T)
        BY <1>2, AppendProperties
    <2>. QED
        BY <1>2, <2>1, <2>2, OnlyAppend
<1>. HIDE DEF Good
<1>3. \A s \in Seq(S) : s \in Good
    BY <1>1, <1>2, SequencesGrow
<1>. QED
    BY <1>3 DEF Good

(* An element is selected if and only if it is in the sequence and the set.*)
LEMMA OnlyMembers ==
    ASSUME NEW S, NEW T
    PROVE  \A s \in Seq(S) : \A e \in S :
              (\E i \in DOMAIN Only(s, T) : Only(s, T)[i] = e)
                  <=> e \in T /\ \E i \in DOMAIN s : s[i] = e
<1>. DEFINE Has(s, e) == \E i \in DOMAIN s : s[i] = e
            Good == {s \in Seq(S) : \A e \in S : Has(Only(s, T), e) <=> e \in T /\ Has(s, e)}
<1>1. <<>> \in Good
    <2>1. <<>> \in Seq(S) /\ \A e : ~ Has(<<>>, e)
        BY EmptySeq
    <2>. QED
        BY <2>1, OnlyEmpty
<1>2. ASSUME NEW U, NEW s \in Seq(U), NEW d \in U, NEW e
      PROVE  Has(Append(s, d), e) <=> Has(s, e) \/ d = e
    <2>1. /\ DOMAIN s = 1..Len(s) /\ Len(s) \in Nat
          /\ DOMAIN Append(s, d) = 1..Len(s) + 1
          /\ \A n \in 1..Len(s) : Append(s, d)[n] = s[n]
          /\ Append(s, d)[Len(s) + 1] = d
        BY AppendProperties, LenProperties
    <2>2. Len(s) + 1 \in DOMAIN Append(s, d) /\ DOMAIN s \subseteq DOMAIN Append(s, d)
        BY <2>1
    <2>. QED
        BY <2>1, <2>2
<1>. HIDE DEF Has
<1>3. ASSUME NEW s \in Seq(S), NEW d \in S, s \in Good
      PROVE  Append(s, d) \in Good
    <2>1. Append(s, d) \in Seq(S)
        BY AppendProperties
    <2>2. Only(s, T) \in Seq(S)
        <3>1. ASSUME NEW A, NEW B, A \subseteq B PROVE Seq(A) \subseteq Seq(B)
            BY <3>1
        <3>2. Seq(S \cap T) \subseteq Seq(S)
            BY <3>1
        <3>. QED
            BY <3>2, OnlyType
    <2>3. ASSUME NEW e \in S
          PROVE  Has(Only(Append(s, d), T), e) <=> e \in T /\ Has(Append(s, d), e)
        <3>1. Has(Append(s, d), e) <=> Has(s, e) \/ d = e
            BY <1>2
        <3>2. Has(Append(Only(s, T), d), e) <=> Has(Only(s, T), e) \/ d = e
            BY <1>2, <2>2
        <3>3. Has(Only(s, T), e) <=> e \in T /\ Has(s, e)
            BY <1>3
        <3>. QED
            BY <3>1, <3>2, <3>3, OnlyAppend, ZenonT(30)
    <2>. QED
        BY <2>1, <2>3
<1>. HIDE DEF Good
<1>4. \A s \in Seq(S) : s \in Good
    BY <1>1, <1>3, SequencesGrow
<1>. QED
    BY <1>4 DEF Good, Has

(* Cutting what was appended to.                                           *)
LEMMA PrefixOfAppend ==
    ASSUME NEW S, NEW s \in Seq(S), NEW e \in S, NEW k \in 0..Len(s)
    PROVE  SubSeq(Append(s, e), 1, k) = SubSeq(s, 1, k)
<1>1. /\ Append(s, e) \in Seq(S) /\ Len(Append(s, e)) = Len(s) + 1 /\ Len(s) \in Nat
      /\ \A n \in 1..Len(s) : Append(s, e)[n] = s[n]
    BY AppendProperties, LenProperties
<1>2. /\ SubSeq(s, 1, k) \in Seq(S) /\ Len(SubSeq(s, 1, k)) = k
      /\ \A n \in 1..k : SubSeq(s, 1, k)[n] = s[n]
    BY <1>1, ElementOfSeq, SubSeqProperties
<1>3. /\ SubSeq(Append(s, e), 1, k) \in Seq(S) /\ Len(SubSeq(Append(s, e), 1, k)) = k
      /\ \A n \in 1..k : SubSeq(Append(s, e), 1, k)[n] = Append(s, e)[n]
    BY <1>1, ElementOfSeq, SubSeqProperties
<1>. QED
    BY <1>1, <1>2, <1>3, SeqEqual

(* One element more of a prefix.                                           *)
LEMMA LongerPrefix ==
    ASSUME NEW S, NEW s \in Seq(S), NEW k \in 0..(Len(s) - 1)
    PROVE  /\ SubSeq(s, 1, k) \in Seq(S) /\ s[k + 1] \in S
           /\ SubSeq(s, 1, k + 1) = Append(SubSeq(s, 1, k), s[k + 1])
<1>1. Len(s) \in Nat /\ \A n \in 1..Len(s) : s[n] \in S
    BY LenProperties, ElementOfSeq
<1>2. /\ SubSeq(s, 1, k) \in Seq(S) /\ Len(SubSeq(s, 1, k)) = k
      /\ \A n \in 1..k : SubSeq(s, 1, k)[n] = s[n]
    BY <1>1, SubSeqProperties
<1>3. /\ SubSeq(s, 1, k + 1) \in Seq(S) /\ Len(SubSeq(s, 1, k + 1)) = k + 1
      /\ \A n \in 1..(k + 1) : SubSeq(s, 1, k + 1)[n] = s[n]
    BY <1>1, SubSeqProperties
<1>. DEFINE t == Append(SubSeq(s, 1, k), s[k + 1])
<1>4. /\ t \in Seq(S) /\ Len(t) = k + 1 /\ s[k + 1] \in S
      /\ \A n \in 1..k : t[n] = s[n]
      /\ t[k + 1] = s[k + 1]
    BY <1>1, <1>2, AppendProperties
<1>. HIDE DEF t
<1>5. \A n \in 1..(k + 1) : n \in 1..k \/ n = k + 1
    OBVIOUS
<1>6. SubSeq(s, 1, k + 1) = t
    BY <1>3, <1>4, <1>5, SeqEqual
<1>. QED
    BY <1>2, <1>4, <1>6 DEF t

(* A selection from a prefix is a prefix of the selection.                 *)
LEMMA OnlyPrefix ==
    ASSUME NEW S, NEW T
    PROVE  \A s \in Seq(S) : \A k \in 0..Len(s) :
              \E j \in 0..Len(Only(s, T)) :
                  Only(SubSeq(s, 1, k), T) = SubSeq(Only(s, T), 1, j)
<1>. DEFINE Cut(s, k) == \E j \in 0..Len(Only(s, T)) :
                            Only(SubSeq(s, 1, k), T) = SubSeq(Only(s, T), 1, j)
            Good == {s \in Seq(S) : \A k \in 0..Len(s) : Cut(s, k)}
<1>1. ASSUME NEW s \in Seq(S) PROVE Cut(s, Len(s))
    <2>1. SubSeq(s, 1, Len(s)) = s
        BY SubSeqFull
    <2>2. Only(s, T) \in Seq(S \cap T)
        BY OnlyType
    <2>3. SubSeq(Only(s, T), 1, Len(Only(s, T))) = Only(s, T)
        BY <2>2, SubSeqFull
    <2>4. Len(Only(s, T)) \in 0..Len(Only(s, T))
        BY <2>2, LenProperties
    <2>. QED
        BY <2>1, <2>3, <2>4
<1>2. <<>> \in Good
    <2>1. <<>> \in Seq(S) /\ Len(<<>>) = 0
        BY EmptySeq
    <2>2. Cut(<<>>, 0)
        BY <1>1, <2>1
    <2>. HIDE DEF Cut
    <2>3. \A k \in 0..Len(<<>>) : k = 0
        BY <2>1
    <2>. QED
        BY <2>1, <2>2, <2>3
<1>3. ASSUME NEW s \in Seq(S), NEW e \in S, s \in Good
      PROVE  Append(s, e) \in Good
    <2>1. Append(s, e) \in Seq(S) /\ Len(Append(s, e)) = Len(s) + 1 /\ Len(s) \in Nat
        BY AppendProperties, LenProperties
    <2>2. ASSUME NEW k \in 0..Len(s) PROVE Cut(Append(s, e), k)
        <3>1. PICK j \in 0..Len(Only(s, T)) :
                  Only(SubSeq(s, 1, k), T) = SubSeq(Only(s, T), 1, j)
            BY <1>3
        <3>2. Only(SubSeq(Append(s, e), 1, k), T) = SubSeq(Only(s, T), 1, j)
            BY <3>1, PrefixOfAppend
        <3>3. Only(s, T) \in Seq(S \cap T)
            BY OnlyType
        <3>4. CASE e \in T
            <4>1. Only(Append(s, e), T) = Append(Only(s, T), e)
                BY <3>4, OnlyAppend
            <4>2. SubSeq(Append(Only(s, T), e), 1, j) = SubSeq(Only(s, T), 1, j)
                BY <3>3, <3>4, PrefixOfAppend
            <4>3. j \in 0..Len(Append(Only(s, T), e))
                BY <3>3, <3>4, AppendProperties, LenProperties
            <4>. QED
                BY <3>2, <4>1, <4>2, <4>3
        <3>5. CASE e \notin T
            BY <3>2, <3>5, OnlyAppend
        <3>. QED
            BY <3>4, <3>5
    <2>3. Cut(Append(s, e), Len(s) + 1)
        BY <1>1, <2>1
    <2>4. \A k \in 0..Len(Append(s, e)) : k \in 0..Len(s) \/ k = Len(s) + 1
        BY <2>1
    <2>. HIDE DEF Cut
    <2>. QED
        BY <2>1, <2>2, <2>3, <2>4
<1>. HIDE DEF Good
<1>4. \A s \in Seq(S) : s \in Good
    BY <1>2, <1>3, SequencesGrow
<1>. QED
    BY <1>4 DEF Good

(* A selection is no longer than its sequence.                             *)
LEMMA OnlyLength ==
    ASSUME NEW S, NEW T
    PROVE  \A s \in Seq(S) : Len(Only(s, T)) <= Len(s)
<1>. DEFINE Good == {s \in Seq(S) : Len(Only(s, T)) <= Len(s)}
<1>1. <<>> \in Good
    BY OnlyEmpty, EmptySeq
<1>2. ASSUME NEW s \in Seq(S), NEW e \in S, s \in Good
      PROVE  Append(s, e) \in Good
    <2>1. /\ Append(s, e) \in Seq(S) /\ Len(Append(s, e)) = Len(s) + 1 /\ Len(s) \in Nat
          /\ Len(Only(s, T)) <= Len(s)
        BY <1>2, AppendProperties, LenProperties
    <2>2. Only(s, T) \in Seq(S \cap T) /\ Len(Only(s, T)) \in Nat
        BY OnlyType, LenProperties
    <2>3. e \in T => Len(Append(Only(s, T), e)) = Len(Only(s, T)) + 1
        BY <2>2, AppendProperties
    <2>. QED
        BY <2>1, <2>2, <2>3, OnlyAppend, SMTT(30)
<1>. HIDE DEF Good
<1>3. \A s \in Seq(S) : s \in Good
    BY <1>1, <1>2, SequencesGrow
<1>. QED
    BY <1>3 DEF Good

-----------------------------------------------------------------------------
(* The same of one field of the selected records.                          *)

(* The field of every record that can be selected has a value in V.        *)
Fits(S, T, field, V) == \A e \in S \cap T : e[field] \in V

(* The empty sequence has the empty column.                                *)
LEMMA ColumnEmpty ==
    ASSUME NEW T, NEW field
    PROVE  Column(<<>>, T, field) = <<>>
<1>1. DOMAIN <<>> = {}
    BY EmptySeq
<1>2. Column(<<>>, T, field) = [i \in {} |-> <<>>[i][field]]
    BY <1>1, OnlyEmpty DEF Column
<1>3. [i \in 1..0 |-> <<>>[i][field]] \in Seq({})
    BY IsASeq
<1>4. 1..0 = {}
    OBVIOUS
<1>. QED
    BY <1>1, <1>2, <1>3, <1>4, EmptySeq, LenProperties

(* A column has a value of V for each selected record.                     *)
LEMMA ColumnType ==
    ASSUME NEW S, NEW s \in Seq(S), NEW T, NEW field, NEW V,
           Fits(S, T, field, V)
    PROVE  /\ Column(s, T, field) \in Seq(V)
           /\ Len(Column(s, T, field)) = Len(Only(s, T))
           /\ Len(Only(s, T)) \in Nat /\ Len(Only(s, T)) <= Len(s)
           /\ \A i \in 1..Len(Only(s, T)) :
                 /\ Only(s, T)[i] \in S \cap T
                 /\ Column(s, T, field)[i] = Only(s, T)[i][field]
<1>. DEFINE chosen == Only(s, T)
<1>1. chosen \in Seq(S \cap T) /\ Len(chosen) <= Len(s)
    BY OnlyType, OnlyLength
<1>2. Column(s, T, field) = [i \in DOMAIN chosen |-> chosen[i][field]]
    BY DEF Column
<1>. HIDE DEF chosen
<1>3. /\ Len(chosen) \in Nat /\ DOMAIN chosen = 1..Len(chosen)
      /\ \A i \in 1..Len(chosen) : chosen[i] \in S \cap T
    BY <1>1, LenProperties, ElementOfSeq
<1>4. \A i \in 1..Len(chosen) : chosen[i][field] \in V
    BY <1>3 DEF Fits
<1>5. Column(s, T, field) \in Seq(V) /\ Len(Column(s, T, field)) = Len(chosen)
    BY <1>2, <1>3, <1>4, IsASeq, LenProperties
<1>. QED
    BY <1>1, <1>2, <1>3, <1>5 DEF chosen

(* A column grows with its sequence, by the selected records' field.       *)
LEMMA ColumnAppend ==
    ASSUME NEW S, NEW s \in Seq(S), NEW d \in S, NEW T, NEW field, NEW V,
           Fits(S, T, field, V)
    PROVE  Column(Append(s, d), T, field) =
               IF d \in T THEN Append(Column(s, T, field), d[field]) ELSE Column(s, T, field)
<1>. DEFINE chosen == Only(s, T)
            longer == Append(chosen, d)
            old == Column(s, T, field)
            new == Column(Append(s, d), T, field)
<1>1. CASE d \notin T
    BY <1>1, OnlyAppend DEF Column
<1>2. CASE d \in T
    <2>1. PICK t \in Seq(S) : t = Append(s, d)
        BY AppendProperties
    <2>2. Only(t, T) = longer
        BY <1>2, <2>1, OnlyAppend
    <2>3. chosen \in Seq(S \cap T) /\ d \in S \cap T
        BY <1>2, OnlyType
    <2>4. /\ new \in Seq(V) /\ Len(new) = Len(longer)
          /\ \A i \in 1..Len(longer) : new[i] = longer[i][field]
        <3>1. new = Column(t, T, field)
            BY <2>1
        <3>. HIDE DEF new, longer
        <3>. QED
            BY <2>2, <3>1, ColumnType
    <2>5. /\ old \in Seq(V) /\ Len(old) = Len(chosen) /\ Len(chosen) \in Nat
          /\ \A i \in 1..Len(chosen) : old[i] = chosen[i][field]
        BY ColumnType
    <2>. HIDE DEF chosen, old, new
    <2>6. /\ Len(longer) = Len(chosen) + 1
          /\ \A i \in 1..Len(chosen) : longer[i] = chosen[i]
          /\ longer[Len(chosen) + 1] = d
        BY <2>3, AppendProperties
    <2>7. /\ Append(old, d[field]) \in Seq(V) /\ Len(Append(old, d[field])) = Len(chosen) + 1
          /\ \A i \in 1..Len(chosen) : Append(old, d[field])[i] = old[i]
          /\ Append(old, d[field])[Len(chosen) + 1] = d[field]
        <3>1. d[field] \in V
            BY <2>3 DEF Fits
        <3>. QED
            BY <2>5, <3>1, AppendProperties
    <2>. HIDE DEF longer
    <2>8. ASSUME NEW i \in 1..(Len(chosen) + 1)
          PROVE  new[i] = Append(old, d[field])[i]
        <3>1. i \in 1..Len(chosen) \/ i = Len(chosen) + 1
            BY <2>5
        <3>. QED
            BY <2>4, <2>5, <2>6, <2>7, <3>1
    <2>9. new = Append(old, d[field])
        BY <2>4, <2>6, <2>7, <2>8, SeqEqual
    <2>. QED
        BY <1>2, <2>9 DEF new, old
<1>. QED
    BY <1>1, <1>2

(* The column of a prefix is a prefix of the column.                       *)
LEMMA ColumnPrefix ==
    ASSUME NEW S, NEW s \in Seq(S), NEW k \in 0..Len(s), NEW T, NEW field, NEW V,
           Fits(S, T, field, V)
    PROVE  \E j \in 0..Len(Column(s, T, field)) :
              Column(SubSeq(s, 1, k), T, field) = SubSeq(Column(s, T, field), 1, j)
<1>. DEFINE chosen == Only(s, T)
            cut == SubSeq(s, 1, k)
            all == Column(s, T, field)
            some == Column(cut, T, field)
<1>1. PICK j \in 0..Len(chosen) : Only(cut, T) = SubSeq(chosen, 1, j)
    BY OnlyPrefix
<1>2. cut \in Seq(S)
    <2>1. \A i \in 1..k : s[i] \in S
        BY ElementOfSeq, LenProperties
    <2>. QED
        BY <2>1, SubSeqProperties
<1>3. chosen \in Seq(S \cap T) /\ Len(chosen) \in Nat
    BY OnlyType, LenProperties
<1>4. /\ all \in Seq(V) /\ Len(all) = Len(chosen)
      /\ \A i \in 1..Len(chosen) : all[i] = chosen[i][field]
    BY ColumnType
<1>5. /\ some \in Seq(V) /\ Len(some) = Len(SubSeq(chosen, 1, j))
      /\ \A i \in 1..Len(SubSeq(chosen, 1, j)) : some[i] = SubSeq(chosen, 1, j)[i][field]
    <2>. HIDE DEF cut, chosen
    <2>1. /\ some \in Seq(V) /\ Len(some) = Len(Only(cut, T))
          /\ \A i \in 1..Len(Only(cut, T)) : some[i] = Only(cut, T)[i][field]
        BY <1>2, ColumnType
    <2>. QED
        BY <1>1, <2>1
<1>. HIDE DEF chosen, cut, all, some
<1>6. Len(SubSeq(chosen, 1, j)) = j /\ \A i \in 1..j : SubSeq(chosen, 1, j)[i] = chosen[i]
    BY <1>3, ElementOfSeq, SubSeqProperties
<1>7. /\ SubSeq(all, 1, j) \in Seq(V) /\ Len(SubSeq(all, 1, j)) = j
      /\ \A i \in 1..j : SubSeq(all, 1, j)[i] = all[i]
    BY <1>3, <1>4, ElementOfSeq, SubSeqProperties
<1>8. some = SubSeq(all, 1, j)
    BY <1>3, <1>4, <1>5, <1>6, <1>7, SeqEqual
<1>. QED
    BY <1>4, <1>8 DEF all, some, cut

(* A selected element of s has v in its field.                             *)
Shows(s, T, field, v) == \E i \in DOMAIN s : s[i] \in T /\ s[i][field] = v

(* A value is in the column if a selected record shows it.                 *)
LEMMA ColumnMembers ==
    ASSUME NEW S, NEW s \in Seq(S), NEW T, NEW field, NEW v
    PROVE  (\E i \in DOMAIN Column(s, T, field) : Column(s, T, field)[i] = v)
               <=> Shows(s, T, field, v)
<1>. DEFINE chosen == Only(s, T)
<1>1. /\ DOMAIN Column(s, T, field) = DOMAIN chosen
      /\ \A i \in DOMAIN chosen : Column(s, T, field)[i] = chosen[i][field]
    BY DEF Column
<1>2. /\ \A i \in DOMAIN chosen : chosen[i] \in S \cap T
      /\ \A i \in DOMAIN s : s[i] \in S
    BY OnlyType, LenProperties, ElementOfSeq
<1>3. \A e \in S : (\E i \in DOMAIN chosen : chosen[i] = e)
                       <=> e \in T /\ \E i \in DOMAIN s : s[i] = e
    BY OnlyMembers
<1>. HIDE DEF chosen
<1>. QED
    BY <1>1, <1>2, <1>3 DEF Shows

=============================================================================
