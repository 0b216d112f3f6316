------------------------- MODULE FileOperationsProofs -------------------------
(***************************************************************************)
(* Proofs about file_operations (FileOperations), for every set of names,  *)
(* objects and faults: every descriptor and every mapping in use has one   *)
(* object that releases it, or is among the lost ones; nothing is lost     *)
(* while no system call fails; an object that is reloaded shows the file   *)
(* as it is; and a save whose pieces can be read until their turn comes    *)
(* (NewCall) writes them whole and in their order.                         *)
(***************************************************************************)
EXTENDS FileOperations, DataLemmas

Numbers == Nat \ {0}

\* What can be lost: a descriptor, a mapping or the copy of an object's own data.
Losses == {"fd", "map", "copy"} \X Nat

Rules == {"foreign", "delete", "stale", "beyond", "freed"}

Systems(M) ==
  [fds : SUBSET Numbers, maps : M, lost : SUBSET Losses, faults : SUBSET Calls, broken : SUBSET Rules]

\* The numbers in use are finitely many, so that there is a lowest free one.
SysOK(s) ==
  /\ \E M : s \in Systems(M)
  /\ IsFiniteSet(s.fds)
  /\ DOMAIN s.maps \subseteq Numbers /\ IsFiniteSet(DOMAIN s.maps)

Sizes == {n \in Int : n >= -1}

AnyObject ==
  [live : BOOLEAN, name : Names \cup {NoName}, size : Sizes, data : Sizes, fd : Sizes,
   clean : BOOLEAN]

\* The numbers U are in use: each of L is lost, and each of the others belongs to one of
\* the holders H, o to h[o].
Held(U, L, H, h) ==
  /\ \A o \in H : h[o] \in U /\ h[o] \notin L
  /\ \A o, p \in H : o # p => h[o] # h[p]
  /\ \A k \in U : k \in L \/ \E o \in H : h[o] = k
  /\ L \subseteq U

LostFds(s) == {k \in Nat : <<"fd", k>> \in s.lost}
LostMaps(s) == {k \in Nat : <<"map", k>> \in s.lost}
Holders(os) == {o \in Objects : ~os[o].clean}
Fds(os) == [o \in Objects |-> os[o].fd]
Datas(os) == [o \in Objects |-> os[o].data]

\* OwnedOnce of a process s and objects os, so that it can be asked in the middle of a
\* call, with what keeps it: what is lost belongs to no object and is never released.
Owned(s, os) ==
  /\ Held(s.fds, LostFds(s), Holders(os), Fds(os))
  /\ Held(DOMAIN s.maps, LostMaps(s), Holders(os), Datas(os))
  /\ "foreign" \notin s.broken

LostWithFault(s) == s.faults = {} => s.lost \subseteq {<<"copy", 0>>}

\* What every moment of a call keeps.
Sound(s, os) ==
  /\ SysOK(s)
  /\ os \in [Objects -> AnyObject]
  /\ \A o \in Objects : os[o].clean \/ os[o].live
  /\ LostWithFault(s)
  /\ "close" \notin s.faults => Owned(s, os)

-----------------------------------------------------------------------------
(* The lowest free number. *)

\* There is a free number among one more than are used, and the lowest is chosen (what
\* the kernel does for open and mmap).
LEMMA LowestIsFree ==
  ASSUME NEW used, IsFiniteSet(used)
  PROVE  LowestFree(used) \in Numbers /\ LowestFree(used) \notin used
<1> DEFINE N == Cardinality(used)
           S == {k \in 1..(N + 1) : k \notin used}
           P(k) == k \notin used /\ \A j \in 1..(k - 1) : j \in used
<1>1. N \in Nat
  BY FS_CardinalityType
<1>2. S # {}
  <2> SUFFICES ASSUME 1..(N + 1) \subseteq used PROVE FALSE
    OBVIOUS
  <2>1. Cardinality(1..(N + 1)) = N + 1
    BY <1>1, FS_Interval
  <2>2. Cardinality(1..(N + 1)) <= N
    BY FS_Subset
  <2> QED
    BY <1>1, <2>1, <2>2
<1>3. PICK n \in S : \A m \in S : n <= m
  <2>1. S \subseteq Nat
    BY <1>1
  <2> QED
    BY <1>2, <2>1, Least
<1>4. P(n)
  BY <1>1, <1>3
<1>5. \E k \in 1..(N + 1) : P(k)
  BY <1>4
<1> HIDE DEF N
<1>6. LET c == CHOOSE k \in 1..(N + 1) : P(k) IN c \in 1..(N + 1) /\ P(c)
  BY <1>5
<1> QED
  BY <1>1, <1>6 DEF LowestFree, N, Numbers

-----------------------------------------------------------------------------
(* What the steps of a call do to the process. *)

\* A call that fails is noted.
LEMMA FaultIs ==
  ASSUME NEW s, SysOK(s), NEW c \in Calls
  PROVE  /\ SysOK(Fault(s, c)) /\ Fault(s, c).fds = s.fds /\ Fault(s, c).maps = s.maps
         /\ Fault(s, c).lost = s.lost /\ Fault(s, c).broken = s.broken
         /\ Fault(s, c).faults = s.faults \cup {c}
<1>1. PICK M : s \in Systems(M)
  BY DEF SysOK
<1>2. s.faults \cup {c} \subseteq Calls
  BY <1>1 DEF Systems
<1> DEFINE t == Fault(s, c)
<1>3. /\ t \in Systems(M) /\ t.fds = s.fds /\ t.maps = s.maps /\ t.lost = s.lost
      /\ t.broken = s.broken /\ t.faults = s.faults \cup {c}
  BY <1>1, <1>2 DEF Fault, Systems
<1> HIDE DEF t
<1>4. SysOK(t)
  BY <1>3 DEF SysOK
<1> QED
  BY <1>3, <1>4 DEF t

\* What nobody will release is noted.
LEMMA LoseIs ==
  ASSUME NEW s, SysOK(s), NEW what, what \subseteq Losses
  PROVE  /\ SysOK(Lose(s, what)) /\ Lose(s, what).fds = s.fds /\ Lose(s, what).maps = s.maps
         /\ Lose(s, what).faults = s.faults /\ Lose(s, what).broken = s.broken
         /\ Lose(s, what).lost = s.lost \cup what
<1>1. PICK M : s \in Systems(M)
  BY DEF SysOK
<1>2. s.lost \cup what \subseteq Losses
  BY <1>1 DEF Systems
<1> DEFINE t == Lose(s, what)
<1>3. /\ t \in Systems(M) /\ t.fds = s.fds /\ t.maps = s.maps /\ t.faults = s.faults
      /\ t.broken = s.broken /\ t.lost = s.lost \cup what
  BY <1>1, <1>2 DEF Lose, Systems
<1> HIDE DEF t
<1>4. SysOK(t)
  BY <1>3 DEF SysOK
<1> QED
  BY <1>3, <1>4 DEF t

\* A rule that is broken is noted.
LEMMA BreakIs ==
  ASSUME NEW s, SysOK(s), NEW what \in Rules
  PROVE  /\ SysOK(Break(s, what)) /\ Break(s, what).fds = s.fds /\ Break(s, what).maps = s.maps
         /\ Break(s, what).faults = s.faults /\ Break(s, what).lost = s.lost
         /\ Break(s, what).broken = s.broken \cup {what}
<1>1. PICK M : s \in Systems(M)
  BY DEF SysOK
<1>2. s.broken \cup {what} \subseteq Rules
  BY <1>1 DEF Systems
<1> DEFINE t == Break(s, what)
<1>3. /\ t \in Systems(M) /\ t.fds = s.fds /\ t.maps = s.maps /\ t.faults = s.faults
      /\ t.lost = s.lost /\ t.broken = s.broken \cup {what}
  BY <1>1, <1>2 DEF Break, Systems
<1> HIDE DEF t
<1>4. SysOK(t)
  BY <1>3 DEF SysOK
<1> QED
  BY <1>3, <1>4 DEF t

\* open takes a descriptor.
LEMMA OpenedIs ==
  ASSUME NEW s, SysOK(s), NEW k \in Numbers
  PROVE  LET t == [s EXCEPT !.fds = @ \cup {k}]
         IN  /\ SysOK(t) /\ t.maps = s.maps /\ t.faults = s.faults
             /\ t.lost = s.lost /\ t.broken = s.broken /\ t.fds = s.fds \cup {k}
<1>1. PICK M : s \in Systems(M)
  BY DEF SysOK
<1> DEFINE F == s.fds \cup {k}
           t == [s EXCEPT !.fds = F]
<1>2. F \subseteq Numbers
  BY <1>1 DEF Systems
<1>3. IsFiniteSet(F)
  BY FS_AddElement DEF SysOK
<1> HIDE DEF F
<1>4. /\ t \in Systems(M) /\ t.maps = s.maps /\ t.faults = s.faults
      /\ t.lost = s.lost /\ t.broken = s.broken /\ t.fds = F
  BY <1>1, <1>2 DEF Systems
<1>5. t = [s EXCEPT !.fds = @ \cup {k}]
  BY DEF F
<1> HIDE DEF t
<1>6. SysOK(t)
  BY <1>3, <1>4 DEF SysOK
<1> QED
  BY <1>4, <1>5, <1>6 DEF F

\* close gives it back.
LEMMA ClosedIs ==
  ASSUME NEW s, SysOK(s), NEW k
  PROVE  LET t == [s EXCEPT !.fds = @ \ {k}]
         IN  /\ SysOK(t) /\ t.maps = s.maps /\ t.faults = s.faults
             /\ t.lost = s.lost /\ t.broken = s.broken /\ t.fds = s.fds \ {k}
<1>1. PICK M : s \in Systems(M)
  BY DEF SysOK
<1> DEFINE F == s.fds \ {k}
           t == [s EXCEPT !.fds = F]
<1>2. F \subseteq Numbers
  BY <1>1 DEF Systems
<1>3. IsFiniteSet(F)
  BY FS_Subset DEF SysOK
<1> HIDE DEF F
<1>4. /\ t \in Systems(M) /\ t.maps = s.maps /\ t.faults = s.faults
      /\ t.lost = s.lost /\ t.broken = s.broken /\ t.fds = F
  BY <1>1, <1>2 DEF Systems
<1>5. t = [s EXCEPT !.fds = @ \ {k}]
  BY DEF F
<1> HIDE DEF t
<1>6. SysOK(t)
  BY <1>3, <1>4 DEF SysOK
<1> QED
  BY <1>4, <1>5, <1>6 DEF F

\* mmap and munmap change the mappings.
LEMMA RemappedIs ==
  ASSUME NEW s, SysOK(s), NEW f, DOMAIN f \subseteq Numbers, IsFiniteSet(DOMAIN f)
  PROVE  LET t == [s EXCEPT !.maps = f]
         IN  /\ SysOK(t) /\ t.fds = s.fds /\ t.faults = s.faults
             /\ t.lost = s.lost /\ t.broken = s.broken /\ t.maps = f
<1>1. PICK M : s \in Systems(M)
  BY DEF SysOK
<1> DEFINE t == [s EXCEPT !.maps = f]
<1>2. /\ t \in Systems(M \cup {f}) /\ t.fds = s.fds /\ t.faults = s.faults
      /\ t.lost = s.lost /\ t.broken = s.broken /\ t.maps = f
  BY <1>1 DEF Systems
<1> HIDE DEF t
<1>3. SysOK(t)
  BY <1>2 DEF SysOK
<1> QED
  BY <1>2, <1>3 DEF t

-----------------------------------------------------------------------------
(* Who owns what, after each of them. *)

\* A number that nobody uses is taken by one who held none.
LEMMA HeldTaken ==
  ASSUME NEW U, NEW L, NEW H, NEW h, Held(U, L, H, h), NEW k, k \notin U, NEW o, o \notin H,
         NEW g, g[o] = k, \A p \in H : g[p] = h[p]
  PROVE  Held(U \cup {k}, L, H \cup {o}, g)
<1>1. \A p \in H \cup {o} : g[p] \in U \cup {k} /\ g[p] \notin L
  BY DEF Held
<1>2. \A q, p \in H \cup {o} : q # p => g[q] # g[p]
  BY DEF Held
<1>3. \A j \in U \cup {k} : j \in L \/ \E p \in H \cup {o} : g[p] = j
  BY DEF Held
<1> QED
  BY <1>1, <1>2, <1>3 DEF Held

\* One is given back.
LEMMA HeldReleased ==
  ASSUME NEW U, NEW L, NEW H, NEW h, Held(U, L, H, h), NEW o \in H,
         NEW g, \A p \in H \ {o} : g[p] = h[p]
  PROVE  Held(U \ {h[o]}, L, H \ {o}, g)
<1>1. \A p \in H \ {o} : g[p] \in U \ {h[o]} /\ g[p] \notin L
  BY DEF Held
<1>2. \A q, p \in H \ {o} : q # p => g[q] # g[p]
  BY DEF Held
<1>3. \A j \in U \ {h[o]} : j \in L \/ \E p \in H \ {o} : g[p] = j
  BY DEF Held
<1>4. L \subseteq U \ {h[o]}
  BY DEF Held
<1> QED
  BY <1>1, <1>2, <1>3, <1>4 DEF Held

\* One is lost.
LEMMA HeldAbandoned ==
  ASSUME NEW U, NEW L, NEW H, NEW h, Held(U, L, H, h), NEW o \in H,
         NEW g, \A p \in H \ {o} : g[p] = h[p]
  PROVE  Held(U, L \cup {h[o]}, H \ {o}, g)
<1>1. \A p \in H \ {o} : g[p] \in U /\ g[p] \notin L \cup {h[o]}
  BY DEF Held
<1>2. \A q, p \in H \ {o} : q # p => g[q] # g[p]
  BY DEF Held
<1>3. \A j \in U : j \in L \cup {h[o]} \/ \E p \in H \ {o} : g[p] = j
  BY DEF Held
<1>4. L \cup {h[o]} \subseteq U
  BY DEF Held
<1> QED
  BY <1>1, <1>2, <1>3, <1>4 DEF Held

\* A new one is lost at once.
LEMMA HeldLost ==
  ASSUME NEW U, NEW L, NEW H, NEW h, Held(U, L, H, h), NEW k, k \notin U
  PROVE  Held(U \cup {k}, L \cup {k}, H, h)
BY DEF Held

\* One passes to another holder.
LEMMA HeldMoved ==
  ASSUME NEW U, NEW L, NEW H, NEW h, Held(U, L, H, h), NEW o, NEW p \in H, o \notin H,
         NEW g, g[o] = h[p], \A q \in H \ {p} : g[q] = h[q]
  PROVE  Held(U, L, (H \ {p}) \cup {o}, g)
<1> DEFINE I == (H \ {p}) \cup {o}
<1>1. \A q \in I : g[q] \in U /\ g[q] \notin L
  BY DEF Held
<1>2. \A q, r \in I : q # r => g[q] # g[r]
  BY DEF Held
<1>3. \A j \in U : j \in L \/ \E q \in I : g[q] = j
  <2> SUFFICES ASSUME NEW j \in U, j \notin L PROVE \E q \in I : g[q] = j
    OBVIOUS
  <2>1. PICK q \in H : h[q] = j
    BY DEF Held
  <2>2. CASE q = p
    BY <2>1, <2>2
  <2>3. CASE q # p
    BY <2>1, <2>3
  <2> QED
    BY <2>2, <2>3
<1> QED
  BY <1>1, <1>2, <1>3 DEF Held

\* It does not matter what the others would hold.
LEMMA HeldSame ==
  ASSUME NEW U, NEW L, NEW H, NEW h, Held(U, L, H, h), NEW g, \A p \in H : g[p] = h[p]
  PROVE  Held(U, L, H, g)
BY DEF Held

\* The objects ot are the objects os, but for one.
Assigned(o, y, os, ot) == ot = [os EXCEPT ![o] = y]
OnlyAtBoth(o, p, os, ot) == \A q \in Objects \ {o, p} : ot[q] = os[q]
OnlyAt(o, os, ot) == \A p \in Objects \ {o} : ot[p] = os[p]

\* An object that holds nothing is put in the place of one that holds nothing.
LEMMA OwnedCleanObject ==
  ASSUME NEW s, NEW os, Owned(s, os), NEW o \in Objects, os[o].clean,
         NEW ot, ot[o].clean, OnlyAt(o, os, ot)
  PROVE  Owned(s, ot)
<1>1. Holders(ot) = Holders(os)
  BY DEF OnlyAt, Holders
<1>2. \A p \in Holders(os) : p # o /\ ot[p] = os[p] /\ Fds(ot)[p] = Fds(os)[p] /\ Datas(ot)[p] = Datas(os)[p]
  BY DEF OnlyAt, Holders, Fds, Datas
<1> QED
  BY <1>1, <1>2, HeldSame DEF Owned

\* A new descriptor is lost at once.
LEMMA OwnedLostFd ==
  ASSUME NEW s, NEW os, Owned(s, os), NEW t, NEW fd \in Nat,
         fd \notin s.fds, t.fds = s.fds \cup {fd}, t.maps = s.maps,
         t.lost = s.lost \cup {<<"fd", fd>>}, t.broken = s.broken
  PROVE  Owned(t, os)
<1>1. LostFds(t) = LostFds(s) \cup {fd} /\ LostMaps(t) = LostMaps(s)
  BY DEF LostFds, LostMaps
<1> QED
  BY <1>1, HeldLost DEF Owned

\* A new descriptor and a new mapping are.
LEMMA OwnedLostBoth ==
  ASSUME NEW s, NEW os, Owned(s, os), NEW t, NEW fd \in Nat, NEW m \in Nat,
         fd \notin s.fds, t.fds = s.fds \cup {fd},
         m \notin DOMAIN s.maps, DOMAIN t.maps = DOMAIN s.maps \cup {m},
         t.lost = s.lost \cup {<<"fd", fd>>, <<"map", m>>}, t.broken = s.broken
  PROVE  Owned(t, os)
<1>1. LostFds(t) = LostFds(s) \cup {fd} /\ LostMaps(t) = LostMaps(s) \cup {m}
  BY DEF LostFds, LostMaps
<1> QED
  BY <1>1, HeldLost DEF Owned

\* An object that held nothing takes a new descriptor and a new mapping.
LEMMA OwnedTaken ==
  ASSUME NEW s, NEW os, Owned(s, os), NEW t, NEW fd, NEW m,
         fd \notin s.fds, m \notin DOMAIN s.maps,
         t.fds = s.fds \cup {fd}, DOMAIN t.maps = DOMAIN s.maps \cup {m},
         t.lost = s.lost, t.broken = s.broken,
         NEW o \in Objects, os[o].clean,
         NEW ot, OnlyAt(o, os, ot),
         ~ot[o].clean, ot[o].fd = fd, ot[o].data = m
  PROVE  Owned(t, ot)
<1>1. Holders(ot) = Holders(os) \cup {o} /\ o \notin Holders(os)
  BY DEF OnlyAt, Holders
<1>2. /\ \A p \in Holders(os) : ot[p] = os[p] /\ Fds(ot)[p] = Fds(os)[p] /\ Datas(ot)[p] = Datas(os)[p]
      /\ Fds(ot)[o] = fd /\ Datas(ot)[o] = m
  BY DEF OnlyAt, Holders, Fds, Datas
<1>3. LostFds(t) = LostFds(s) /\ LostMaps(t) = LostMaps(s)
  BY DEF LostFds, LostMaps
<1>4. Held(t.fds, LostFds(t), Holders(ot), Fds(ot))
  <2>1. Held(s.fds, LostFds(s), Holders(os), Fds(os))
    BY DEF Owned
  <2>2. Fds(ot)[o] = fd /\ \A p \in Holders(os) : Fds(ot)[p] = Fds(os)[p]
    BY <1>2
  <2>3. Held(s.fds \cup {fd}, LostFds(s), Holders(os) \cup {o}, Fds(ot))
    BY <1>1, <2>1, <2>2, HeldTaken
  <2> QED
    BY <1>1, <1>3, <2>3
<1>5. Held(DOMAIN t.maps, LostMaps(t), Holders(ot), Datas(ot))
  <2>1. Held(DOMAIN s.maps, LostMaps(s), Holders(os), Datas(os))
    BY DEF Owned
  <2>2. Datas(ot)[o] = m /\ \A p \in Holders(os) : Datas(ot)[p] = Datas(os)[p]
    BY <1>2
  <2>3. Held(DOMAIN s.maps \cup {m}, LostMaps(s), Holders(os) \cup {o}, Datas(ot))
    BY <1>1, <2>1, <2>2, HeldTaken
  <2> QED
    BY <1>1, <1>3, <2>3
<1> QED
  BY <1>1, <1>2, <1>4, <1>5 DEF Owned

\* An object gives back what it held.
LEMMA OwnedReleased ==
  ASSUME NEW s, NEW os, Owned(s, os), NEW t, NEW o \in Objects, ~os[o].clean,
         t.fds = s.fds \ {os[o].fd}, DOMAIN t.maps = DOMAIN s.maps \ {os[o].data},
         t.lost = s.lost, t.broken = s.broken,
         NEW ot, ot[o].clean, OnlyAt(o, os, ot)
  PROVE  Owned(t, ot)
<1>1. Holders(ot) = Holders(os) \ {o} /\ o \in Holders(os)
  BY DEF OnlyAt, Holders
<1>2. /\ \A p \in Holders(os) \ {o} :
           ot[p] = os[p] /\ Fds(ot)[p] = Fds(os)[p] /\ Datas(ot)[p] = Datas(os)[p]
      /\ Fds(os)[o] = os[o].fd /\ Datas(os)[o] = os[o].data
  BY DEF OnlyAt, Holders, Fds, Datas
<1>3. LostFds(t) = LostFds(s) /\ LostMaps(t) = LostMaps(s)
  BY DEF LostFds, LostMaps
<1>4. Held(t.fds, LostFds(t), Holders(ot), Fds(ot))
  BY <1>1, <1>2, <1>3, HeldReleased DEF Owned
<1>5. Held(DOMAIN t.maps, LostMaps(t), Holders(ot), Datas(ot))
  BY <1>1, <1>2, <1>3, HeldReleased DEF Owned
<1> QED
  BY <1>1, <1>2, <1>4, <1>5 DEF Owned

\* An object is overwritten, and what it held is noted as lost.
LEMMA OwnedAbandoned ==
  ASSUME NEW s, NEW os, Owned(s, os), NEW t, NEW o \in Objects, ~os[o].clean,
         os[o].fd \in Nat, os[o].data \in Nat,
         t.fds = s.fds, DOMAIN t.maps = DOMAIN s.maps,
         t.lost = s.lost \cup {<<"fd", os[o].fd>>, <<"map", os[o].data>>}, t.broken = s.broken,
         NEW ot, ot[o].clean, OnlyAt(o, os, ot)
  PROVE  Owned(t, ot)
<1>1. Holders(ot) = Holders(os) \ {o} /\ o \in Holders(os)
  BY DEF OnlyAt, Holders
<1>2. /\ \A p \in Holders(os) \ {o} :
           ot[p] = os[p] /\ Fds(ot)[p] = Fds(os)[p] /\ Datas(ot)[p] = Datas(os)[p]
      /\ Fds(os)[o] = os[o].fd /\ Datas(os)[o] = os[o].data
  BY DEF OnlyAt, Holders, Fds, Datas
<1>3. LostFds(t) = LostFds(s) \cup {os[o].fd} /\ LostMaps(t) = LostMaps(s) \cup {os[o].data}
  BY DEF LostFds, LostMaps
<1>4. Held(t.fds, LostFds(t), Holders(ot), Fds(ot))
  BY <1>1, <1>2, <1>3, HeldAbandoned DEF Owned
<1>5. Held(DOMAIN t.maps, LostMaps(t), Holders(ot), Datas(ot))
  BY <1>1, <1>2, <1>3, HeldAbandoned DEF Owned
<1> QED
  BY <1>1, <1>2, <1>4, <1>5 DEF Owned

\* An object that holds nothing takes over what another one has.
LEMMA OwnedMoved ==
  ASSUME NEW s, NEW os, Owned(s, os), NEW o \in Objects, NEW p \in Objects, o # p,
         os[o].clean, NEW ot, ot[o] = os[p], ot[p].clean,
         OnlyAtBoth(o, p, os, ot)
  PROVE  Owned(s, ot)
<1>1. CASE os[p].clean
  <2>1. Holders(ot) = Holders(os)
    BY <1>1 DEF OnlyAtBoth, Holders
  <2>2. \A q \in Holders(os) : ot[q] = os[q] /\ Fds(ot)[q] = Fds(os)[q] /\ Datas(ot)[q] = Datas(os)[q]
    BY <1>1 DEF OnlyAtBoth, Holders, Fds, Datas
  <2> QED
    BY <2>1, <2>2, HeldSame DEF Owned
<1>2. CASE ~os[p].clean
  <2>1. Holders(ot) = (Holders(os) \ {p}) \cup {o} /\ o \notin Holders(os) /\ p \in Holders(os)
    BY <1>2 DEF OnlyAtBoth, Holders
  <2>2. /\ \A q \in Holders(os) \ {p} :
             ot[q] = os[q] /\ Fds(ot)[q] = Fds(os)[q] /\ Datas(ot)[q] = Datas(os)[q]
        /\ Fds(ot)[o] = Fds(os)[p] /\ Datas(ot)[o] = Datas(os)[p]
    BY <2>1 DEF OnlyAtBoth, Holders, Fds, Datas
  <2>3. Held(s.fds, LostFds(s), Holders(ot), Fds(ot))
    BY <2>1, <2>2, HeldMoved DEF Owned
  <2>4. Held(DOMAIN s.maps, LostMaps(s), Holders(ot), Datas(ot))
    BY <2>1, <2>2, HeldMoved DEF Owned
  <2> QED
    BY <2>1, <2>2, <2>3, <2>4 DEF Owned
<1> QED
  BY <1>1, <1>2

-----------------------------------------------------------------------------
(* The helpers keep what every moment of a call keeps. *)

\* An object that holds nothing may be put where one held nothing.
LEMMA SoundCleanObject ==
  ASSUME NEW s, NEW os, Sound(s, os), NEW o \in Objects, os[o].clean,
         NEW y \in AnyObject, y.clean,
         NEW ot, Assigned(o, y, os, ot)
  PROVE  Sound(s, ot)
<1>1. ot \in [Objects -> AnyObject]
  BY DEF Sound, Assigned
<1>2. ot[o].clean /\ OnlyAt(o, os, ot)
  BY DEF Sound, OnlyAt, Assigned
<1>3. "close" \notin s.faults => Owned(s, ot)
  <2> HAVE "close" \notin s.faults
  <2>1. Owned(s, os)
    BY DEF Sound
  <2> QED
    BY <1>2, <2>1, OwnedCleanObject
<1> QED
  BY <1>1, <1>2, <1>3 DEF Sound, OnlyAt

\* A failed call changes nothing else.
LEMMA SoundFault ==
  ASSUME NEW s, NEW os, Sound(s, os), NEW c \in Calls
  PROVE  Sound(Fault(s, c), os)
<1> DEFINE t == Fault(s, c)
<1>1. /\ SysOK(t) /\ t.fds = s.fds /\ t.maps = s.maps /\ t.lost = s.lost
      /\ t.broken = s.broken /\ t.faults = s.faults \cup {c}
  BY FaultIs DEF Sound
<1> HIDE DEF t
<1>2. LostFds(t) = LostFds(s) /\ LostMaps(t) = LostMaps(s)
  BY <1>1 DEF LostFds, LostMaps
<1>3. "close" \notin t.faults => Owned(t, os)
  BY <1>1, <1>2 DEF Sound, Owned
<1>4. LostWithFault(t)
  BY <1>1 DEF LostWithFault
<1>5. Sound(t, os)
  BY <1>1, <1>3, <1>4 DEF Sound
<1> QED
  BY <1>5 DEF t

\* Opening and mapping a file for an object that holds nothing: whatever fails, what was
\* taken until then is listed, and if nothing fails the object shows the file.
LEMMA ReadFileSound ==
  ASSUME NEW s, NEW os, Sound(s, os), NEW o \in Objects, os[o].clean,
         NEW x \in AnyObject, x.clean, x.live,
         NEW r \in ReadFile(s, x),
         NEW ot, Assigned(o, r.obj, os, ot)
  PROVE  /\ Sound(r.sys, ot)
         /\ r.obj.name = x.name /\ r.obj.size = x.size /\ r.obj.live
         /\ ~r.obj.clean => r.obj.data \in DOMAIN r.sys.maps
                            /\ r.sys.maps[r.obj.data].content = disk[x.name]
<1>0. SysOK(s) /\ os \in [Objects -> AnyObject] /\ LostWithFault(s)
  BY DEF Sound
<1> DEFINE fd == LowestFree(s.fds)
           m == LowestFree(DOMAIN s.maps)
           e == [name |-> x.name, content |-> disk[x.name]]
           f == [k \in DOMAIN s.maps \cup {m} |-> IF k = m THEN e ELSE s.maps[k]]
           s1 == [s EXCEPT !.fds = @ \cup {fd}]
           s2 == [s1 EXCEPT !.maps = f]
           x0 == [x EXCEPT !.fd = -1]
           x1 == [x EXCEPT !.fd = fd]
           x2 == [x EXCEPT !.fd = fd, !.data = Failed]
           x3 == [x EXCEPT !.fd = fd, !.data = m]
           x4 == [x EXCEPT !.fd = fd, !.data = m, !.clean = FALSE]
           L1 == Lose(s1, {<<"fd", fd>>})
           L2 == Lose(s2, {<<"fd", fd>>, <<"map", m>>})
<1>1. fd \in Numbers /\ fd \notin s.fds /\ m \in Numbers /\ m \notin DOMAIN s.maps
  BY <1>0, LowestIsFree DEF SysOK
<1>2. r \in {[sys |-> Fault(s, "open"), obj |-> x0],
             [sys |-> Fault(L1, "lseek"), obj |-> x1],
             [sys |-> Fault(L1, "mmap"), obj |-> x2],
             [sys |-> Fault(L2, "madvise"), obj |-> x3],
             [sys |-> s2, obj |-> x4]}
  <2>1. s2 = [s1 EXCEPT !.maps = [k \in DOMAIN @ \cup {m} |->
                                    IF k = m THEN [name |-> x.name, content |-> disk[x.name]] ELSE @[k]]]
    BY <1>0 DEF SysOK, Systems
  <2> QED
    BY <2>1 DEF ReadFile
<1>3. /\ SysOK(s1) /\ s1.maps = s.maps /\ s1.faults = s.faults
      /\ s1.lost = s.lost /\ s1.broken = s.broken /\ s1.fds = s.fds \cup {fd}
  <2> HIDE DEF fd
  <2> QED
    BY <1>0, <1>1, OpenedIs
<1>4. DOMAIN f = DOMAIN s.maps \cup {m} /\ f[m] = e /\ e.content = disk[x.name]
  OBVIOUS
<1>5. IsFiniteSet(DOMAIN f) /\ DOMAIN f \subseteq Numbers
  BY <1>0, <1>1, <1>4, FS_AddElement DEF SysOK
<1> HIDE DEF f, s1, e
<1>6. /\ SysOK(s2) /\ s2.fds = s1.fds /\ s2.faults = s1.faults
      /\ s2.lost = s1.lost /\ s2.broken = s1.broken /\ s2.maps = f
  BY <1>3, <1>5, RemappedIs
<1> HIDE DEF s2
<1>7. /\ {<<"fd", fd>>} \subseteq Losses /\ {<<"fd", fd>>, <<"map", m>>} \subseteq Losses
      /\ fd \in Nat /\ m \in Nat
  BY <1>1 DEF Losses, Numbers
<1> HIDE DEF fd, m
<1>8. /\ SysOK(L1) /\ L1.fds = s1.fds /\ L1.maps = s1.maps
      /\ L1.faults = s1.faults /\ L1.broken = s1.broken /\ L1.lost = s1.lost \cup {<<"fd", fd>>}
  BY <1>3, <1>7, LoseIs
<1>9. /\ SysOK(L2) /\ L2.fds = s2.fds /\ L2.maps = s2.maps
      /\ L2.faults = s2.faults /\ L2.broken = s2.broken
      /\ L2.lost = s2.lost \cup {<<"fd", fd>>, <<"map", m>>}
  BY <1>6, <1>7, LoseIs
<1> HIDE DEF L1, L2
<1>10. {"open", "lseek", "mmap", "madvise"} \subseteq Calls
  BY DEF Calls
<1>11. /\ x0 \in AnyObject /\ x0.clean /\ x0.live /\ x0.name = x.name /\ x0.size = x.size
       /\ x1 \in AnyObject /\ x1.clean /\ x1.live /\ x1.name = x.name /\ x1.size = x.size
       /\ x2 \in AnyObject /\ x2.clean /\ x2.live /\ x2.name = x.name /\ x2.size = x.size
       /\ x3 \in AnyObject /\ x3.clean /\ x3.live /\ x3.name = x.name /\ x3.size = x.size
       /\ x4 \in AnyObject /\ ~x4.clean /\ x4.live /\ x4.name = x.name /\ x4.size = x.size
       /\ x4.fd = fd /\ x4.data = m
  <2>1. fd \in Sizes /\ m \in Sizes /\ -1 \in Sizes /\ Failed \in Sizes
    BY <1>7 DEF Sizes, Failed
  <2>2. x0 \in AnyObject /\ x0.clean /\ x0.live /\ x0.name = x.name /\ x0.size = x.size
    BY <2>1 DEF AnyObject
  <2>3. x1 \in AnyObject /\ x1.clean /\ x1.live /\ x1.name = x.name /\ x1.size = x.size
    BY <2>1 DEF AnyObject
  <2>4. x2 \in AnyObject /\ x2.clean /\ x2.live /\ x2.name = x.name /\ x2.size = x.size
    BY <2>1 DEF AnyObject
  <2>5. x3 \in AnyObject /\ x3.clean /\ x3.live /\ x3.name = x.name /\ x3.size = x.size
    BY <2>1 DEF AnyObject
  <2>6. x4 \in AnyObject /\ ~x4.clean /\ x4.live /\ x4.name = x.name /\ x4.size = x.size
    BY <2>1 DEF AnyObject
  <2>7. x4.fd = fd /\ x4.data = m
    BY <2>1 DEF AnyObject
  <2> QED
    BY <2>2, <2>3, <2>4, <2>5, <2>6, <2>7
<1> HIDE DEF x0, x1, x2, x3, x4
\* A failure behind open: what is left is listed.
<1>12. ASSUME NEW t, NEW c \in Calls, SysOK(t), t.faults = s.faults,
              "close" \notin s.faults => Owned(t, os),
              NEW y \in AnyObject, y.clean, r = [sys |-> Fault(t, c), obj |-> y]
       PROVE  Sound(r.sys, ot) /\ r.obj = y
  <2> DEFINE u == Fault(t, c)
  <2>1. /\ SysOK(u) /\ u.fds = t.fds /\ u.maps = t.maps /\ u.lost = t.lost
        /\ u.broken = t.broken /\ u.faults = t.faults \cup {c}
    BY <1>12, FaultIs
  <2> HIDE DEF u
  <2>2. LostFds(u) = LostFds(t) /\ LostMaps(u) = LostMaps(t)
    BY <2>1 DEF LostFds, LostMaps
  <2>3. "close" \notin u.faults => Owned(u, os)
    BY <1>12, <2>1, <2>2 DEF Owned
  <2>4. Sound(u, os)
    BY <1>0, <2>1, <2>3 DEF Sound, LostWithFault
  <2>5. r.sys = u /\ r.obj = y
    BY <1>12 DEF u
  <2> QED
    BY <1>12, <2>4, <2>5, SoundCleanObject
<1>13. CASE r = [sys |-> Fault(s, "open"), obj |-> x0]
  <2>1. "close" \notin s.faults => Owned(s, os)
    BY DEF Sound
  <2> QED
    BY <1>0, <1>10, <1>11, <1>12, <1>13, <2>1
<1>14. "close" \notin s.faults => Owned(L1, os)
  <2> HAVE "close" \notin s.faults
  <2>1. Owned(s, os)
    BY DEF Sound
  <2>2. /\ L1.fds = s.fds \cup {fd} /\ L1.maps = s.maps /\ L1.broken = s.broken
        /\ L1.lost = s.lost \cup {<<"fd", fd>>}
    BY <1>3, <1>8
  <2> QED
    BY <1>1, <1>7, <2>1, <2>2, OwnedLostFd
<1>15. CASE r = [sys |-> Fault(L1, "lseek"), obj |-> x1]
  BY <1>3, <1>8, <1>10, <1>11, <1>12, <1>14, <1>15
<1>16. CASE r = [sys |-> Fault(L1, "mmap"), obj |-> x2]
  BY <1>3, <1>8, <1>10, <1>11, <1>12, <1>14, <1>16
<1>17. "close" \notin s.faults => Owned(L2, os)
  <2> HAVE "close" \notin s.faults
  <2>1. Owned(s, os)
    BY DEF Sound
  <2>2. /\ L2.fds = s.fds \cup {fd} /\ DOMAIN L2.maps = DOMAIN s.maps \cup {m}
        /\ L2.broken = s.broken /\ L2.lost = s.lost \cup {<<"fd", fd>>, <<"map", m>>}
    BY <1>3, <1>4, <1>6, <1>9
  <2> QED
    BY <1>1, <1>7, <2>1, <2>2, OwnedLostBoth
<1>18. CASE r = [sys |-> Fault(L2, "madvise"), obj |-> x3]
  BY <1>3, <1>6, <1>9, <1>10, <1>11, <1>12, <1>17, <1>18
<1>19. CASE r = [sys |-> s2, obj |-> x4]
  <2>1. r.sys = s2 /\ r.obj = x4
    BY <1>19
  <2>2. ot \in [Objects -> AnyObject] /\ ot[o] = x4 /\ OnlyAt(o, os, ot)
    BY <1>0, <1>11, <2>1 DEF OnlyAt, Assigned
  <2>3. ASSUME "close" \notin s.faults PROVE Owned(s2, ot)
    <3>1. Owned(s, os)
      BY <2>3 DEF Sound
    <3>2. /\ s2.fds = s.fds \cup {fd} /\ DOMAIN s2.maps = DOMAIN s.maps \cup {m}
          /\ s2.lost = s.lost /\ s2.broken = s.broken
      BY <1>3, <1>4, <1>6
    <3> QED
      BY <1>1, <1>11, <2>2, <3>1, <3>2, OwnedTaken
  <2>4. LostWithFault(s2)
    BY <1>0, <1>3, <1>6 DEF LostWithFault
  <2>5. Sound(s2, ot)
    BY <1>3, <1>6, <1>11, <2>2, <2>3, <2>4 DEF Sound, OnlyAt
  <2>6. m \in DOMAIN s2.maps /\ s2.maps[m].content = disk[x.name]
    BY <1>4, <1>6
  <2> QED
    BY <1>11, <2>1, <2>5, <2>6
<1> QED
  BY <1>2, <1>11, <1>13, <1>15, <1>16, <1>18, <1>19, <1>12

\* A file is absent or a sequence of chunks.
DiskOK == DOMAIN disk = Names /\ \A n \in Names : \E S : disk[n] \in Seq(S)

\* set_constructor_vars: the size of the file, and the mapping of it when it has bytes.
LEMMA SetVarsSound ==
  ASSUME NEW s, NEW os, Sound(s, os), NEW o \in Objects, os[o].clean, DiskOK,
         NEW x \in AnyObject, x.live,
         NEW r \in SetVars(s, x),
         NEW ot, Assigned(o, r.obj, os, ot)
  PROVE  /\ Sound(r.sys, ot)
         /\ r.obj.name = x.name /\ r.obj.live
         /\ r.obj.size = IF x.name \in Names /\ disk[x.name] # Absent THEN Len(disk[x.name]) ELSE -1
         /\ ~r.obj.clean => r.obj.data \in DOMAIN r.sys.maps
                            /\ r.sys.maps[r.obj.data].content = disk[x.name]
<1> DEFINE n == IF x.name \in Names /\ disk[x.name] # Absent THEN Len(disk[x.name]) ELSE -1
           y == [x EXCEPT !.data = Null, !.clean = TRUE, !.size = n]
<1>1. n \in Sizes /\ Null \in Sizes
  <2>1. \A m \in Names : Len(disk[m]) \in Nat
    BY DEF DiskOK
  <2> QED
    BY <2>1 DEF Sizes, Null
<1>2. r \in IF y.size > 0 THEN ReadFile(s, y) ELSE {[sys |-> s, obj |-> y]}
  BY DEF SetVars
<1> HIDE DEF n
<1>3. y \in AnyObject /\ y.clean /\ y.live /\ y.name = x.name /\ y.size = n
  <2>1. y \in AnyObject
    BY <1>1 DEF AnyObject
  <2>2. y.clean = TRUE /\ y.live = x.live /\ y.name = x.name /\ y.size = n
    BY DEF AnyObject
  <2>3. x.live = TRUE
    BY DEF AnyObject
  <2> HIDE DEF y
  <2> QED
    BY <2>1, <2>2, <2>3
<1> HIDE DEF y
<1>4. CASE r \in ReadFile(s, y)
  <2>1. /\ Sound(r.sys, ot)
        /\ r.obj.name = y.name /\ r.obj.size = y.size /\ r.obj.live
        /\ ~r.obj.clean => r.obj.data \in DOMAIN r.sys.maps
                           /\ r.sys.maps[r.obj.data].content = disk[y.name]
    BY <1>3, <1>4, ReadFileSound
  <2> QED
    BY <1>3, <2>1 DEF n
<1>5. CASE r = [sys |-> s, obj |-> y]
  <2>1. r.sys = s /\ r.obj = y
    BY <1>5
  <2> QED
    BY <1>3, <2>1, SoundCleanObject DEF n
<1> QED
  BY <1>2, <1>4, <1>5

\* munmap and close, by the numbers that an object has.
LEMMA ReleasedIs ==
  ASSUME Sound(sys, objs), NEW o \in Objects
  PROVE  LET t == CloseFd(Unmap(sys, o), o)
         IN  /\ SysOK(t) /\ t.fds = sys.fds \ {objs[o].fd}
             /\ DOMAIN t.maps = DOMAIN sys.maps \ {objs[o].data}
             /\ t.lost = sys.lost /\ t.faults = sys.faults
             /\ ~objs[o].clean /\ "close" \notin sys.faults => t.broken = sys.broken
<1> DEFINE D == DOMAIN sys.maps \ {objs[o].data}
           f == [k \in D |-> sys.maps[k]]
           u == [sys EXCEPT !.maps = f]
           v == Unmap(sys, o)
           w == [v EXCEPT !.fds = @ \ {objs[o].fd}]
           t == CloseFd(v, o)
<1>0. SysOK(sys) /\ DOMAIN f = D
  BY DEF Sound
<1>1. D \subseteq Numbers /\ IsFiniteSet(D)
  BY <1>0, FS_Subset DEF SysOK
<1>2. u = [sys EXCEPT !.maps = [k \in DOMAIN @ \ {objs[o].data} |-> @[k]]]
  BY <1>0 DEF SysOK, Systems
<1>3. v = IF objs[o].data \in OthersMaps(o) THEN Break(u, "foreign") ELSE u
  BY <1>2 DEF Unmap
<1>4. t = IF objs[o].fd \in OthersFds(o) THEN Break(w, "foreign") ELSE w
  BY DEF CloseFd
<1> HIDE DEF f, u, v, w, t
<1>5. /\ SysOK(u) /\ u.fds = sys.fds /\ u.faults = sys.faults
      /\ u.lost = sys.lost /\ u.broken = sys.broken /\ u.maps = f
  BY <1>0, <1>1, RemappedIs DEF u
<1>6. "foreign" \in Rules
  BY DEF Rules
<1>7. /\ SysOK(v) /\ v.fds = sys.fds /\ v.faults = sys.faults /\ v.lost = sys.lost /\ v.maps = f
      /\ objs[o].data \notin OthersMaps(o) => v.broken = sys.broken
  BY <1>3, <1>5, <1>6, BreakIs
<1>8. /\ SysOK(w) /\ w.maps = v.maps /\ w.faults = v.faults
      /\ w.lost = v.lost /\ w.broken = v.broken /\ w.fds = v.fds \ {objs[o].fd}
  BY <1>7, ClosedIs DEF w
<1>9. /\ SysOK(t) /\ t.fds = w.fds /\ t.faults = w.faults /\ t.lost = w.lost /\ t.maps = w.maps
      /\ objs[o].fd \notin OthersFds(o) => t.broken = w.broken
  BY <1>4, <1>6, <1>8, BreakIs
<1>10. ASSUME ~objs[o].clean, "close" \notin sys.faults
       PROVE  objs[o].data \notin OthersMaps(o) /\ objs[o].fd \notin OthersFds(o)
  BY <1>10 DEF Sound, Owned, Held, Holders, Fds, Datas, OthersMaps, OthersFds
<1>11. ~objs[o].clean /\ "close" \notin sys.faults => t.broken = sys.broken
  BY <1>7, <1>8, <1>9, <1>10
<1>12. /\ SysOK(t) /\ t.fds = sys.fds \ {objs[o].fd} /\ DOMAIN t.maps = D
       /\ t.lost = sys.lost /\ t.faults = sys.faults
  BY <1>0, <1>7, <1>8, <1>9
<1> QED
  BY <1>11, <1>12 DEF t, v

\* clear: when it fails, the object holds what it held, unless it was close that failed.
LEMMA ClearSound ==
  ASSUME Sound(sys, objs), NEW o \in Objects, NEW c \in Clear(o),
         NEW ot, Assigned(o, c.obj, objs, ot)
  PROVE  /\ Sound(c.sys, ot) /\ c.obj \in AnyObject
         /\ c.obj.live = objs[o].live /\ c.obj.name = objs[o].name /\ c.obj.size = objs[o].size
         /\ c.obj.clean \/ (c.obj = objs[o] /\ c.ret = -1 /\ c.sys.faults # {})
         /\ c.ret \in {0, -1}
<1> DEFINE x == objs[o]
           t == CloseFd(Unmap(sys, o), o)
           y == [x EXCEPT !.clean = TRUE, !.data = Null]
<1>0. objs \in [Objects -> AnyObject] /\ x \in AnyObject /\ SysOK(sys)
  BY DEF Sound
<1>1. \/ x.clean /\ c = [sys |-> sys, obj |-> x, ret |-> 0]
      \/ ~x.clean /\ c = [sys |-> Fault(sys, "munmap"), obj |-> x, ret |-> -1]
      \/ ~x.clean /\ c = [sys |-> Fault(t, "close"), obj |-> x, ret |-> -1]
      \/ ~x.clean /\ c = [sys |-> t, obj |-> y, ret |-> 0]
  BY DEF Clear
<1>2. /\ SysOK(t) /\ t.fds = sys.fds \ {objs[o].fd}
      /\ DOMAIN t.maps = DOMAIN sys.maps \ {objs[o].data}
      /\ t.lost = sys.lost /\ t.faults = sys.faults
      /\ ~objs[o].clean /\ "close" \notin sys.faults => t.broken = sys.broken
  BY ReleasedIs
<1>3. y \in AnyObject /\ y.clean /\ y.live = x.live /\ y.name = x.name /\ y.size = x.size
  <2>0. Null \in Sizes
    BY DEF Null, Sizes
  <2>1. y \in AnyObject
    BY <1>0, <2>0 DEF AnyObject
  <2>2. y.clean = TRUE /\ y.live = x.live /\ y.name = x.name /\ y.size = x.size
    BY <1>0 DEF AnyObject
  <2> HIDE DEF y
  <2> QED
    BY <2>1, <2>2
<1> HIDE DEF t, y
<1>4. {"close", "munmap"} \subseteq Calls
  BY DEF Calls
<1>5. c.obj = x => ot = objs
  BY <1>0 DEF Assigned
<1>6. CASE x.clean /\ c = [sys |-> sys, obj |-> x, ret |-> 0]
  <2>1. c.sys = sys /\ c.obj = x /\ c.ret = 0
    BY <1>6
  <2> QED
    BY <1>0, <1>5, <1>6, <2>1
<1>7. CASE ~x.clean /\ c = [sys |-> Fault(sys, "munmap"), obj |-> x, ret |-> -1]
  <2>1. c.sys = Fault(sys, "munmap") /\ c.obj = x /\ c.ret = -1
    BY <1>7
  <2>2. Sound(c.sys, objs)
    BY <1>4, <2>1, SoundFault
  <2>3. c.sys.faults # {}
    <3>1. "munmap" \in Calls
      BY <1>4
    <3>2. Fault(sys, "munmap").faults = sys.faults \cup {"munmap"}
      BY <1>0, <3>1, FaultIs
    <3> QED
      BY <2>1, <3>2
  <2> QED
    BY <1>0, <1>5, <2>1, <2>2, <2>3
<1>8. CASE ~x.clean /\ c = [sys |-> Fault(t, "close"), obj |-> x, ret |-> -1]
  <2>1. c.sys = Fault(t, "close") /\ c.obj = x /\ c.ret = -1
    BY <1>8
  <2>2. SysOK(c.sys) /\ "close" \in c.sys.faults
    BY <1>2, <1>4, <2>1, FaultIs
  <2>3. Sound(c.sys, objs)
    BY <1>0, <2>2 DEF Sound, LostWithFault
  <2> QED
    BY <1>0, <1>5, <2>1, <2>2, <2>3
<1>9. CASE ~x.clean /\ c = [sys |-> t, obj |-> y, ret |-> 0]
  <2>1. c.sys = t /\ c.obj = y /\ c.ret = 0
    BY <1>9
  <2>2. ot \in [Objects -> AnyObject] /\ ot[o] = y /\ OnlyAt(o, objs, ot)
    BY <1>0, <1>3, <2>1 DEF OnlyAt, Assigned
  <2>3. ASSUME "close" \notin sys.faults PROVE Owned(t, ot)
    <3>1. Owned(sys, objs) /\ t.broken = sys.broken
      BY <1>2, <1>9, <2>3 DEF Sound
    <3> QED
      BY <1>2, <1>3, <1>9, <2>2, <3>1, OwnedReleased
  <2>4. LostWithFault(t)
    BY <1>2 DEF Sound, LostWithFault
  <2>5. Sound(t, ot)
    BY <1>2, <1>3, <2>2, <2>3, <2>4 DEF Sound, OnlyAt
  <2> QED
    BY <1>3, <2>1, <2>5
<1> QED
  BY <1>1, <1>6, <1>7, <1>8, <1>9

\* An object that stops to exist behind clear, or is overwritten: what it still holds is
\* lost.
LEMMA AbandonSound ==
  ASSUME Sound(sys, objs), NEW o \in Objects, NEW c \in Clear(o),
         NEW y \in AnyObject, y.clean,
         NEW ot, Assigned(o, y, objs, ot)
  PROVE  Sound(Abandon(o, c), ot)
<1>0. objs \in [Objects -> AnyObject] /\ objs[o] \in AnyObject
  BY DEF Sound
<1>1. PICK os : Assigned(o, c.obj, objs, os)
  BY DEF Assigned
<1>2. /\ Sound(c.sys, os) /\ c.obj \in AnyObject
      /\ c.obj.clean \/ (c.obj = objs[o] /\ c.ret = -1 /\ c.sys.faults # {})
  BY <1>1, ClearSound
<1>3. Assigned(o, y, os, ot) /\ os[o] = c.obj
  BY <1>0, <1>1 DEF Assigned
<1>4. SysOK(c.sys)
  BY <1>2 DEF Sound
<1> DEFINE G == {k \in {c.obj.fd} \cap c.sys.fds : k \notin OthersFds(o)}
           N == {k \in {c.obj.data} \cap DOMAIN c.sys.maps : k \notin OthersMaps(o)}
           what == {<<"fd", k>> : k \in G} \cup {<<"map", k>> : k \in N}
<1>5. G \subseteq Nat /\ N \subseteq Nat
  BY <1>4 DEF SysOK, Systems, Numbers
<1>6. what \subseteq Losses /\ {} \subseteq Losses
  <2> HIDE DEF G, N
  <2> QED
    BY <1>5 DEF Losses
<1>7. Abandon(o, c) = Lose(c.sys, IF c.obj.clean THEN {} ELSE what)
  BY DEF Abandon
<1>8. CASE c.obj.clean
  <2> DEFINE e == {}
             t == Lose(c.sys, e)
  <2>a. e \subseteq Losses /\ c.sys.lost \cup e = c.sys.lost
    BY <1>4 DEF SysOK, Systems
  <2> HIDE DEF e
  <2>1. /\ SysOK(t) /\ t.fds = c.sys.fds /\ t.maps = c.sys.maps
        /\ t.faults = c.sys.faults /\ t.broken = c.sys.broken /\ t.lost = c.sys.lost
    BY <1>4, <2>a, LoseIs
  <2> HIDE DEF t
  <2>2. Sound(c.sys, ot)
    BY <1>2, <1>3, <1>8, SoundCleanObject
  <2>3. LostFds(t) = LostFds(c.sys) /\ LostMaps(t) = LostMaps(c.sys)
    BY <2>1 DEF LostFds, LostMaps
  <2>4. Sound(t, ot)
    BY <2>1, <2>2, <2>3 DEF Sound, Owned, LostWithFault
  <2> QED
    BY <1>7, <1>8, <2>4 DEF t, e
<1>9. CASE ~c.obj.clean
  <2> DEFINE t == Lose(c.sys, what)
  <2>1. /\ SysOK(t) /\ t.fds = c.sys.fds /\ t.maps = c.sys.maps
        /\ t.faults = c.sys.faults /\ t.broken = c.sys.broken /\ t.lost = c.sys.lost \cup what
    BY <1>4, <1>6, LoseIs
  <2> HIDE DEF t
  <2>2. c.obj = objs[o] /\ c.sys.faults # {} /\ os = objs
    BY <1>0, <1>1, <1>2, <1>9 DEF Assigned
  <2>3. ASSUME "close" \notin c.sys.faults
        PROVE  Owned(t, ot)
    <3>1. Owned(c.sys, objs)
      BY <1>2, <2>2, <2>3 DEF Sound
    <3>2. /\ objs[o].fd \in c.sys.fds /\ objs[o].fd \notin OthersFds(o)
          /\ objs[o].data \in DOMAIN c.sys.maps /\ objs[o].data \notin OthersMaps(o)
      BY <1>9, <2>2, <3>1 DEF Owned, Held, Holders, Fds, Datas, OthersMaps, OthersFds
    <3>3. G = {objs[o].fd} /\ N = {objs[o].data}
      BY <2>2, <3>2
    <3>4. what = {<<"fd", objs[o].fd>>, <<"map", objs[o].data>>}
      <4> HIDE DEF G, N
      <4> QED
        BY <3>3
    <3>5. objs[o].fd \in Nat /\ objs[o].data \in Nat
      BY <1>5, <3>3
    <3>6. ot[o].clean /\ OnlyAt(o, objs, ot) /\ ~objs[o].clean
      BY <1>0, <1>9, <2>2 DEF OnlyAt, Assigned
    <3>7. DOMAIN t.maps = DOMAIN c.sys.maps
      BY <2>1
    <3> HIDE DEF what
    <3> QED
      BY <2>1, <3>1, <3>4, <3>5, <3>6, <3>7, OwnedAbandoned
  <2>4. ot \in [Objects -> AnyObject]
    BY <1>0 DEF Assigned
  <2>5. LostWithFault(t)
    BY <2>1, <2>2 DEF LostWithFault
  <2>a. \A p \in Objects : ot[p].clean \/ ot[p].live
    BY <1>0 DEF Assigned, Sound
  <2>6. Sound(t, ot)
    BY <2>1, <2>3, <2>4, <2>5, <2>a DEF Sound
  <2> QED
    BY <1>7, <1>9, <2>6 DEF t
<1> QED
  BY <1>8, <1>9

\* A move: what the source had passes to an object that holds nothing.
LEMMA SoundMoved ==
  ASSUME NEW s, NEW os, Sound(s, os), NEW o \in Objects, NEW p \in Objects, o # p, os[o].clean,
         NEW ot, ot = [os EXCEPT ![o] = os[p], ![p] = MovedFrom(os[p])]
  PROVE  Sound(s, ot)
<1> DEFINE y == MovedFrom(os[p])
<1>1. os \in [Objects -> AnyObject] /\ os[p] \in AnyObject
  BY DEF Sound
<1>2. y \in AnyObject /\ y.clean
  <2>1. -1 \in Sizes /\ Null \in Sizes
    BY DEF Sizes, Null
  <2> QED
    BY <1>1, <2>1 DEF MovedFrom, AnyObject
<1> HIDE DEF y
<1>3. /\ ot \in [Objects -> AnyObject] /\ ot[o] = os[p] /\ ot[p] = y
      /\ OnlyAtBoth(o, p, os, ot)
  BY <1>1, <1>2 DEF y, OnlyAtBoth
<1>4. "close" \notin s.faults => Owned(s, ot)
  <2> HAVE "close" \notin s.faults
  <2>1. Owned(s, os)
    BY DEF Sound
  <2> QED
    BY <1>2, <1>3, <2>1, OwnedMoved
<1>5. \A q \in Objects : ot[q].clean \/ ot[q].live
  BY <1>2, <1>3 DEF Sound, OnlyAtBoth
<1> QED
  BY <1>3, <1>4, <1>5 DEF Sound

\* A rule is broken, but not that of who owns what.
LEMMA SoundBreak ==
  ASSUME NEW s, NEW os, Sound(s, os), NEW what \in Rules \ {"foreign"}
  PROVE  Sound(Break(s, what), os) /\ Break(s, what).maps = s.maps
<1> DEFINE t == Break(s, what)
<1>1. /\ SysOK(t) /\ t.fds = s.fds /\ t.maps = s.maps /\ t.lost = s.lost
      /\ t.broken = s.broken \cup {what} /\ t.faults = s.faults
  BY BreakIs DEF Sound
<1> HIDE DEF t
<1>2. LostFds(t) = LostFds(s) /\ LostMaps(t) = LostMaps(s)
  BY <1>1 DEF LostFds, LostMaps
<1>3. "close" \notin t.faults => Owned(t, os)
  BY <1>1, <1>2 DEF Sound, Owned
<1>4. Sound(t, os)
  BY <1>1, <1>3 DEF Sound, LostWithFault
<1> QED
  BY <1>1, <1>4 DEF t

\* The copy of an object's own data is lost.
LEMMA SoundLoseCopy ==
  ASSUME NEW s, NEW os, Sound(s, os)
  PROVE  Sound(Lose(s, {<<"copy", 0>>}), os) /\ Lose(s, {<<"copy", 0>>}).maps = s.maps
<1> DEFINE what == {<<"copy", 0>>}
           t == Lose(s, what)
<1>0. what \subseteq Losses
  BY DEF Losses
<1>1. \A k : <<"fd", k>> \notin what /\ <<"map", k>> \notin what
  OBVIOUS
<1>a. what \subseteq {<<"copy", 0>>}
  OBVIOUS
<1> HIDE DEF what
<1>2. /\ SysOK(t) /\ t.fds = s.fds /\ t.maps = s.maps /\ t.lost = s.lost \cup what
      /\ t.broken = s.broken /\ t.faults = s.faults
  BY <1>0, LoseIs DEF Sound
<1> HIDE DEF t
<1>3. LostFds(t) = LostFds(s) /\ LostMaps(t) = LostMaps(s)
  BY <1>1, <1>2 DEF LostFds, LostMaps
<1>4. "close" \notin t.faults => Owned(t, os)
  BY <1>2, <1>3 DEF Sound, Owned
<1>5. LostWithFault(t)
  BY <1>2, <1>a DEF Sound, LostWithFault
<1>6. Sound(t, os)
  BY <1>2, <1>4, <1>5 DEF Sound
<1> QED
  BY <1>2, <1>6 DEF t, what

\* Pieces are destroyed, and read, at most with a broken rule.
LEMMA DropSound ==
  ASSUME NEW s, NEW os, Sound(s, os), NEW list
  PROVE  Sound(Drop(s, list), os) /\ Drop(s, list).maps = s.maps
<1>1. "delete" \in Rules \ {"foreign"}
  BY DEF Rules
<1> QED
  BY <1>1, SoundBreak DEF Drop

\* So with what is left at the end of a save.
LEMMA ReleaseSound ==
  ASSUME NEW s, NEW os, Sound(s, os)
  PROVE  Sound(Released(s), os) /\ Released(s).maps = s.maps
<1>1. "delete" \in Rules \ {"foreign"}
  BY DEF Rules
<1>2. PICK t : t = IF CopyFreed THEN Break(s, "delete") ELSE s
  OBVIOUS
<1>3. Sound(t, os) /\ t.maps = s.maps
  BY <1>1, <1>2, SoundBreak
<1>4. PICK list : Released(s) = Drop(t, list)
  BY <1>2 DEF Released
<1> QED
  BY <1>3, <1>4, DropSound

\* And with the first piece.
LEMMA PopSound ==
  ASSUME NEW s, NEW os, Sound(s, os), NEW p
  PROVE  Sound(Pop(s, p), os) /\ Pop(s, p).maps = s.maps
<1>1. \/ Pop(s, p) = s
      \/ Pop(s, p) = Drop(s, <<p>>)
      \/ Pop(s, p) = Lose(s, {<<"copy", 0>>})
  BY DEF Pop
<1> QED
  BY <1>1, DropSound, SoundLoseCopy

\* What a write reads breaks at most a rule about reading.
LEMMA ReadingSound ==
  ASSUME NEW s, NEW os, Sound(s, os), NEW p
  PROVE  Sound(Reading(s, p), os) /\ Reading(s, p).maps = s.maps
<1>1. {"beyond", "stale", "freed"} \subseteq Rules \ {"foreign"}
  BY DEF Rules
<1>2. \/ Reading(s, p) = s
      \/ \E what \in {"beyond", "stale", "freed"} : Reading(s, p) = Break(s, what)
  BY DEF Reading
<1> QED
  BY <1>1, <1>2, SoundBreak

-----------------------------------------------------------------------------
(* The calls. *)

Places == {"idle", "returned", "copy", "clear", "open", "write", "reload"}

Pieces(P) == [ptr : P, from : Nat, len : Nat, delete : BOOLEAN]

AnyCall(P, C, B, W, S) ==
  [pc : Places, ret : {0, -1}, self : Objects \cup {NoName}, target : Names \cup {NoName},
   trunc : BOOLEAN, reload : BOOLEAN, list : Seq(Pieces(P)), next : Nat, given : BOOLEAN,
   copy : C, before : B, want : W, safe : S]

CallShape(c) == \E P, C, B, W, S : c \in AnyCall(P, C, B, W, S)

\* A call of save_this_file that will reload its object has released it before it opens
\* the stream; there is always a piece to be written next.
CallInv ==
  /\ CallShape(call)
  /\ call.next \in 1..(Len(call.list) + 1)
  /\ call.pc \in {"open", "write"} => call.next \in 1..Len(call.list) /\ call.target \in Names
  /\ call.pc \in {"copy", "clear"} =>
       /\ call.self \in Objects /\ objs[call.self].live
       /\ call.next = 1 /\ call.target \in Names
  /\ call.reload /\ call.pc \in {"open", "write", "reload"} =>
       call.self \in Objects /\ objs[call.self].live /\ objs[call.self].clean
  /\ call.pc = "reload" => call.reload

IInv ==
  /\ Sound(sys, objs)
  /\ DiskOK
  /\ CallInv
  /\ ops \in 0..MaxOps
  /\ ReloadShows

\* No call runs at first, and behind those that are one step.
LEMMA IdleIs ==
  /\ CallShape(Idle) /\ Idle.pc = "idle" /\ Idle.next = 1 /\ Idle.list = <<>> /\ Len(Idle.list) = 0
  /\ Idle.reload = FALSE
<1>1. <<>> \in Seq(Pieces({})) /\ Len(<<>>) = 0
  OBVIOUS
<1>2. Idle \in AnyCall({}, {<<>>}, {<<>>}, {<<>>}, {TRUE})
  BY <1>1 DEF Idle, AnyCall, Places
<1>3. CallShape(Idle)
  BY <1>2 DEF CallShape
<1>4. Idle.list = <<>>
  BY DEF Idle
<1> QED
  BY <1>1, <1>3, <1>4 DEF Idle

\* A call of one step keeps the invariant when it keeps who owns what.
LEMMA IdleIInv ==
  ASSUME IInv, Sound(sys', objs'), disk' = disk, call' = Idle,
         ops' = ops \/ (ops < MaxOps /\ ops' = ops + 1)
  PROVE  IInv'
<1>1. CallInv'
  BY IdleIs DEF CallInv
<1>2. ReloadShows'
  BY IdleIs DEF ReloadShows, Returned
<1>3. ops' \in 0..MaxOps
  BY MaxOpsAssumption DEF IInv
<1> QED
  BY <1>1, <1>2, <1>3 DEF IInv, DiskOK

\* An object that does not exist.
LEMMA DeadIs == Dead \in AnyObject /\ Dead.clean
<1>1. -1 \in Sizes /\ Null \in Sizes
  BY DEF Sizes, Null
<1>2. Dead \in AnyObject
  BY <1>1 DEF Dead, AnyObject
<1>3. Dead.clean = TRUE
  BY DEF Dead
<1> QED
  BY <1>2, <1>3

\* The constructor.
LEMMA ConstructIInv ==
  ASSUME IInv, NEW o \in Objects, NEW n \in Names \cup {NoName},
         Begin, ~objs[o].live,
         \E r \in SetVars(sys, [Dead EXCEPT !.live = TRUE, !.name = n]) :
           sys' = r.sys /\ objs' = [objs EXCEPT ![o] = r.obj],
         NoSave, UNCHANGED disk
  PROVE  IInv'
<1> DEFINE x == [Dead EXCEPT !.live = TRUE, !.name = n]
<1>1. x \in AnyObject
  BY DeadIs DEF AnyObject
<1>2. x.live = TRUE
  BY DeadIs DEF AnyObject
<1>3. objs[o].clean /\ Sound(sys, objs) /\ DiskOK
  BY DEF IInv, Sound
<1>4. PICK r \in SetVars(sys, x) : sys' = r.sys /\ objs' = [objs EXCEPT ![o] = r.obj]
  OBVIOUS
<1> HIDE DEF x
<1>5. PICK ot : ot = objs'
  OBVIOUS
<1>6. Assigned(o, r.obj, objs, ot)
  BY <1>4, <1>5 DEF Assigned
<1>7. Sound(r.sys, ot)
  BY <1>1, <1>2, <1>3, <1>4, <1>6, SetVarsSound
<1> QED
  BY <1>4, <1>5, <1>7, IdleIInv DEF Begin, NoSave

\* The move constructor.
LEMMA MoveConstructIInv ==
  ASSUME IInv, NEW o \in Objects, NEW p \in Objects, MoveConstruct(o, p)
  PROVE  IInv'
<1>1. objs[o].clean /\ Sound(sys, objs) /\ o # p
  BY DEF IInv, Sound, MoveConstruct
<1>2. PICK ot : ot = objs'
  OBVIOUS
<1>3. ot = [objs EXCEPT ![o] = objs[p], ![p] = MovedFrom(objs[p])] /\ sys' = sys
  BY <1>2 DEF MoveConstruct
<1>4. Sound(sys, ot)
  BY <1>1, <1>3, SoundMoved
<1> QED
  BY <1>2, <1>3, <1>4, IdleIInv DEF MoveConstruct, Begin, NoSave

\* The copy assignment, whatever clear returned.
LEMMA CopyAssignIInv ==
  ASSUME IInv, NEW o \in Objects, NEW p \in Objects, CopyAssign(o, p)
  PROVE  IInv'
<1>1. Sound(sys, objs) /\ DiskOK /\ objs \in [Objects -> AnyObject]
  BY DEF IInv, Sound
<1>2. PICK c \in Clear(o) :
        \E r \in SetVars(Abandon(o, c), [c.obj EXCEPT !.name = objs[p].name]) :
          sys' = r.sys /\ objs' = [objs EXCEPT ![o] = r.obj]
  BY DEF CopyAssign
<1> DEFINE x == [c.obj EXCEPT !.name = objs[p].name]
           s == Abandon(o, c)
<1>3. PICK r \in SetVars(s, x) : sys' = r.sys /\ objs' = [objs EXCEPT ![o] = r.obj]
  BY <1>2
<1>4. c.obj \in AnyObject /\ c.obj.live = objs[o].live
  <2>1. PICK ot : Assigned(o, c.obj, objs, ot)
    BY DEF Assigned
  <2> QED
    BY <1>1, <2>1, ClearSound
<1>5. x \in AnyObject
  BY <1>1, <1>4 DEF AnyObject
<1>6. x.live = TRUE
  <2>1. objs[o].live = TRUE
    BY <1>1 DEF CopyAssign, AnyObject
  <2>2. x.live = c.obj.live
    BY <1>4 DEF AnyObject
  <2> QED
    BY <1>4, <2>1, <2>2
<1>7. PICK os : Assigned(o, Dead, objs, os)
  BY DEF Assigned
<1>8. Sound(s, os)
  BY <1>1, <1>7, DeadIs, AbandonSound
<1>9. os[o].clean
  BY <1>1, <1>7, DeadIs DEF Assigned
<1>10. PICK ot : ot = objs'
  OBVIOUS
<1>11. Assigned(o, r.obj, os, ot)
  BY <1>1, <1>3, <1>7, <1>10 DEF Assigned
<1> HIDE DEF x, s
<1>12. Sound(r.sys, ot)
  BY <1>1, <1>3, <1>5, <1>6, <1>8, <1>9, <1>11, SetVarsSound
<1> QED
  BY <1>3, <1>10, <1>12, IdleIInv DEF CopyAssign, Begin, NoSave

\* The move assignment, of an object to itself, too.
LEMMA MoveAssignIInv ==
  ASSUME IInv, NEW o \in Objects, NEW p \in Objects, MoveAssign(o, p)
  PROVE  IInv'
<1>1. Sound(sys, objs) /\ objs \in [Objects -> AnyObject]
  BY DEF IInv, Sound
<1>2. PICK c \in Clear(o) :
        LET source == IF o = p THEN c.obj ELSE objs[p]
        IN  /\ sys' = Abandon(o, c)
            /\ objs' = [objs EXCEPT ![o] = source, ![p] = MovedFrom(source)]
  BY DEF MoveAssign
<1>3. PICK ot : ot = objs'
  OBVIOUS
<1>4. c.obj \in AnyObject
  <2>1. PICK os : Assigned(o, c.obj, objs, os)
    BY DEF Assigned
  <2> QED
    BY <1>1, <2>1, ClearSound
<1>5. CASE o = p
  <2> DEFINE y == MovedFrom(c.obj)
  <2>1. -1 \in Sizes /\ Null \in Sizes
    BY DEF Sizes, Null
  <2>2. y \in AnyObject
    BY <1>4, <2>1 DEF MovedFrom, AnyObject
  <2>3. y.clean = TRUE
    BY <1>4 DEF MovedFrom, AnyObject
  <2>4. ot = [objs EXCEPT ![o] = c.obj, ![o] = y]
    BY <1>2, <1>3, <1>5
  <2> HIDE DEF y
  <2>5. Assigned(o, y, objs, ot)
    BY <1>1, <2>4 DEF Assigned
  <2>6. Sound(Abandon(o, c), ot)
    BY <1>1, <2>2, <2>3, <2>5, AbandonSound
  <2> QED
    BY <1>2, <1>3, <2>6, IdleIInv DEF MoveAssign, Begin, NoSave
<1>6. CASE o # p
  <2>1. PICK os : Assigned(o, Dead, objs, os)
    BY DEF Assigned
  <2>2. Sound(Abandon(o, c), os)
    BY <1>1, <2>1, DeadIs, AbandonSound
  <2>3. os[o].clean /\ os[p] = objs[p]
    BY <1>1, <1>6, <2>1, DeadIs DEF Assigned
  <2>4. ot = [objs EXCEPT ![o] = objs[p], ![p] = MovedFrom(objs[p])]
    BY <1>2, <1>3, <1>6
  <2>5. ot = [os EXCEPT ![o] = os[p], ![p] = MovedFrom(os[p])]
    BY <1>1, <2>1, <2>3, <2>4 DEF Assigned
  <2>6. Sound(Abandon(o, c), ot)
    BY <1>6, <2>2, <2>3, <2>5, SoundMoved
  <2> QED
    BY <1>2, <1>3, <2>6, IdleIInv DEF MoveAssign, Begin, NoSave
<1> QED
  BY <1>5, <1>6

\* The destructor.
LEMMA DestroyIInv ==
  ASSUME IInv, NEW o \in Objects, Destroy(o)
  PROVE  IInv'
<1>1. Sound(sys, objs)
  BY DEF IInv
<1>2. PICK c \in Clear(o) : sys' = Abandon(o, c) /\ objs' = [objs EXCEPT ![o] = Dead]
  BY DEF Destroy
<1>3. PICK ot : ot = objs'
  OBVIOUS
<1>4. Assigned(o, Dead, objs, ot)
  BY <1>2, <1>3 DEF Assigned
<1>5. Sound(Abandon(o, c), ot)
  BY <1>1, <1>4, DeadIs, AbandonSound
<1> QED
  BY <1>2, <1>3, <1>5, IdleIInv DEF Destroy, Begin, NoSave

\* A save that goes on, or returns, changes where it is and what it returns.
Moved(c, pc, d) == d = [c EXCEPT !.pc = pc]
Ended(c, ret, d) == d = [c EXCEPT !.pc = "returned", !.ret = ret]

\* The rest of a save that returns stays.
LEMMA EndedIs ==
  ASSUME NEW c, CallShape(c), NEW ret \in {0, -1}, NEW d, Ended(c, ret, d)
  PROVE  /\ CallShape(d) /\ d.pc = "returned" /\ d.ret = ret /\ d.self = c.self
         /\ d.target = c.target /\ d.reload = c.reload /\ d.list = c.list /\ d.next = c.next
<1>1. PICK P, C, B, W, S : c \in AnyCall(P, C, B, W, S)
  BY DEF CallShape
<1>2. d \in AnyCall(P, C, B, W, S)
  <2>1. "returned" \in Places
    BY DEF Places
  <2> QED
    BY <1>1, <2>1 DEF AnyCall, Ended
<1>3. CallShape(d)
  BY <1>2 DEF CallShape
<1>4. /\ d.pc = "returned" /\ d.ret = ret /\ d.self = c.self /\ d.target = c.target
      /\ d.reload = c.reload /\ d.list = c.list /\ d.next = c.next
  BY <1>1 DEF AnyCall, Ended
<1> QED
  BY <1>3, <1>4

\* The rest of a save that goes on stays.
LEMMA MovedIs ==
  ASSUME NEW c, CallShape(c), NEW pc \in Places, NEW d, Moved(c, pc, d)
  PROVE  /\ CallShape(d) /\ d.pc = pc /\ d.ret = c.ret /\ d.self = c.self /\ d.target = c.target
         /\ d.reload = c.reload /\ d.list = c.list /\ d.next = c.next
<1>1. PICK P, C, B, W, S : c \in AnyCall(P, C, B, W, S)
  BY DEF CallShape
<1>2. d \in AnyCall(P, C, B, W, S)
  BY <1>1 DEF AnyCall, Moved
<1>3. CallShape(d)
  BY <1>2 DEF CallShape
<1>4. /\ d.pc = pc /\ d.ret = c.ret /\ d.self = c.self /\ d.target = c.target
      /\ d.reload = c.reload /\ d.list = c.list /\ d.next = c.next
  BY <1>1 DEF AnyCall, Moved
<1> QED
  BY <1>3, <1>4

\* What it is, and the list it has.
LEMMA CallFields ==
  ASSUME NEW c, CallShape(c)
  PROVE  /\ c.pc \in Places /\ c.ret \in {0, -1} /\ c.next \in Nat /\ c.reload \in BOOLEAN
         /\ c.self \in Objects \cup {NoName} /\ c.target \in Names \cup {NoName}
         /\ Len(c.list) \in Nat /\ DOMAIN c.list = 1..Len(c.list)
         /\ \A k \in DOMAIN c.list : c.list[k].len \in Nat /\ c.list[k].from \in Nat
         /\ c.list = <<>> <=> Len(c.list) = 0
<1>1. PICK P, C, B, W, S : c \in AnyCall(P, C, B, W, S)
  BY DEF CallShape
<1>2. /\ c.pc \in Places /\ c.ret \in {0, -1} /\ c.next \in Nat /\ c.reload \in BOOLEAN
      /\ c.self \in Objects \cup {NoName} /\ c.target \in Names \cup {NoName}
      /\ c.list \in Seq(Pieces(P))
  BY <1>1 DEF AnyCall
<1>3. \A k \in DOMAIN c.list : c.list[k] \in Pieces(P)
  BY <1>2
<1>4. \A k \in DOMAIN c.list : c.list[k].len \in Nat /\ c.list[k].from \in Nat
  BY <1>3 DEF Pieces
<1> QED
  BY <1>2, <1>4, EmptySeq

\* A save that returns -1, or that was to reload nothing or has one piece at most, keeps
\* the invariant when it keeps who owns what.
LEMMA ReturnIInv ==
  ASSUME IInv, Sound(sys', objs'), DiskOK', NEW value \in {0, -1},
         call' = [call EXCEPT !.pc = "returned", !.ret = value], ops' = ops,
         value = -1 \/ ~call.reload \/ Len(call.list) <= 1
  PROVE  IInv'
<1>1. CallShape(call) /\ call.next \in 1..(Len(call.list) + 1) /\ ops \in 0..MaxOps
  BY DEF IInv, CallInv
<1>3. PICK d : d = call'
  OBVIOUS
<1>2. Ended(call, value, d)
  BY <1>3 DEF Ended
<1>4. /\ CallShape(d) /\ d.pc = "returned" /\ d.ret = value
      /\ d.reload = call.reload /\ d.list = call.list /\ d.next = call.next
  BY <1>1, <1>2, EndedIs
<1>5. call' = d
  BY <1>3
<1>6. CallInv'
  BY <1>1, <1>4, <1>5 DEF CallInv
<1>7. ReloadShows'
  <2>1. Len(d.list) \in Nat
    BY <1>4, CallFields
  <2> QED
    BY <1>4, <1>5, <2>1 DEF ReloadShows, Returned
<1> QED
  BY <1>1, <1>6, <1>7 DEF IInv

\* What a piece of a list becomes.
LEMMA PieceIs ==
  ASSUME NEW p, p.len \in Nat, p.from \in Nat, p.delete \in BOOLEAN
  PROVE  Piece(p).len \in Nat /\ Piece(p) \in Pieces({Piece(p).ptr})
<1> DEFINE q == Piece(p)
           At(a, f, n) == [ptr |-> a, from |-> f, len |-> n, delete |-> p.delete]
<1> HIDE DEF q
<1>1. \/ q = At(<<"heap", p.what>>, 0, 1)
      \/ q = At(<<"map", Null>>, 0, 0)
      \/ \E a : q = At(a, p.from, p.len)
  BY DEF Piece, q
<1>2. \E n \in Nat : \E f \in Nat : \E a : q = At(a, f, n)
  <2>1. 0 \in Nat /\ 1 \in Nat /\ p.len \in Nat /\ p.from \in Nat
    OBVIOUS
  <2> HIDE DEF Null, At
  <2>2. CASE q = At(<<"heap", p.what>>, 0, 1)
    BY <2>1, <2>2
  <2>3. CASE q = At(<<"map", Null>>, 0, 0)
    BY <2>1, <2>3
  <2>4. CASE \E a : q = At(a, p.from, p.len)
    BY <2>1, <2>4
  <2> QED
    BY <1>1, <2>2, <2>3, <2>4
<1>a. PICK n \in Nat : \E f \in Nat : \E a : q = At(a, f, n)
  BY <1>2
<1>b. PICK f \in Nat : \E a : q = At(a, f, n)
  BY <1>a
<1>c. PICK a : q = At(a, f, n)
  BY <1>b
<1>3. q.len = n /\ q.ptr = a
  BY <1>c
<1>4. q \in Pieces({q.ptr})
  BY <1>c, <1>3 DEF Pieces
<1> QED
  BY <1>3, <1>4 DEF q

\* The call that a save begins with.
LEMMA NewCallIs ==
  ASSUME NEW pc \in Places, NEW o \in Objects \cup {NoName}, NEW target \in Names,
         NEW given \in Lists, NEW mode, NEW reload \in BOOLEAN
  PROVE  LET c == NewCall(pc, o, target, given, mode, reload)
         IN  /\ CallShape(c) /\ c.pc = pc /\ c.self = o /\ c.target = target /\ c.reload = reload
             /\ c.next = 1 /\ Len(c.list) = Len(given) /\ Len(given) \in Nat
             /\ given = <<>> <=> Len(given) = 0
<1> DEFINE c == NewCall(pc, o, target, given, mode, reload)
           list == [k \in DOMAIN given |-> Piece(given[k])]
<1>1. given \in Seq(Pointers)
  BY ListsAssumption
<1>2. /\ Len(given) \in Nat /\ DOMAIN given = 1..Len(given) /\ (given = <<>> <=> Len(given) = 0)
      /\ \A k \in DOMAIN given :
           given[k].len \in Nat /\ given[k].from \in Nat /\ given[k].delete \in BOOLEAN
  <2>1. \A q \in Pointers : q.len \in Nat /\ q.from \in Nat /\ q.delete \in BOOLEAN
    BY DEF Pointers
  <2>3. given \in Seq(Pointers)
    BY <1>1
  <2>2. \A k \in DOMAIN given :
           given[k].len \in Nat /\ given[k].from \in Nat /\ given[k].delete \in BOOLEAN
    BY <2>1, <2>3
  <2> QED
    BY <2>2, <2>3, EmptySeq
<1> DEFINE P == {Piece(given[k]).ptr : k \in DOMAIN given}
<1>3. \A k \in DOMAIN given : Piece(given[k]) \in Pieces(P)
  <2> TAKE k \in DOMAIN given
  <2>1. Piece(given[k]) \in Pieces({Piece(given[k]).ptr})
    BY <1>2, PieceIs
  <2>2. {Piece(given[k]).ptr} \subseteq P
    OBVIOUS
  <2> HIDE DEF P
  <2> QED
    BY <2>1, <2>2 DEF Pieces
<1>4. list \in Seq(Pieces(P)) /\ Len(list) = Len(given)
  <2> DEFINE Q == Pieces(P)
  <2> HIDE DEF Q, P
  <2>1. \A k \in 1..Len(given) : Piece(given[k]) \in Q
    BY <1>2, <1>3 DEF Q
  <2>2. list = [k \in 1..Len(given) |-> Piece(given[k])]
    BY <1>2
  <2>3. list \in [1..Len(given) -> Q]
    BY <2>1, <2>2
  <2>4. list \in Seq(Q) /\ DOMAIN list = 1..Len(given)
    BY <1>2, <2>3
  <2>5. Len(list) = Len(given)
    BY <1>2, <2>4, LenProperties
  <2> QED
    BY <2>4, <2>5 DEF Q
<1>5. \E b, w, safe :
        c = [Idle EXCEPT !.pc = pc, !.self = o, !.target = target,
                         !.trunc = (mode = "trunc"), !.reload = reload, !.list = list,
                         !.before = b, !.safe = safe, !.want = w]
  BY DEF NewCall
<1> HIDE DEF c, list, P
<1>6. PICK b, w, safe :
        c = [Idle EXCEPT !.pc = pc, !.self = o, !.target = target,
                         !.trunc = (mode = "trunc"), !.reload = reload, !.list = list,
                         !.before = b, !.safe = safe, !.want = w]
  BY <1>5
<1>7. PICK trunc \in BOOLEAN : trunc = (mode = "trunc")
  OBVIOUS
<1>8. c = [pc |-> pc, ret |-> 0, self |-> o, target |-> target,
           trunc |-> trunc, reload |-> reload, list |-> list, next |-> 1,
           given |-> FALSE, copy |-> <<>>, before |-> b, want |-> w, safe |-> safe]
  BY <1>6, <1>7 DEF Idle
<1>9. c \in AnyCall(P, {<<>>}, {b}, {w}, {safe})
  BY <1>4, <1>8 DEF AnyCall
<1>10. CallShape(c)
  BY <1>9 DEF CallShape
<1>11. /\ c.pc = pc /\ c.self = o /\ c.target = target /\ c.reload = reload
       /\ c.next = 1 /\ c.list = list
  BY <1>8
<1> QED
  BY <1>2, <1>4, <1>10, <1>11 DEF c

\* A save begins: save_third_file with the stream, or at its end when the list is empty.
LEMMA SaveThirdIInv ==
  ASSUME IInv, NEW target \in Names, NEW given \in Lists, NEW mode, SaveThird(target, given, mode)
  PROVE  IInv'
<1> DEFINE no == FALSE
           c == NewCall("open", NoName, target, given, mode, no)
<1>1. "open" \in Places /\ "returned" \in Places
  BY DEF Places
<1>2. /\ CallShape(c) /\ c.pc = "open" /\ c.target = target /\ c.reload = no
      /\ c.next = 1 /\ Len(c.list) = Len(given) /\ Len(given) \in Nat
      /\ given = <<>> <=> Len(given) = 0
  <2>1. NoName \in Objects \cup {NoName} /\ no \in BOOLEAN
    OBVIOUS
  <2> HIDE DEF no
  <2> QED
    BY <1>1, <2>1, NewCallIs
<1>3. call' = IF given = <<>> THEN [c EXCEPT !.pc = "returned"] ELSE c
  BY DEF SaveThird
<1>a. ~no
  OBVIOUS
<1> HIDE DEF no, c
<1>4. /\ disk' = disk /\ sys' = sys /\ objs' = objs /\ ops' \in 0..MaxOps
  BY MaxOpsAssumption DEF IInv, SaveThird, Begin
<1>5. PICK d : d = call'
  OBVIOUS
<1>6. CASE given = <<>>
  <2>1. Moved(c, "returned", d)
    BY <1>3, <1>5, <1>6 DEF Moved
  <2>2. CallShape(d) /\ d.pc = "returned" /\ d.reload = no /\ d.list = c.list /\ d.next = 1
    BY <1>1, <1>2, <2>1, MovedIs
  <2>3. CallInv' /\ ReloadShows'
    BY <1>2, <1>5, <1>a, <2>2 DEF CallInv, ReloadShows
  <2> QED
    BY <1>4, <2>3 DEF IInv, DiskOK
<1>7. CASE given # <<>>
  <2>1. d = c
    BY <1>3, <1>5, <1>7
  <2>2. CallInv' /\ ReloadShows'
    BY <1>2, <1>5, <1>7, <1>a, <2>1 DEF CallInv, ReloadShows
  <2> QED
    BY <1>4, <2>2 DEF IInv, DiskOK
<1> QED
  BY <1>6, <1>7

\* save_this_file begins with the copy of the object's own data; a mode that no stream can
\* be opened with returns at once.
LEMMA SaveThisIInv ==
  ASSUME IInv, NEW o \in Objects, NEW given \in Lists, NEW mode, NEW reload \in BOOLEAN,
         SaveThis(o, given, mode, reload)
  PROVE  IInv'
<1> DEFINE name == objs[o].name
           c == NewCall("copy", o, name, given, mode, reload)
<1>1. "copy" \in Places /\ name \in Names /\ objs[o].live
  BY DEF Places, SaveThis
<1>3. call' = IF mode = "in" THEN [c EXCEPT !.pc = "returned", !.ret = -1] ELSE c
  BY DEF SaveThis
<1> HIDE DEF name
<1>2. /\ CallShape(c) /\ c.pc = "copy" /\ c.self = o /\ c.target = name /\ c.reload = reload
      /\ c.next = 1 /\ Len(c.list) = Len(given) /\ Len(given) \in Nat
  BY <1>1, NewCallIs
<1> HIDE DEF c
<1>4. /\ disk' = disk /\ sys' = sys /\ objs' = objs /\ ops' \in 0..MaxOps
  BY MaxOpsAssumption DEF IInv, SaveThis, Begin
<1>5. PICK d : d = call'
  OBVIOUS
<1>6. CASE mode = "in"
  <2>1. Ended(c, -1, d)
    BY <1>3, <1>5, <1>6 DEF Ended
  <2>2. CallShape(d) /\ d.pc = "returned" /\ d.ret = -1 /\ d.list = c.list /\ d.next = 1
    BY <1>2, <2>1, EndedIs
  <2>3. CallInv' /\ ReloadShows'
    BY <1>2, <1>5, <2>2 DEF CallInv, ReloadShows
  <2> QED
    BY <1>4, <2>3 DEF IInv, DiskOK
<1>7. CASE mode # "in"
  <2>1. d = c
    BY <1>3, <1>5, <1>7
  <2>2. CallInv' /\ ReloadShows'
    BY <1>1, <1>2, <1>4, <1>5, <2>1 DEF CallInv, ReloadShows, Returned
  <2> QED
    BY <1>4, <2>2 DEF IInv, DiskOK
<1> QED
  BY <1>6, <1>7

\* The pieces of the object's own data are replaced by a copy.
LEMMA CopyOwnIInv ==
  ASSUME IInv, CopyOwn
  PROVE  IInv'
<1> DEFINE x == objs[call.self]
           own == {k \in DOMAIN call.list : /\ call.list[k].ptr = <<"map", x.data>>
                                            /\ call.list[k].from = 0}
           long == {k \in own : call.list[k].len > x.size}
           first == CHOOSE k \in own : \A j \in own : k <= j
           moved == {k \in own : \A j \in long : k < j}
           list == [k \in DOMAIN call.list |->
                     IF k \in moved THEN [call.list[k] EXCEPT !.ptr = <<"copy", 0>>]
                                    ELSE call.list[k]]
<1>1. /\ Sound(sys, objs) /\ DiskOK /\ CallInv /\ CallShape(call) /\ call.pc = "copy"
      /\ ops \in 0..MaxOps
  BY DEF IInv, CallInv, CopyOwn
<1>2. disk' = disk /\ objs' = objs /\ ops' = ops
  BY DEF CopyOwn
<1>3. \/ /\ sys' = Drop(sys, list)
         /\ call' = [call EXCEPT !.pc = "returned", !.ret = -1]
      \/ /\ sys' = sys
         /\ call' = [call EXCEPT !.pc = "clear", !.list = list, !.given = (own # {}),
                       !.copy = IF own = {} THEN <<>> ELSE Bytes(call.list[first])]
  BY DEF CopyOwn
<1>4. CASE /\ sys' = Drop(sys, list)
           /\ call' = [call EXCEPT !.pc = "returned", !.ret = -1]
  <2> HIDE DEF list
  <2>1. Sound(sys', objs')
    BY <1>1, <1>2, <1>4, DropSound
  <2>2. DiskOK'
    BY <1>1, <1>2 DEF DiskOK
  <2> QED
    BY <1>2, <1>4, <2>1, <2>2, ReturnIInv
<1>5. CASE /\ sys' = sys
           /\ call' = [call EXCEPT !.pc = "clear", !.list = list, !.given = (own # {}),
                         !.copy = IF own = {} THEN <<>> ELSE Bytes(call.list[first])]
  <2>1. PICK P, C, B, W, S : call \in AnyCall(P, C, B, W, S)
    BY <1>1 DEF CallShape
  <2> DEFINE Q == P \cup {<<"copy", 0>>}
             n == Len(call.list)
  <2>2. call.list \in Seq(Pieces(P)) /\ n \in Nat /\ DOMAIN call.list = 1..n
    BY <2>1 DEF AnyCall
  <2>3. \A k \in 1..n : call.list[k] \in Pieces(P)
    BY <2>2
  <2>4. \A k \in 1..n : /\ call.list[k] \in Pieces(Q)
                        /\ [call.list[k] EXCEPT !.ptr = <<"copy", 0>>] \in Pieces(Q)
    BY <2>3 DEF Pieces
  <2> DEFINE Z == Pieces(Q)
  <2>5. list \in Seq(Z) /\ Len(list) = n
    <3>a. \A k \in 1..n : (IF k \in moved THEN [call.list[k] EXCEPT !.ptr = <<"copy", 0>>]
                                          ELSE call.list[k]) \in Z
      BY <2>4
    <3>b. list = [k \in 1..n |-> IF k \in moved THEN [call.list[k] EXCEPT !.ptr = <<"copy", 0>>]
                                               ELSE call.list[k]]
      BY <2>2
    <3> HIDE DEF moved, Z, list
    <3>1. list \in [1..n -> Z]
      BY <3>a, <3>b
    <3>2. list \in Seq(Z) /\ DOMAIN list = 1..n
      BY <2>2, <3>1
    <3> QED
      BY <2>2, <3>2, LenProperties
  <2>a. PICK given \in BOOLEAN : given = (own # {})
    OBVIOUS
  <2>6. PICK copy :
          call' = [call EXCEPT !.pc = "clear", !.list = list, !.given = given, !.copy = copy]
    BY <1>5, <2>a
  <2> HIDE DEF list
  <2>7. PICK d : d = call'
    OBVIOUS
  <2>8. d \in AnyCall(Q, {copy}, B, W, S)
    <3>1. "clear" \in Places
      BY DEF Places
    <3> HIDE DEF Q
    <3> QED
      BY <2>1, <2>5, <2>6, <2>7, <3>1 DEF AnyCall
  <2>9. CallShape(d)
    BY <2>8 DEF CallShape
  <2>10. /\ d.pc = "clear" /\ d.self = call.self /\ d.target = call.target
         /\ d.next = call.next /\ d.list = list
    BY <2>1, <2>6, <2>7 DEF AnyCall
  <2>11. CallInv'
    BY <1>1, <1>2, <2>2, <2>5, <2>7, <2>9, <2>10 DEF CallInv
  <2>12. ReloadShows'
    BY <2>7, <2>10 DEF ReloadShows, Returned
  <2> QED
    BY <1>1, <1>2, <1>5, <2>11, <2>12 DEF IInv, DiskOK
<1> QED
  BY <1>3, <1>4, <1>5

\* The object releases its file: only then does the save go on.
LEMMA ClearThisIInv ==
  ASSUME IInv, ClearThis
  PROVE  IInv'
<1>1. /\ Sound(sys, objs) /\ DiskOK /\ CallInv /\ CallShape(call) /\ call.pc = "clear"
      /\ ops \in 0..MaxOps /\ call.self \in Objects /\ objs[call.self].live
      /\ call.next = 1 /\ call.target \in Names
  BY DEF IInv, CallInv, ClearThis
<1>2. disk' = disk /\ ops' = ops
  BY DEF ClearThis
<1>3. PICK c \in Clear(call.self) :
        /\ objs' = [objs EXCEPT ![call.self] = c.obj]
        /\ IF c.ret = -1 \/ call.list = <<>>
           THEN Return(c.sys, c.ret)
           ELSE sys' = c.sys /\ call' = [call EXCEPT !.pc = "open"]
  BY DEF ClearThis
<1>4. PICK os : os = objs'
  OBVIOUS
<1>5. Assigned(call.self, c.obj, objs, os)
  BY <1>3, <1>4 DEF Assigned
<1>6. /\ Sound(c.sys, os) /\ c.obj.live = objs[call.self].live
      /\ c.obj.clean \/ (c.obj = objs[call.self] /\ c.ret = -1 /\ c.sys.faults # {})
      /\ c.ret \in {0, -1}
  BY <1>1, <1>5, ClearSound
<1>7. DiskOK'
  BY <1>1, <1>2 DEF DiskOK
<1>8. Len(call.list) \in Nat /\ (call.list = <<>> <=> Len(call.list) = 0)
  BY <1>1, CallFields
<1>9. CASE c.ret = -1 \/ call.list = <<>>
  <2>1. sys' = Released(c.sys) /\ call' = [call EXCEPT !.pc = "returned", !.ret = c.ret]
    BY <1>3, <1>9 DEF Return
  <2>2. Sound(Released(c.sys), os)
    BY <1>6, ReleaseSound
  <2>3. Sound(sys', objs')
    BY <1>4, <2>1, <2>2
  <2>4. c.ret = -1 \/ Len(call.list) <= 1
    BY <1>8, <1>9
  <2> QED
    BY <1>2, <1>6, <1>7, <2>1, <2>3, <2>4, ReturnIInv
<1>10. CASE c.ret # -1 /\ call.list # <<>>
  <2>1. sys' = c.sys /\ call' = [call EXCEPT !.pc = "open"]
    BY <1>3, <1>10
  <2>2. PICK d : d = call'
    OBVIOUS
  <2>3. Moved(call, "open", d) /\ "open" \in Places
    BY <2>1, <2>2 DEF Moved, Places
  <2>4. /\ CallShape(d) /\ d.pc = "open" /\ d.self = call.self /\ d.target = call.target
        /\ d.list = call.list /\ d.next = call.next
    BY <1>1, <2>3, MovedIs
  <2>5. os[call.self] = c.obj
    BY <1>1, <1>5 DEF Sound, Assigned
  <2>a. objs'[call.self].live /\ objs'[call.self].clean
    <3>1. objs[call.self].live = TRUE
      BY <1>1 DEF Sound, AnyObject
    <3>2. c.obj.live = TRUE /\ c.obj.clean
      BY <1>6, <1>10, <3>1
    <3> QED
      BY <1>4, <2>5, <3>2
  <2>b. call.next \in 1..Len(call.list)
    BY <1>1, <1>8, <1>10
  <2>6. CallInv'
    BY <1>1, <2>2, <2>4, <2>a, <2>b DEF CallInv
  <2>7. ReloadShows'
    BY <2>2, <2>4 DEF ReloadShows, Returned
  <2> QED
    BY <1>1, <1>2, <1>4, <1>6, <1>7, <2>1, <2>6, <2>7 DEF IInv
<1> QED
  BY <1>9, <1>10

\* The file of a save changes.
LEMMA DiskChanged ==
  ASSUME DiskOK, NEW t \in Names, NEW S, NEW v \in Seq(S), disk' = [disk EXCEPT ![t] = v]
  PROVE  DiskOK'
<1>1. DOMAIN disk' = Names /\ disk'[t] = v /\ \A n \in Names : n # t => disk'[n] = disk[n]
  BY DEF DiskOK
<1>2. \A n \in Names : \E T : disk'[n] \in Seq(T)
  BY <1>1 DEF DiskOK
<1> QED
  BY <1>1, <1>2 DEF DiskOK

\* What is read for a piece is a sequence.
LEMMA BytesIs ==
  ASSUME NEW p, p.len \in Nat
  PROVE  \E S : Bytes(p) \in Seq(S)
<1>1. \/ Bytes(p) = <<p.ptr[2]>>
      \/ \E f : Bytes(p) = f /\ f = [k \in 1..p.len |-> f[k]]
  <2>1. CASE p.ptr[1] = "heap"
    BY <2>1 DEF Bytes
  <2>2. CASE p.ptr[1] = "copy"
    <3> DEFINE f == [k \in 1..p.len |-> IF k \in DOMAIN call.copy /\ ~CopyFreed
                                        THEN call.copy[k] ELSE Junk]
    <3>1. Bytes(p) = f
      BY <2>2 DEF Bytes
    <3>2. f = [k \in 1..p.len |-> f[k]]
      OBVIOUS
    <3> QED
      BY <3>1, <3>2
  <2>3. CASE p.ptr[1] \notin {"heap", "copy"}
    BY <2>3 DEF Bytes
  <2> QED
    BY <2>1, <2>2, <2>3
<1>2. CASE Bytes(p) = <<p.ptr[2]>>
  <2>1. <<p.ptr[2]>> \in Seq({p.ptr[2]})
    OBVIOUS
  <2> QED
    BY <1>2, <2>1
<1>3. CASE \E f : Bytes(p) = f /\ f = [k \in 1..p.len |-> f[k]]
  <2>1. PICK f : Bytes(p) = f /\ f = [k \in 1..p.len |-> f[k]]
    BY <1>3
  <2> DEFINE S == {f[k] : k \in 1..p.len}
  <2>2. \A k \in 1..p.len : f[k] \in S
    OBVIOUS
  <2> HIDE DEF S
  <2>3. f \in [1..p.len -> S]
    BY <2>1, <2>2
  <2>4. f \in Seq(S)
    BY <2>3
  <2> QED
    BY <2>1, <2>4
<1> QED
  BY <1>1, <1>2, <1>3

\* The stream is opened.
LEMMA OpenStreamIInv ==
  ASSUME IInv, OpenStream
  PROVE  IInv'
<1>1. /\ Sound(sys, objs) /\ DiskOK /\ CallInv /\ CallShape(call) /\ call.pc = "open"
      /\ ops \in 0..MaxOps /\ call.next \in 1..Len(call.list) /\ call.target \in Names
  BY DEF IInv, CallInv, OpenStream
<1>2. objs' = objs /\ ops' = ops
  BY DEF OpenStream
<1>3. CASE "open" \in Faults /\ Return(Fault(sys, "open"), -1) /\ UNCHANGED disk
  <2>1. "open" \in Calls
    BY DEF Calls
  <2>2. Sound(Released(Fault(sys, "open")), objs)
    BY <1>1, <2>1, SoundFault, ReleaseSound
  <2>3. /\ sys' = Released(Fault(sys, "open")) /\ disk' = disk
        /\ call' = [call EXCEPT !.pc = "returned", !.ret = -1]
    BY <1>3 DEF Return
  <2>4. Sound(sys', objs') /\ DiskOK'
    BY <1>1, <1>2, <2>2, <2>3 DEF DiskOK
  <2> QED
    BY <1>2, <2>3, <2>4, ReturnIInv
<1>4. CASE /\ disk' = [disk EXCEPT ![call.target] =
                        IF @ = Absent \/ (call.trunc /\ call.next = 1) THEN <<>> ELSE @]
           /\ call' = [call EXCEPT !.pc = "write"]
           /\ UNCHANGED sys
  <2>1. PICK S : disk[call.target] \in Seq(S)
    BY <1>1 DEF DiskOK
  <2>2. PICK v \in Seq(S) : disk' = [disk EXCEPT ![call.target] = v]
    <3>1. <<>> \in Seq(S)
      OBVIOUS
    <3>2. \/ disk' = [disk EXCEPT ![call.target] = <<>>]
          \/ disk' = [disk EXCEPT ![call.target] = disk[call.target]]
      BY <1>1, <1>4 DEF DiskOK
    <3> QED
      BY <2>1, <3>1, <3>2
  <2>3. DiskOK'
    BY <1>1, <2>2, DiskChanged
  <2>4. PICK d : d = call'
    OBVIOUS
  <2>5. Moved(call, "write", d) /\ "write" \in Places
    BY <1>4, <2>4 DEF Moved, Places
  <2>6. /\ CallShape(d) /\ d.pc = "write" /\ d.self = call.self /\ d.target = call.target
        /\ d.reload = call.reload /\ d.list = call.list /\ d.next = call.next
    BY <1>1, <2>5, MovedIs
  <2>7. CallInv'
    BY <1>1, <1>2, <2>4, <2>6 DEF CallInv
  <2>8. ReloadShows'
    BY <2>4, <2>6 DEF ReloadShows, Returned
  <2> QED
    BY <1>1, <1>2, <1>4, <2>3, <2>7, <2>8 DEF IInv
<1> QED
  BY <1>3, <1>4 DEF OpenStream

\* A save goes on with the next piece.
NextPiece(c, pc, d) == d = [c EXCEPT !.next = @ + 1, !.pc = pc]

\* Nothing else of it changes.
LEMMA NextPieceIs ==
  ASSUME NEW c, CallShape(c), NEW pc \in Places,
         NEW d, NextPiece(c, pc, d)
  PROVE  /\ CallShape(d) /\ d.pc = pc /\ d.self = c.self /\ d.target = c.target
         /\ d.reload = c.reload /\ d.list = c.list /\ d.next = c.next + 1
<1>1. PICK P, C, B, W, S : c \in AnyCall(P, C, B, W, S)
  BY DEF CallShape
<1>2. PICK n \in Nat : n = c.next + 1
  BY <1>1 DEF AnyCall
<1>3. d = [c EXCEPT !.next = n, !.pc = pc]
  BY <1>1, <1>2 DEF AnyCall, NextPiece
<1>4. d \in AnyCall(P, C, B, W, S)
  BY <1>1, <1>3 DEF AnyCall
<1>5. /\ d.pc = pc /\ d.self = c.self /\ d.target = c.target
      /\ d.reload = c.reload /\ d.list = c.list /\ d.next = n
  BY <1>1, <1>3 DEF AnyCall
<1>6. CallShape(d)
  BY <1>4 DEF CallShape
<1> QED
  BY <1>2, <1>5, <1>6

\* A piece is written, or not.
LEMMA WriteStreamIInv ==
  ASSUME IInv, WriteStream
  PROVE  IInv'
<1> DEFINE p == call.list[call.next]
           last == call.next = Len(call.list)
           s == Reading(sys, p)
<1>1. /\ Sound(sys, objs) /\ DiskOK /\ CallInv /\ CallShape(call) /\ call.pc = "write"
      /\ ops \in 0..MaxOps /\ call.next \in 1..Len(call.list) /\ call.target \in Names
      /\ call.reload \in BOOLEAN
      /\ call.reload => call.self \in Objects /\ objs[call.self].live /\ objs[call.self].clean
  <2>1. CallShape(call) /\ call.pc = "write"
    BY DEF IInv, CallInv, WriteStream
  <2> QED
    BY <2>1, CallFields DEF IInv, CallInv
<1>2. objs' = objs /\ ops' = ops
  BY DEF WriteStream
<1>3. /\ Len(call.list) \in Nat /\ DOMAIN call.list = 1..Len(call.list)
      /\ \A k \in DOMAIN call.list : call.list[k].len \in Nat
  BY <1>1, CallFields
<1>4. p.len \in Nat
  BY <1>1, <1>3
<1>5. \/ /\ p.ptr = <<"map", Null>>
         /\ Return(sys, -1)
         /\ UNCHANGED disk
      \/ \E done \in BOOLEAN :
           LET t == IF done THEN s ELSE Fault(s, "write")
               u == IF call.next = 1 THEN Pop(t, p) ELSE t
           IN /\ disk' = [disk EXCEPT ![call.target] = IF done THEN @ \o Bytes(p) ELSE @]
              /\ \/ /\ last /\ call.next = 1
                    /\ sys' = u /\ call' = [call EXCEPT !.pc = "returned", !.ret = 0]
                 \/ last /\ call.next > 1 /\ ~call.reload /\ Return(u, 0)
                 \/ /\ ~last \/ (call.next > 1 /\ call.reload)
                    /\ sys' = u
                    /\ call' = [call EXCEPT !.next = @ + 1,
                                  !.pc = IF last THEN "reload" ELSE "open"]
  BY DEF WriteStream
<1>6. Sound(s, objs)
  BY <1>1, ReadingSound
<1> HIDE DEF p, s
<1>7. CASE p.ptr = <<"map", Null>> /\ Return(sys, -1) /\ UNCHANGED disk
  <2>1. Sound(Released(sys), objs)
    BY <1>1, ReleaseSound
  <2>2. /\ sys' = Released(sys) /\ disk' = disk
        /\ call' = [call EXCEPT !.pc = "returned", !.ret = -1]
    BY <1>7 DEF Return
  <2>3. Sound(sys', objs') /\ DiskOK'
    BY <1>1, <1>2, <2>1, <2>2 DEF DiskOK
  <2> QED
    BY <1>2, <2>2, <2>3, ReturnIInv
<1>8. ASSUME NEW done \in BOOLEAN,
             disk' = [disk EXCEPT ![call.target] = IF done THEN @ \o Bytes(p) ELSE @],
             NEW t, t = (IF done THEN s ELSE Fault(s, "write")),
             NEW u, u = (IF call.next = 1 THEN Pop(t, p) ELSE t),
             \/ /\ last /\ call.next = 1
                /\ sys' = u /\ call' = [call EXCEPT !.pc = "returned", !.ret = 0]
             \/ last /\ call.next > 1 /\ ~call.reload /\ Return(u, 0)
             \/ /\ ~last \/ (call.next > 1 /\ call.reload)
                /\ sys' = u
                /\ call' = [call EXCEPT !.next = @ + 1,
                              !.pc = IF last THEN "reload" ELSE "open"]
      PROVE  IInv'
  <2>1. Sound(u, objs)
    <3>1. "write" \in Calls
      BY DEF Calls
    <3>2. Sound(t, objs)
      BY <1>6, <1>8, <3>1, SoundFault
    <3> QED
      BY <1>8, <3>2, PopSound
  <2>2. DiskOK'
    <3>1. PICK S : disk[call.target] \in Seq(S)
      BY <1>1 DEF DiskOK
    <3>2. PICK T : Bytes(p) \in Seq(T)
      BY <1>4, BytesIs
    <3>3. disk[call.target] \in Seq(S \cup T) /\ Bytes(p) \in Seq(S \cup T)
      BY <3>1, <3>2
    <3>4. disk[call.target] \o Bytes(p) \in Seq(S \cup T)
      BY <3>3, ConcatProperties
    <3>5. \/ disk' = [disk EXCEPT ![call.target] = disk[call.target] \o Bytes(p)]
          \/ disk' = [disk EXCEPT ![call.target] = disk[call.target]]
      BY <1>1, <1>8 DEF DiskOK
    <3>6. PICK v \in Seq(S \cup T) : disk' = [disk EXCEPT ![call.target] = v]
      BY <3>3, <3>4, <3>5
    <3> QED
      BY <1>1, <3>6, DiskChanged
  <2>3. CASE last /\ (call.next = 1 \/ ~call.reload)
    <3>0. ~(~last \/ (call.next > 1 /\ call.reload))
      <4>1. call.next = 1 => ~(call.next > 1)
        OBVIOUS
      <4> HIDE DEF last
      <4> QED
        BY <2>3, <4>1, Zenon
    <3>1. /\ sys' = u \/ sys' = Released(u)
          /\ call' = [call EXCEPT !.pc = "returned", !.ret = 0]
      <4>1. \/ sys' = u /\ call' = [call EXCEPT !.pc = "returned", !.ret = 0]
            \/ Return(u, 0)
        BY <1>8, <3>0
      <4> QED
        BY <4>1 DEF Return
    <3>2. Sound(Released(u), objs)
      BY <2>1, ReleaseSound
    <3>3. Sound(sys', objs')
      BY <1>2, <2>1, <3>1, <3>2
    <3>4. ~call.reload \/ Len(call.list) <= 1
      BY <1>1, <1>3, <2>3
    <3> QED
      BY <1>2, <2>2, <3>1, <3>3, <3>4, ReturnIInv
  <2>4. CASE ~last \/ (call.next > 1 /\ call.reload)
    <3>1. /\ sys' = u
          /\ call' = [call EXCEPT !.next = @ + 1, !.pc = IF last THEN "reload" ELSE "open"]
      BY <1>8, <2>4
    <3>2. "reload" \in Places /\ "open" \in Places
      BY DEF Places
    <3>a. ASSUME last
          PROVE  \E pc \in Places :
            /\ (pc = "reload" /\ last /\ call.reload) \/ (pc = "open" /\ ~last)
            /\ call' = [call EXCEPT !.next = @ + 1, !.pc = pc]
      <4>1. call.reload /\ call' = [call EXCEPT !.next = @ + 1, !.pc = "reload"]
        BY <2>4, <3>1, <3>a
      <4>2. "reload" \in Places
        BY <3>2
      <4> WITNESS "reload" \in Places
      <4> QED
        BY <3>a, <4>1
    <3>b. ASSUME ~last
          PROVE  \E pc \in Places :
            /\ (pc = "reload" /\ last /\ call.reload) \/ (pc = "open" /\ ~last)
            /\ call' = [call EXCEPT !.next = @ + 1, !.pc = pc]
      <4>1. call' = [call EXCEPT !.next = @ + 1, !.pc = "open"]
        BY <3>1, <3>b
      <4> QED
        BY <3>2, <3>b, <4>1
    <3>3. PICK pc \in Places :
            /\ (pc = "reload" /\ last /\ call.reload) \/ (pc = "open" /\ ~last)
            /\ call' = [call EXCEPT !.next = @ + 1, !.pc = pc]
      BY <3>a, <3>b
    <3>4. PICK d : d = call'
      OBVIOUS
    <3>5. /\ CallShape(d) /\ d.pc = pc /\ d.self = call.self /\ d.target = call.target
          /\ d.reload = call.reload /\ d.list = call.list /\ d.next = call.next + 1
      <4>1. NextPiece(call, pc, d)
        BY <3>3, <3>4 DEF NextPiece
      <4> QED
        BY <1>1, <4>1, NextPieceIs
    <3>6. /\ d.next \in 1..(Len(d.list) + 1)
          /\ pc = "open" => d.next \in 1..Len(d.list)
      BY <1>1, <1>3, <3>3, <3>5
    <3>7. CallInv'
      BY <1>1, <1>2, <3>3, <3>4, <3>5, <3>6 DEF CallInv
    <3>8. ReloadShows'
      BY <3>3, <3>4, <3>5 DEF ReloadShows, Returned
    <3> QED
      BY <1>1, <1>2, <2>1, <2>2, <3>1, <3>7, <3>8 DEF IInv
  <2> QED
    BY <1>1, <1>3, <2>3, <2>4
<1> QED
  BY <1>5, <1>7, <1>8

\* The object opens its file again.
LEMMA ReloadIInv ==
  ASSUME IInv, Reload
  PROVE  IInv'
<1> DEFINE x == objs[call.self]
<1>1. /\ Sound(sys, objs) /\ DiskOK /\ CallInv /\ CallShape(call) /\ call.pc = "reload"
      /\ ops \in 0..MaxOps /\ call.next \in 1..(Len(call.list) + 1)
      /\ call.self \in Objects /\ x.live /\ x.clean
  BY DEF IInv, CallInv, Reload
<1>2. disk' = disk /\ ops' = ops
  BY DEF Reload
<1> DEFINE value(y) == IF y.size < 0 \/ (y.size > 0 /\ y.clean) THEN -1 ELSE 0
<1>3. PICK r \in SetVars(sys, x) :
        /\ objs' = [objs EXCEPT ![call.self] = r.obj]
        /\ Return(r.sys, value(r.obj))
  BY DEF Reload
<1>4. PICK ret \in {0, -1} : ret = value(r.obj)
  OBVIOUS
<1>5. sys' = Released(r.sys) /\ call' = [call EXCEPT !.pc = "returned", !.ret = ret]
  BY <1>3, <1>4 DEF Return
<1>6. PICK os : os = objs'
  OBVIOUS
<1>7. Assigned(call.self, r.obj, objs, os)
  BY <1>3, <1>6 DEF Assigned
<1>8. x \in AnyObject
  BY <1>1 DEF Sound
<1> HIDE DEF x
<1>9. /\ Sound(r.sys, os)
      /\ r.obj.name = x.name /\ r.obj.live
      /\ r.obj.size = IF x.name \in Names /\ disk[x.name] # Absent THEN Len(disk[x.name]) ELSE -1
      /\ ~r.obj.clean => r.obj.data \in DOMAIN r.sys.maps
                         /\ r.sys.maps[r.obj.data].content = disk[x.name]
  <2>1. PICK o \in Objects : o = call.self
    BY <1>1
  <2>2. x = objs[o] /\ Assigned(o, r.obj, objs, os)
    BY <1>7, <2>1 DEF x
  <2>3. x.live = TRUE /\ objs[o].clean
    BY <1>1, <1>8, <2>2 DEF AnyObject
  <2>4. r \in SetVars(sys, x) /\ Sound(sys, objs) /\ DiskOK
    BY <1>1, <1>3
  <2> QED
    BY <1>8, <2>2, <2>3, <2>4, SetVarsSound
<1>10. Sound(sys', objs') /\ sys'.maps = r.sys.maps
  <2>1. Sound(Released(r.sys), os) /\ Released(r.sys).maps = r.sys.maps
    BY <1>9, ReleaseSound
  <2> QED
    BY <1>5, <1>6, <2>1
<1>11. PICK d : d = call'
  OBVIOUS
<1>12. /\ CallShape(d) /\ d.pc = "returned" /\ d.ret = ret /\ d.self = call.self
       /\ d.list = call.list /\ d.next = call.next
  <2>1. Ended(call, ret, d)
    BY <1>5, <1>11 DEF Ended
  <2> QED
    BY <1>1, <2>1, EndedIs
<1>13. CallInv'
  BY <1>1, <1>11, <1>12 DEF CallInv
<1>14. os[call.self] = r.obj
  BY <1>1, <1>7 DEF Sound, Assigned
<1>15. ReloadShows'
  <2>1. ASSUME ret = 0
        PROVE  /\ r.obj.size = Len(disk[r.obj.name])
               /\ r.obj.size > 0 => ~r.obj.clean
                                    /\ sys'.maps[r.obj.data].content = disk[r.obj.name]
    <3>1. r.obj.size >= 0 /\ ~(r.obj.size > 0 /\ r.obj.clean)
      <4>1. r.obj.size \in Int
        BY <1>1, <1>9 DEF DiskOK
      <4> QED
        BY <1>4, <2>1, <4>1
    <3>2. r.obj.size = Len(disk[x.name])
      BY <1>9, <3>1
    <3> QED
      BY <1>9, <1>10, <3>1, <3>2
  <2> QED
    BY <1>2, <1>6, <1>11, <1>12, <1>14, <2>1 DEF ReloadShows
<1> QED
  BY <1>1, <1>2, <1>10, <1>13, <1>15 DEF IInv, DiskOK

-----------------------------------------------------------------------------
(* The specification keeps the invariant. *)

\* At first nothing is open, no object exists and no call runs.
LEMMA InitIInv == Init => IInv
<1> SUFFICES ASSUME Init PROVE IInv
  OBVIOUS
<1>1. DiskOK
  <2>1. DOMAIN disk = Names /\ \A n \in Names : disk[n] \in Seq(Chunks) \cup {Absent}
    BY DisksAssumption DEF Init
  <2>2. Absent \in Seq({"absent"})
    BY DEF Absent
  <2> QED
    BY <2>1, <2>2 DEF DiskOK
<1>2. /\ sys = [fds |-> {}, maps |-> <<>>, lost |-> {}, faults |-> {}, broken |-> {}]
      /\ objs = [o \in Objects |-> Dead] /\ call = Idle /\ ops = 0
  BY DEF Init
<1>3. SysOK(sys)
  <2>1. sys \in Systems({<<>>})
    BY <1>2 DEF Systems
  <2>2. sys.fds = {} /\ DOMAIN sys.maps = {}
    BY <1>2
  <2>3. IsFiniteSet({})
    BY FS_EmptySet
  <2> QED
    BY <2>1, <2>2, <2>3 DEF SysOK
<1>4. objs \in [Objects -> AnyObject] /\ \A o \in Objects : objs[o].clean
  BY <1>2, DeadIs
<1>5. Owned(sys, objs)
  <2>1. sys.fds = {} /\ DOMAIN sys.maps = {} /\ sys.lost = {} /\ sys.broken = {}
    BY <1>2
  <2>2. Holders(objs) = {} /\ LostFds(sys) = {} /\ LostMaps(sys) = {}
    BY <1>4, <2>1 DEF Holders, LostFds, LostMaps
  <2> QED
    BY <2>1, <2>2 DEF Owned, Held
<1>6. Sound(sys, objs)
  <2>1. LostWithFault(sys)
    BY <1>2 DEF LostWithFault
  <2> QED
    BY <1>3, <1>4, <1>5, <2>1 DEF Sound
<1>7. CallInv /\ ReloadShows
  BY <1>2, IdleIs DEF CallInv, ReloadShows, Returned
<1> QED
  BY <1>1, <1>2, <1>6, <1>7, MaxOpsAssumption DEF IInv

\* Every action keeps it.
LEMMA NextIInv == IInv /\ [Next]_vars => IInv'
<1> SUFFICES ASSUME IInv, [Next]_vars PROVE IInv'
  OBVIOUS
<1>1. ASSUME NEW o \in Objects, NEW n \in Names, Construct(o, n) PROVE IInv'
  <2>1. n \in Names \cup {NoName}
    OBVIOUS
  <2> QED
    BY <1>1, <2>1, ConstructIInv DEF Construct
<1>2. ASSUME NEW o \in Objects, NEW p \in Objects, CopyConstruct(o, p) PROVE IInv'
  <2>1. objs[p].name \in Names \cup {NoName}
    BY DEF IInv, Sound, AnyObject
  <2> QED
    BY <1>2, <2>1, ConstructIInv DEF CopyConstruct
<1>3. CASE CopyOwn
  BY <1>3, CopyOwnIInv
<1>4. CASE ClearThis
  BY <1>4, ClearThisIInv
<1>5. CASE OpenStream
  BY <1>5, OpenStreamIInv
<1>6. CASE WriteStream
  BY <1>6, WriteStreamIInv
<1>7. CASE Reload
  BY <1>7, ReloadIInv
<1>8. CASE UNCHANGED vars
  <2>1. disk' = disk /\ sys' = sys /\ objs' = objs /\ call' = call /\ ops' = ops
    BY <1>8 DEF vars
  <2>2. DiskOK' /\ CallInv' /\ ReloadShows'
    BY <2>1 DEF IInv, DiskOK, CallInv, ReloadShows, Returned
  <2> QED
    BY <2>1, <2>2 DEF IInv
<1>9. ASSUME NEW o \in Objects, NEW given \in Lists, NEW mode \in Modes, NEW reload \in BOOLEAN,
             SaveThis(o, given, mode, reload)
      PROVE  IInv'
  BY <1>9, SaveThisIInv
<1>10. ASSUME NEW n \in Names, NEW given \in Lists, NEW mode \in Modes, SaveThird(n, given, mode)
       PROVE  IInv'
  BY <1>10, SaveThirdIInv
<1>11. ASSUME NEW o \in Objects, NEW p \in Objects,
              MoveConstruct(o, p) \/ CopyAssign(o, p) \/ MoveAssign(o, p)
       PROVE  IInv'
  BY <1>11, MoveConstructIInv, CopyAssignIInv, MoveAssignIInv
<1>12. ASSUME NEW o \in Objects, Destroy(o) PROVE IInv'
  BY <1>12, DestroyIInv
<1> QED
  BY <1>1, <1>2, <1>3, <1>4, <1>5, <1>6, <1>7, <1>8, <1>9, <1>10, <1>11, <1>12 DEF Next

\* The inductive invariant: between two steps of the caller, and in the middle of a save,
\* every number in use is lost or has one holder, and a call that is to reload its object
\* holds nothing of it.  (clear, set_constructor_vars and the five special members)
THEOREM Invariance == Spec => []IInv
BY InitIInv, NextIInv, PTL DEF Spec

\* The variables keep their types.  (class file_operations)
THEOREM TypeCorrect == Spec => []TypeOK
<1>1. ASSUME IInv PROVE TypeOK
  <2>1. /\ Sound(sys, objs) /\ DiskOK /\ CallInv /\ CallShape(call) /\ ops \in 0..MaxOps
        /\ call.next \in 1..(Len(call.list) + 1)
    BY <1>1 DEF IInv, CallInv
  <2>2. PICK M : sys \in Systems(M)
    BY <2>1 DEF Sound, SysOK
  <2>3. /\ sys.fds \subseteq Nat \ {0} /\ DOMAIN sys.maps \subseteq Nat \ {0}
        /\ sys.lost \subseteq {"fd", "map", "copy"} \X Nat
        /\ sys.faults \subseteq Calls
        /\ sys.broken \subseteq {"foreign", "delete", "stale", "beyond", "freed"}
    BY <2>1, <2>2 DEF Sound, SysOK, Systems, Numbers, Losses, Rules
  <2>4. \A o \in Objects : /\ objs[o].name \in Names \cup {NoName}
                           /\ objs[o].data >= -1 /\ objs[o].size >= -1
                           /\ objs[o].clean \in BOOLEAN
    BY <2>1 DEF Sound, AnyObject, Sizes
  <2>5. call.pc \in {"idle", "returned", "copy", "clear", "open", "write", "reload"}
    BY <2>1, CallFields DEF Places
  <2> QED
    BY <2>1, <2>3, <2>4, <2>5 DEF TypeOK, DiskOK
<1> QED
  BY <1>1, Invariance, PTL

\* While close has not failed, every descriptor and mapping in use has one object that
\* will release it or is lost, and no object releases what is not its own.
\* (memory_is_clean in clear, read_file and the five special members)
THEOREM OwnedOnceAlways == Spec => []OwnedOnce
<1>1. ASSUME IInv PROVE OwnedOnce
  <2> SUFFICES ASSUME "close" \notin sys.faults PROVE OwnedOnce
    BY DEF OwnedOnce
  <2>1. Sound(sys, objs) /\ Owned(sys, objs)
    BY <1>1 DEF IInv, Sound
  <2>2. sys.lost \subseteq Losses
    BY <2>1 DEF Sound, SysOK, Systems
  <2> DEFINE Second(kind) == {x[2] : x \in {y \in sys.lost : y[1] = kind}}
  <2>3. LostFds(sys) = Second("fd") /\ LostMaps(sys) = Second("map")
    BY <2>2 DEF LostFds, LostMaps, Losses
  <2>4. Holders(objs) = {o \in Objects : ~objs[o].clean}
    BY DEF Holders
  <2> DEFINE H == Holders(objs)
  <2>5. \A o \in H : objs[o].live /\ Fds(objs)[o] = objs[o].fd /\ Datas(objs)[o] = objs[o].data
    BY <2>1 DEF Sound, Holders, Fds, Datas
  <2> DEFINE F == {objs[o].fd : o \in H}
             D == {objs[o].data : o \in H}
  <2> HIDE DEF H
  <2>6. sys.fds = F \cup LostFds(sys) /\ DOMAIN sys.maps = D \cup LostMaps(sys)
    BY <2>1, <2>5 DEF Owned, Held, H
  <2>7. \A o, p \in H : o # p => objs[o].fd # objs[p].fd /\ objs[o].data # objs[p].data
    BY <2>1, <2>5 DEF Owned, Held, H
  <2>8. "foreign" \notin sys.broken
    BY <2>1 DEF Owned
  <2>9. H = {o \in Objects : ~objs[o].clean}
    BY <2>4 DEF H
  <2> QED
    BY <2>3, <2>5, <2>6, <2>7, <2>8, <2>9 DEF OwnedOnce
<1> QED
  BY <1>1, Invariance, PTL

\* While no system call has failed nothing is lost but the copy that save_this_file makes
\* of its own data.  (the constructors, assignments and destructor, save_this_file)
THEOREM NothingLostAlways == Spec => []NothingLost
<1>1. ASSUME IInv PROVE NothingLost
  BY <1>1 DEF IInv, Sound, LostWithFault, NothingLost
<1> QED
  BY <1>1, Invariance, PTL

\* An object that a save has reloaded shows the file as it is on disk.  (the end of
\* save_this_file)
THEOREM ReloadShowsAlways == Spec => []ReloadShows
<1>1. ASSUME IInv PROVE ReloadShows
  BY <1>1 DEF IInv
<1> QED
  BY <1>1, Invariance, PTL

-----------------------------------------------------------------------------
(* Sequences that are joined, by induction on their number. *)

\* A sequence is a prefix of what is joined with it.
LEMMA PrefixOfConcat ==
  ASSUME NEW S, NEW s \in Seq(S), NEW t \in Seq(S), NEW u \in Seq(S), IsPrefix(s, t)
  PROVE  IsPrefix(s, t \o u)
<1>1. /\ t \o u \in Seq(S) /\ Len(t \o u) = Len(t) + Len(u)
      /\ \A i \in 1..(Len(t) + Len(u)) :
           (t \o u)[i] = IF i <= Len(t) THEN t[i] ELSE u[i - Len(t)]
  BY ConcatProperties
<1>2. Len(s) \in Nat /\ Len(t) \in Nat /\ Len(u) \in Nat /\ Len(s) <= Len(t)
  BY DEF IsPrefix
<1>3. \A i \in 1..Len(s) : (t \o u)[i] = t[i]
  BY <1>1, <1>2
<1>4. SubSeq(t \o u, 1, Len(s)) = SubSeq(t, 1, Len(s))
  BY <1>1, <1>2, <1>3
<1>. QED
  BY <1>1, <1>2, <1>4 DEF IsPrefix

\* What is joined first is a prefix of what is joined in the end.
LEMMA JoinedPrefix ==
  ASSUME NEW S, NEW P, NEW n \in Nat, NEW F, JoinedUpTo(n, P, F, S),
         \A k \in 1..n : P[k] \in Seq(S), NEW base \in Seq(S), NEW i \in 0..n
  PROVE  IsPrefix(base \o F[i], base \o F[n])
<1> DEFINE T == {d \in 0..(n - i) : IsPrefix(base \o F[i], base \o F[i + d])}
<1>0. F \in [0..n -> Seq(S)]
  BY DEF JoinedUpTo
<1>1. 0 \in T
  <2>1. base \o F[i] \in Seq(S)
    BY <1>0
  <2>2. IsPrefix(base \o F[i], base \o F[i])
    BY <2>1 DEF IsPrefix
  <2>. QED
    BY <2>2
<1>2. ASSUME NEW d \in 0..(n - i - 1), d \in T PROVE d + 1 \in T
  <2>1. i + d \in 0..n /\ i + (d + 1) \in 1..n /\ (i + (d + 1)) - 1 = i + d /\ d + 1 \in 0..(n - i)
    OBVIOUS
  <2>2. F[i + (d + 1)] = F[i + d] \o P[i + (d + 1)]
    BY <2>1 DEF JoinedUpTo
  <2>3. P[i + (d + 1)] \in Seq(S) /\ F[i + d] \in Seq(S) /\ base \o F[i] \in Seq(S) /\ base \o F[i + d] \in Seq(S)
    BY <1>0, <2>1
  <2>4. base \o F[i + (d + 1)] = (base \o F[i + d]) \o P[i + (d + 1)]
    <3>1. (base \o F[i + d]) \o P[i + (d + 1)] = base \o (F[i + d] \o P[i + (d + 1)])
      <4>1. \A x, y, z \in Seq(S) : (x \o y) \o z = x \o (y \o z)
        BY ConcatAssociative
      <4>. QED
        BY <2>3, <4>1, Zenon
    <3>. QED
      BY <2>2, <3>1, Zenon
  <2>5. IsPrefix(base \o F[i], base \o F[i + d])
    BY <1>2
  <2>6. IsPrefix(base \o F[i], base \o F[i + (d + 1)])
    BY <2>3, <2>4, <2>5, PrefixOfConcat
  <2>. QED
    BY <2>1, <2>6
<1>3. n - i \in T
  <2>1. n - i \in Nat
    OBVIOUS
  <2>2. 0..(n - i) \subseteq T
    <3>. HIDE DEF T
    <3>. QED
      BY <1>1, <1>2, <2>1, Upwards
  <2>3. n - i \in 0..(n - i)
    BY <2>1
  <2>. QED
    BY <2>2, <2>3
<1>. QED
  <2>1. i + (n - i) = n
    OBVIOUS
  <2>. QED
    BY <1>3, <2>1

-----------------------------------------------------------------------------
(* What a save reads. *)

\* FileOperations.Fresh of any process and any disk.
FreshIn(m, maps, dk) ==
  m \in DOMAIN maps /\ IsPrefix(maps[m].content, dk[maps[m].name])

\* FileOperations.Bytes of any copy, process and disk.
Read(p, copy, maps, dk) ==
  CASE p.ptr[1] = "heap" -> <<p.ptr[2]>>
    [] p.ptr[1] = "copy" -> [k \in 1..p.len |-> IF k \in DOMAIN copy THEN copy[k] ELSE Junk]
    [] OTHER -> [k \in 1..p.len |->
                  IF FreshIn(p.ptr[2], maps, dk) /\ p.from + k <= Len(maps[p.ptr[2]].content)
                  THEN maps[p.ptr[2]].content[p.from + k] ELSE Junk]

\* The piece p can be read as long as only the file target is written and the mapping it
\* shows stays.
Steady(p, target, maps, dk) ==
  \/ p.ptr[1] \in {"heap", "copy"}
  \/ p.len = 0
  \/ FreshIn(p.ptr[2], maps, dk) /\ maps[p.ptr[2]].name # target

\* The mapping that the piece p shows, if any, is in maps2 as in maps.
Stays(p, maps, maps2) ==
  \/ p.ptr[1] \in {"heap", "copy"}
  \/ p.len = 0
  \/ p.ptr[2] \in DOMAIN maps => p.ptr[2] \in DOMAIN maps2 /\ maps2[p.ptr[2]] = maps[p.ptr[2]]

\* Only the file target may have changed.
SameBut(target, dk, dk2) == \A n \in Names : n # target => dk2[n] = dk[n]

Addresses == ({"heap"} \X Chunks) \cup ({"map"} \X Int) \cup ({"copy"} \X {0})

ChunkMaps(maps) ==
  \A m \in DOMAIN maps : maps[m].name \in Names /\ maps[m].content \in Seq(Chunks)

Stored(dk) == \A n \in Names : dk[n] \in Seq(Chunks) \cup {Absent}

\* The copy while it is not deleted.
Kept == IF CopyFreed THEN <<>> ELSE call.copy

\* What a piece shows.
LEMMA BytesAreRead == \A p : Bytes(p) = Read(p, Kept, sys.maps, disk)
<1> SUFFICES ASSUME NEW p PROVE Bytes(p) = Read(p, Kept, sys.maps, disk)
  OBVIOUS
<1>1. CASE CopyFreed
  <2>1. Kept = <<>> /\ DOMAIN Kept = {}
    BY <1>1 DEF Kept
  <2>2. \A k : (IF k \in DOMAIN call.copy /\ ~CopyFreed THEN call.copy[k] ELSE Junk)
             = (IF k \in DOMAIN Kept THEN Kept[k] ELSE Junk)
    BY <1>1, <2>1
  <2>3. CASE p.ptr[1] = "copy"
    BY <2>2, <2>3 DEF Bytes, Read
  <2>4. CASE p.ptr[1] # "copy"
    BY <2>4 DEF Bytes, Read, Fresh, FreshIn
  <2>. QED
    BY <2>3, <2>4
<1>2. CASE ~CopyFreed
  BY <1>2 DEF Kept, Bytes, Read, Fresh, FreshIn
<1>. QED
  BY <1>1, <1>2

\* No file that exists is an absent one.
LEMMA AbsentIsNone == Absent \notin Seq(Chunks) /\ <<>> \in Seq(Chunks) /\ Junk \in Chunks
<1>1. ASSUME Absent \in Seq(Chunks) PROVE FALSE
  <2>1. 1 \in DOMAIN Absent /\ Absent[1] = "absent"
    BY DEF Absent
  <2>2. \A s \in Seq(Chunks) : \A i \in DOMAIN s : s[i] \in Chunks
    OBVIOUS
  <2>3. Absent[1] \in Chunks
    BY <1>1, <2>1, <2>2
  <2>. QED
    BY <2>1, <2>3, ChunksAssumption
<1>2. <<>> \in Seq(Chunks)
  OBVIOUS
<1>3. Junk \in Chunks
  BY ChunksAssumption
<1>. QED
  BY <1>1, <1>2, <1>3

\* A piece shows chunks.
LEMMA ReadIs ==
  ASSUME NEW p, p.len \in Nat, p.from \in Nat, p.ptr \in Addresses, NEW copy \in Seq(Chunks),
         NEW maps, ChunkMaps(maps), NEW dk
  PROVE  Read(p, copy, maps, dk) \in Seq(Chunks)
<1>0. Junk \in Chunks
  BY AbsentIsNone
<1>1. CASE p.ptr[1] = "heap"
  <2>1. p.ptr[2] \in Chunks
    BY <1>1 DEF Addresses
  <2>2. Read(p, copy, maps, dk) = <<p.ptr[2]>>
    BY <1>1 DEF Read
  <2>. QED
    BY <2>1, <2>2
<1>2. CASE p.ptr[1] = "copy"
  <2> DEFINE f == [k \in 1..p.len |-> IF k \in DOMAIN copy THEN copy[k] ELSE Junk]
  <2>1. \A k \in DOMAIN copy : copy[k] \in Chunks
    OBVIOUS
  <2>2. f \in Seq(Chunks)
    BY <1>0, <2>1
  <2>3. Read(p, copy, maps, dk) = f
    BY <1>2 DEF Read
  <2>. QED
    BY <2>2, <2>3
<1>3. CASE p.ptr[1] \notin {"heap", "copy"}
  <2> DEFINE m == p.ptr[2]
             ok == FreshIn(m, maps, dk)
             f == [k \in 1..p.len |-> IF ok /\ p.from + k <= Len(maps[m].content)
                                      THEN maps[m].content[p.from + k] ELSE Junk]
  <2>1. ASSUME ok, NEW k \in 1..p.len, p.from + k <= Len(maps[m].content)
        PROVE  maps[m].content[p.from + k] \in Chunks
    <3>1. maps[m].content \in Seq(Chunks)
      BY <2>1 DEF FreshIn, ChunkMaps
    <3>2. \A s \in Seq(Chunks) : \A i \in 1..Len(s) : s[i] \in Chunks
      OBVIOUS
    <3>3. p.from + k \in 1..Len(maps[m].content)
      BY <2>1, <3>1
    <3>. QED
      BY <3>1, <3>2, <3>3
  <2>2. Read(p, copy, maps, dk) = f
    BY <1>3 DEF Read
  <2> HIDE DEF ok, m
  <2>3. \A k \in 1..p.len : (IF ok /\ p.from + k <= Len(maps[m].content)
                             THEN maps[m].content[p.from + k] ELSE Junk) \in Chunks
    BY <1>0, <2>1
  <2>4. f \in [1..p.len -> Chunks]
    BY <2>3
  <2>5. f \in Seq(Chunks)
    <3> HIDE DEF f
    <3>. QED
      BY <2>4
  <2>. QED
    BY <2>2, <2>5
<1>. QED
  BY <1>1, <1>2, <1>3

\* A steady piece shows the same when only the file target changes and its mapping stays.
LEMMA ReadKept ==
  ASSUME NEW p, NEW target, NEW copy, NEW maps, NEW dk, NEW maps2, NEW dk2,
         ChunkMaps(maps), Steady(p, target, maps, dk), Stays(p, maps, maps2), SameBut(target, dk, dk2)
  PROVE  /\ Steady(p, target, maps2, dk2)
         /\ Read(p, copy, maps2, dk2) = Read(p, copy, maps, dk)
<1>1. CASE p.ptr[1] \in {"heap", "copy"}
  BY <1>1 DEF Steady, Read
<1>2. CASE p.ptr[1] \notin {"heap", "copy"} /\ p.len = 0
  <2>1. 1..p.len = {}
    BY <1>2
  <2>2. \A x, y : Read(p, copy, x, y) = [k \in {} |-> Junk]
    <3>1. ASSUME NEW x, NEW y PROVE Read(p, copy, x, y) = [k \in {} |-> Junk]
      <4> DEFINE f == [k \in 1..p.len |->
                        IF FreshIn(p.ptr[2], x, y) /\ p.from + k <= Len(x[p.ptr[2]].content)
                        THEN x[p.ptr[2]].content[p.from + k] ELSE Junk]
      <4>1. Read(p, copy, x, y) = f
        BY <1>2 DEF Read
      <4>2. f = [k \in {} |-> Junk]
        BY <2>1
      <4>. QED
        BY <4>1, <4>2
    <3>. QED
      BY <3>1
  <2>. QED
    BY <1>2, <2>2 DEF Steady
<1>3. CASE p.ptr[1] \notin {"heap", "copy"} /\ p.len # 0
  <2>1. FreshIn(p.ptr[2], maps, dk) /\ maps[p.ptr[2]].name # target
    BY <1>3 DEF Steady
  <2>2. /\ p.ptr[2] \in DOMAIN maps2 /\ maps2[p.ptr[2]] = maps[p.ptr[2]]
        /\ dk2[maps[p.ptr[2]].name] = dk[maps[p.ptr[2]].name]
    BY <1>3, <2>1 DEF FreshIn, ChunkMaps, Stays, SameBut
  <2>3. FreshIn(p.ptr[2], maps2, dk2)
    BY <2>1, <2>2 DEF FreshIn
  <2>. QED
    BY <1>3, <2>1, <2>2, <2>3 DEF Steady, Read
<1>. QED
  BY <1>1, <1>2, <1>3

\* A copy of what a piece shows serves every piece of the same data that is not longer.
LEMMA ReadCopied ==
  ASSUME NEW p, NEW q, NEW r, NEW copy, NEW maps, NEW dk, NEW m,
         p.ptr = <<"map", m>>, q.ptr = <<"map", m>>, r.ptr = <<"copy", 0>>,
         p.from = 0, q.from = 0,
         p.len \in Nat, q.len \in Nat, r.len = p.len, p.len = 0 \/ q.len >= p.len
  PROVE  Read(r, Read(q, copy, maps, dk), maps, dk) = Read(p, copy, maps, dk)
<1> DEFINE ok == FreshIn(m, maps, dk)
           g(k) == IF ok /\ 0 + k <= Len(maps[m].content) THEN maps[m].content[0 + k] ELSE Junk
           fp == [k \in 1..p.len |-> g(k)]
           fq == [k \in 1..q.len |-> g(k)]
           fr == [k \in 1..r.len |-> IF k \in DOMAIN fq THEN fq[k] ELSE Junk]
<1>1. Read(p, copy, maps, dk) = fp /\ Read(q, copy, maps, dk) = fq
  BY DEF Read
<1>2. Read(r, fq, maps, dk) = fr
  <2> HIDE DEF fq
  <2>. QED
    BY DEF Read
<1> HIDE DEF g
<1>3. fr = fp
  <2>1. \A k \in 1..p.len : k \in 1..q.len
    OBVIOUS
  <2>. QED
    BY <2>1
<1>. QED
  BY <1>1, <1>2, <1>3

-----------------------------------------------------------------------------
(* Only chunks are read and written, and faults are never forgotten. *)

ChunkCall(c) ==
  /\ c.copy \in Seq(Chunks)
  /\ c.before \in Seq(Chunks) \cup {Absent}
  /\ \A k \in DOMAIN c.list : c.list[k].ptr \in Addresses

\* Files, mappings and what is to be saved consist of chunks, and an open stream has a file.
DataInv ==
  /\ ChunkMaps(sys.maps)
  /\ Stored(disk)
  /\ ChunkCall(call)
  /\ call.pc = "write" => disk[call.target] # Absent

\* From s to t no mapping is added but of a file that exists, and no fault is forgotten.
Later(s, t) == (ChunkMaps(s.maps) => ChunkMaps(t.maps)) /\ s.faults \subseteq t.faults

\* read_file maps the file of the object.
LEMMA ReadFileLater ==
  ASSUME NEW s, SysOK(s), NEW x, x.name \in Names, disk[x.name] \in Seq(Chunks),
         NEW r \in ReadFile(s, x)
  PROVE  Later(s, r.sys)
<1> DEFINE fd == LowestFree(s.fds)
           m == LowestFree(DOMAIN s.maps)
           e == [name |-> x.name, content |-> disk[x.name]]
           f == [k \in DOMAIN s.maps \cup {m} |-> IF k = m THEN e ELSE s.maps[k]]
           s1 == [s EXCEPT !.fds = @ \cup {fd}]
           s2 == [s1 EXCEPT !.maps = f]
           L1 == Lose(s1, {<<"fd", fd>>})
           L2 == Lose(s2, {<<"fd", fd>>, <<"map", m>>})
<1>1. r.sys \in {Fault(s, "open"), Fault(L1, "lseek"), Fault(L1, "mmap"), Fault(L2, "madvise"), s2}
  <2>1. s2 = [s1 EXCEPT !.maps = [k \in DOMAIN @ \cup {m} |->
                                    IF k = m THEN [name |-> x.name, content |-> disk[x.name]] ELSE @[k]]]
    BY DEF SysOK, Systems
  <2>. QED
    BY <2>1 DEF ReadFile
<1>2. fd \in Numbers /\ m \in Numbers
  BY LowestIsFree DEF SysOK
<1>3. SysOK(s1) /\ s1.maps = s.maps /\ s1.faults = s.faults
  <2> HIDE DEF fd
  <2>. QED
    BY <1>2, OpenedIs
<1>4. /\ DOMAIN f = DOMAIN s.maps \cup {m} /\ f[m] = e /\ \A k \in DOMAIN s.maps : k # m => f[k] = s.maps[k]
      /\ e.name = x.name /\ e.content = disk[x.name]
  OBVIOUS
<1>5. IsFiniteSet(DOMAIN f) /\ DOMAIN f \subseteq Numbers
  BY <1>2, <1>4, FS_AddElement DEF SysOK
<1> HIDE DEF f, s1, e
<1>6. SysOK(s2) /\ s2.faults = s1.faults /\ s2.maps = f
  BY <1>3, <1>5, RemappedIs
<1> HIDE DEF s2
<1>7. {<<"fd", fd>>} \subseteq Losses /\ {<<"fd", fd>>, <<"map", m>>} \subseteq Losses
  BY <1>2 DEF Losses, Numbers
<1> HIDE DEF fd, m
<1>8. SysOK(L1) /\ L1.maps = s1.maps /\ L1.faults = s1.faults
  BY <1>3, <1>7, LoseIs
<1>9. SysOK(L2) /\ L2.maps = s2.maps /\ L2.faults = s2.faults
  BY <1>6, <1>7, LoseIs
<1> HIDE DEF L1, L2
<1>10. ChunkMaps(s.maps) => ChunkMaps(f)
  BY <1>4 DEF ChunkMaps
<1>11. \A t \in {s, L1, L2} : \A c \in Calls : Fault(t, c).maps = t.maps /\ t.faults \subseteq Fault(t, c).faults
  BY <1>8, <1>9, FaultIs
<1>12. {"open", "lseek", "mmap", "madvise"} \subseteq Calls
  BY DEF Calls
<1>. QED
  BY <1>1, <1>3, <1>6, <1>8, <1>9, <1>10, <1>11, <1>12 DEF Later

\* So does set_constructor_vars, if there is one.
LEMMA SetVarsLater ==
  ASSUME NEW s, SysOK(s), Stored(disk), NEW x \in AnyObject, NEW r \in SetVars(s, x)
  PROVE  Later(s, r.sys)
<1> DEFINE n == IF x.name \in Names /\ disk[x.name] # Absent THEN Len(disk[x.name]) ELSE -1
           y == [x EXCEPT !.data = Null, !.clean = TRUE, !.size = n]
<1>1. r \in IF y.size > 0 THEN ReadFile(s, y) ELSE {[sys |-> s, obj |-> y]}
  BY DEF SetVars
<1>2. y.name = x.name /\ y.size = n
  BY DEF AnyObject
<1> HIDE DEF y
<1>3. CASE y.size > 0
  <2>1. x.name \in Names /\ disk[x.name] # Absent
    BY <1>2, <1>3
  <2>2. disk[x.name] \in Seq(Chunks)
    BY <2>1 DEF Stored
  <2>3. r \in ReadFile(s, y)
    BY <1>1, <1>3
  <2>. QED
    BY <1>2, <2>1, <2>2, <2>3, ReadFileLater
<1>4. CASE ~(y.size > 0)
  <2>1. r.sys = s
    BY <1>1, <1>4
  <2>. QED
    BY <2>1 DEF Later
<1>. QED
  BY <1>3, <1>4

\* clear only removes the mapping of the object.
LEMMA ClearLater ==
  ASSUME Sound(sys, objs), NEW o \in Objects, NEW c \in Clear(o)
  PROVE  /\ Later(sys, c.sys) /\ SysOK(c.sys)
         /\ \A m \in DOMAIN sys.maps : m # objs[o].data =>
              m \in DOMAIN c.sys.maps /\ c.sys.maps[m] = sys.maps[m]
<1> DEFINE D == DOMAIN sys.maps \ {objs[o].data}
           f == [k \in D |-> sys.maps[k]]
           u == [sys EXCEPT !.maps = f]
           v == Unmap(sys, o)
           w == [v EXCEPT !.fds = @ \ {objs[o].fd}]
           t == CloseFd(v, o)
<1>0. SysOK(sys) /\ DOMAIN f = D /\ \A k \in D : f[k] = sys.maps[k]
  BY DEF Sound
<1>1. D \subseteq Numbers /\ IsFiniteSet(D)
  BY <1>0, FS_Subset DEF SysOK
<1>2. u = [sys EXCEPT !.maps = [k \in DOMAIN @ \ {objs[o].data} |-> @[k]]]
  BY <1>0 DEF SysOK, Systems
<1>3. v = IF objs[o].data \in OthersMaps(o) THEN Break(u, "foreign") ELSE u
  BY <1>2 DEF Unmap
<1>4. t = IF objs[o].fd \in OthersFds(o) THEN Break(w, "foreign") ELSE w
  BY DEF CloseFd
<1>5. c.sys \in {sys, Fault(sys, "munmap"), Fault(t, "close"), t}
  BY DEF Clear
<1> HIDE DEF f, u, v, w, t
<1>6. SysOK(u) /\ u.faults = sys.faults /\ u.maps = f
  BY <1>0, <1>1, RemappedIs DEF u
<1>7. "foreign" \in Rules /\ "munmap" \in Calls /\ "close" \in Calls
  BY DEF Rules, Calls
<1>8. SysOK(v) /\ v.faults = sys.faults /\ v.maps = f
  BY <1>3, <1>6, <1>7, BreakIs
<1>9. SysOK(w) /\ w.maps = f /\ w.faults = sys.faults
  BY <1>8, ClosedIs DEF w
<1>10. SysOK(t) /\ t.maps = f /\ t.faults = sys.faults
  BY <1>4, <1>7, <1>9, BreakIs
<1>11. /\ SysOK(Fault(sys, "munmap")) /\ Fault(sys, "munmap").maps = sys.maps
       /\ sys.faults \subseteq Fault(sys, "munmap").faults
  BY <1>0, <1>7, FaultIs
<1>12. /\ SysOK(Fault(t, "close")) /\ Fault(t, "close").maps = f
       /\ sys.faults \subseteq Fault(t, "close").faults
  BY <1>7, <1>10, FaultIs
<1>13. SysOK(c.sys) /\ c.sys.maps \in {sys.maps, f} /\ sys.faults \subseteq c.sys.faults
  BY <1>0, <1>5, <1>10, <1>11, <1>12
<1>14. ChunkMaps(sys.maps) => ChunkMaps(f)
  BY <1>0 DEF ChunkMaps
<1>. QED
  BY <1>0, <1>13, <1>14 DEF Later

\* So does what is left of an object behind it.
LEMMA AbandonLater ==
  ASSUME Sound(sys, objs), NEW o \in Objects, NEW c \in Clear(o)
  PROVE  Later(sys, Abandon(o, c)) /\ SysOK(Abandon(o, c))
<1>1. Later(sys, c.sys) /\ SysOK(c.sys)
  BY ClearLater
<1> DEFINE G == ({c.obj.fd} \cap c.sys.fds) \ OthersFds(o)
           N == ({c.obj.data} \cap DOMAIN c.sys.maps) \ OthersMaps(o)
           what == IF c.obj.clean THEN {} ELSE {<<"fd", k>> : k \in G} \cup {<<"map", k>> : k \in N}
<1>2. G \subseteq Nat /\ N \subseteq Nat
  BY <1>1 DEF SysOK, Systems, Numbers
<1> HIDE DEF G, N
<1>3. what \subseteq Losses
  BY <1>2 DEF Losses
<1>4. Abandon(o, c) = Lose(c.sys, what)
  BY DEF Abandon, G, N
<1> HIDE DEF what
<1>5. SysOK(Lose(c.sys, what)) /\ Lose(c.sys, what).maps = c.sys.maps /\ Lose(c.sys, what).faults = c.sys.faults
  BY <1>1, <1>3, LoseIs
<1>. QED
  BY <1>1, <1>4, <1>5 DEF Later

-----------------------------------------------------------------------------
(* What a save still has to write. *)

\* What the file holds before the first piece.
Base(c) == IF c.trunc \/ c.before = Absent THEN <<>> ELSE c.before

\* The pieces of c shall be P, and F is what they join to.
Planned(c, P, F) ==
  /\ P \in Seq(Seq(Chunks)) /\ Len(P) = Len(c.list)
  /\ JoinedUpTo(Len(P), P, F, Chunks)
  /\ c.want = Base(c) \o F[Len(P)]

\* The file holds d: what it held, or the pieces that are written.
Progress(c, F, d) ==
  /\ c.pc # "idle"
  /\ c.pc \in {"copy", "clear"} => d = c.before
  /\ c.pc = "open" => IF c.next = 1 THEN d = c.before ELSE d = Base(c) \o F[c.next - 1]
  /\ c.pc = "write" => d = Base(c) \o F[c.next - 1]
  /\ c.pc = "reload" => d = c.want
  /\ c.pc = "returned" => (c.ret = 0 => d = c.want) /\ (d = c.before \/ IsPrefix(d, c.want))

Own(c, data, k) == c.list[k].ptr = <<"map", data>> /\ c.list[k].from = 0

\* The piece p does not show the mapping that the object releases.
Apart(p, data) == p.len = 0 \/ p.ptr # <<"map", data>>

\* The copy is not deleted before the save is done with it.
Undeleted(c, data) ==
  c.pc \in {"copy", "clear", "open", "write"} =>
    \A k \in 1..Len(c.list) :
      /\ c.list[k].delete
      /\ c.list[k].ptr[1] = "copy" \/ (c.pc = "copy" /\ Own(c, data, k))
      => Len(c.list) = 1

\* The pieces that are not written yet still show P.
Ready(c, P, maps, dk, data) ==
  \A k \in c.next..Len(c.list) :
    LET p == c.list[k]
    IN  /\ c.pc \in {"copy", "clear", "open", "write"} => Read(p, c.copy, maps, dk) = P[k]
        /\ c.pc \in {"clear", "open", "write"} => Steady(p, c.target, maps, dk)
        /\ c.pc = "clear" => Apart(p, data)
        /\ c.pc = "copy" => p.ptr[1] # "copy"
        /\ c.pc = "copy" =>
             IF Own(c, data, k)
             THEN p.len = 0 \/ \A j \in 1..k : Own(c, data, j) => c.list[j].len >= p.len
             ELSE Steady(p, c.target, maps, dk) /\ Apart(p, data)

Saves(c, maps, dk, data) ==
  \E P, F : /\ Planned(c, P, F)
            /\ Progress(c, F, dk[c.target])
            /\ Ready(c, P, maps, dk, data)
            /\ Undeleted(c, data)

Saving == call.list # <<>> /\ call.safe /\ "write" \notin sys.faults

SaveInv == Saving => Saves(call, sys.maps, disk, objs[call.self].data)

\* What no step of a save changes but the copy of the pieces.
Rest(c, d) ==
  /\ d.trunc = c.trunc /\ d.copy = c.copy /\ d.before = c.before /\ d.want = c.want
  /\ d.safe = c.safe

\* It stays, whether a save returns or goes on.
LEMMA RestIs ==
  ASSUME NEW c, CallShape(c), NEW d, NEW pc, NEW ret,
         Ended(c, ret, d) \/ Moved(c, pc, d) \/ NextPiece(c, pc, d)
  PROVE  Rest(c, d)
<1>1. PICK P, C, B, W, S : c \in AnyCall(P, C, B, W, S)
  BY DEF CallShape
<1>2. CASE Ended(c, ret, d)
  BY <1>1, <1>2 DEF AnyCall, Ended, Rest
<1>3. CASE Moved(c, pc, d)
  BY <1>1, <1>3 DEF AnyCall, Moved, Rest
<1>4. CASE NextPiece(c, pc, d)
  BY <1>1, <1>4 DEF AnyCall, NextPiece, Rest
<1>. QED
  BY <1>2, <1>3, <1>4

\* Where the pieces come from.
LEMMA PieceAddress ==
  ASSUME Sound(sys, objs), NEW p \in Pointers
  PROVE  /\ Piece(p).ptr \in Addresses /\ Piece(p).ptr[1] # "copy"
         /\ Piece(p).len \in Nat /\ Piece(p).from \in Nat
<1>1. CASE p.of = "heap"
  <2>1. p.what \in Chunks
    BY <1>1 DEF Pointers
  <2>2. Piece(p).ptr = <<"heap", p.what>> /\ Piece(p).len = 1 /\ Piece(p).from = 0
    BY <1>1 DEF Piece
  <2>. QED
    BY <2>1, <2>2 DEF Addresses
<1>2. CASE p.of # "heap"
  <2>1. p.of = "object" /\ p.what \in Objects /\ p.len \in Nat /\ p.from \in Nat
    BY <1>2 DEF Pointers
  <2>2. objs[p.what] \in AnyObject
    BY <2>1 DEF Sound
  <2>3. objs[p.what].data \in Int
    BY <2>2 DEF AnyObject, Sizes
  <2> DEFINE data == objs[p.what].data
  <2>4. \/ Piece(p).ptr = <<"map", Null>> /\ Piece(p).len = 0 /\ Piece(p).from = 0
        \/ Piece(p).ptr = <<"map", data>> /\ Piece(p).len = p.len /\ Piece(p).from = p.from
    BY <2>1 DEF Piece
  <2>5. Null \in Int
    BY DEF Null
  <2> HIDE DEF Null, data
  <2>6. data \in Int
    BY <2>3 DEF data
  <2>7. CASE Piece(p).ptr = <<"map", Null>> /\ Piece(p).len = 0 /\ Piece(p).from = 0
    BY <2>5, <2>7 DEF Addresses
  <2>8. CASE Piece(p).ptr = <<"map", data>> /\ Piece(p).len = p.len /\ Piece(p).from = p.from
    BY <2>1, <2>6, <2>8 DEF Addresses
  <2>. QED
    BY <2>4, <2>7, <2>8
<1>. QED
  BY <1>1, <1>2

\* Only a copy is read where the call has it.
LEMMA ReadAnyCopy ==
  ASSUME NEW p, p.ptr[1] # "copy", NEW x, NEW y, NEW maps, NEW dk
  PROVE  Read(p, x, maps, dk) = Read(p, y, maps, dk)
BY DEF Read

\* When a save begins.
LEMMA NewCallSaves ==
  ASSUME IInv, DataInv,
         NEW pc \in {"open", "copy"}, NEW o, pc = "open" => o = NoName, pc = "copy" => o # NoName,
         NEW target \in Names, NEW given \in Lists, NEW mode, NEW reload
  PROVE  LET c == NewCall(pc, o, target, given, mode, reload)
         IN  /\ ChunkCall(c) /\ c.before = disk[target]
             /\ c.safe => Saves(c, sys.maps, disk, objs[o].data)
<1> DEFINE c == NewCall(pc, o, target, given, mode, reload)
           list == [k \in DOMAIN given |-> Piece(given[k])]
           old == IF disk[target] = Absent THEN <<>> ELSE disk[target]
           base == IF mode = "trunc" THEN <<>> ELSE old
           P == [k \in DOMAIN list |-> Bytes(list[k])]
           inside(k) == o # NoName /\ list[k].ptr = <<"map", objs[o].data>>
           own(k) == inside(k) /\ list[k].from = 0
           safe(k) == \/ list[k].ptr[1] = "heap"
                      \/ list[k].len = 0 /\ ~own(k)
                      \/ /\ own(k) /\ (list[k].delete => Len(list) = 1)
                         /\ \A j \in 1..k : own(j) => list[j].len >= list[k].len
                      \/ /\ ~inside(k) /\ ~list[k].delete /\ Fresh(list[k].ptr[2])
                         /\ sys.maps[list[k].ptr[2]].name # target
<1>0. Sound(sys, objs) /\ ChunkMaps(sys.maps) /\ Stored(disk) /\ ChunkCall(call)
  BY DEF IInv, DataInv
<1>1. given \in Seq(Pointers)
  BY ListsAssumption
<1>2. PICK n \in Nat : n = Len(given) /\ DOMAIN given = 1..n
  BY <1>1
<1>3. \A k \in 1..n : given[k] \in Pointers
  BY <1>1, <1>2
<1>4. /\ DOMAIN list = 1..n
      /\ list = [k \in 1..n |-> Piece(given[k])]
      /\ \A k \in 1..n : list[k] = Piece(given[k])
  BY <1>2
<1> HIDE DEF list
<1>5. \A k \in 1..n : list[k].ptr \in Addresses /\ list[k].ptr[1] # "copy"
                   /\ list[k].len \in Nat /\ list[k].from \in Nat
  BY <1>0, <1>3, <1>4, PieceAddress
<1>6. \A k \in 1..n : /\ P[k] = Read(list[k], <<>>, sys.maps, disk)
                      /\ P[k] \in Seq(Chunks)
  <2> TAKE k \in 1..n
  <2>1. P[k] = Read(list[k], Kept, sys.maps, disk)
    BY <1>4, BytesAreRead
  <2>2. Read(list[k], Kept, sys.maps, disk) = Read(list[k], <<>>, sys.maps, disk)
    BY <1>5, ReadAnyCopy
  <2>3. Read(list[k], <<>>, sys.maps, disk) \in Seq(Chunks)
    <3>1. <<>> \in Seq(Chunks)
      OBVIOUS
    <3>. QED
      BY <1>0, <1>5, <3>1, ReadIs
  <2>. QED
    BY <2>1, <2>2, <2>3
<1>7. P \in Seq(Seq(Chunks)) /\ Len(P) = n
  <2> DEFINE T == Seq(Chunks)
  <2>1. P \in [1..n -> T]
    BY <1>4, <1>6
  <2> HIDE DEF T, P
  <2>2. P \in Seq(T) /\ DOMAIN P = 1..n
    BY <2>1
  <2>. QED
    BY <2>2, LenProperties DEF T
<1> HIDE DEF P
<1>8. PICK F : JoinedUpTo(Len(P), P, F, Chunks) /\ FlattenSeq(P) = F[Len(P)]
  BY <1>7, Flattened
<1>9. PICK trunc \in BOOLEAN : trunc = (mode = "trunc")
  OBVIOUS
<1>10. PICK ok \in BOOLEAN : ok = (\A k \in 1..n : safe(k))
  OBVIOUS
<1>11. c = [Idle EXCEPT !.pc = pc, !.self = o, !.target = target,
                        !.trunc = trunc, !.reload = reload, !.list = list,
                        !.before = disk[target], !.safe = ok, !.want = base \o FlattenSeq(P)]
  <2>1. c = [Idle EXCEPT !.pc = pc, !.self = o, !.target = target,
                         !.trunc = (mode = "trunc"), !.reload = reload, !.list = list,
                         !.before = disk[target],
                         !.safe = (\A k \in DOMAIN list : safe(k)),
                         !.want = base \o FlattenSeq(P)]
    BY DEF NewCall, list, P
  <2> HIDE DEF c, safe, base
  <2>. QED
    BY <1>4, <1>9, <1>10, <2>1
<1> HIDE DEF c, safe, base
<1>12. /\ c.pc = pc /\ c.safe = ok /\ c.self = o /\ c.target = target /\ c.trunc = trunc
       /\ c.list = list /\ c.before = disk[target] /\ c.want = base \o FlattenSeq(P)
       /\ c.next = 1 /\ c.copy = <<>>
  BY <1>11 DEF Idle
<1>13. ChunkCall(c)
  <2>1. disk[target] \in Seq(Chunks) \cup {Absent} /\ <<>> \in Seq(Chunks)
    BY <1>0 DEF Stored
  <2>. QED
    BY <1>4, <1>5, <1>12, <2>1 DEF ChunkCall
<1>14. Len(c.list) = n
  <2> DEFINE T == {Piece(given[k]) : k \in 1..n}
  <2>1. list \in [1..n -> T]
    BY <1>4
  <2> HIDE DEF T
  <2>2. list \in Seq(T)
    BY <2>1
  <2>. QED
    BY <1>4, <1>12, <2>2, LenProperties
<1>15. Base(c) = base
  BY <1>9, <1>12 DEF Base, base
<1>16. Planned(c, P, F)
  BY <1>7, <1>8, <1>12, <1>14, <1>15 DEF Planned
<1>17. Progress(c, F, disk[c.target])
  BY <1>12 DEF Progress
<1>18. ASSUME c.safe
       PROVE  Ready(c, P, sys.maps, disk, objs[o].data) /\ Undeleted(c, objs[o].data)
  <2>0. \A j \in 1..n : Own(c, objs[o].data, j) <=> /\ list[j].ptr = <<"map", objs[o].data>>
                                                   /\ list[j].from = 0
    BY <1>12 DEF Own
  <2>a. Len(list) = n
    BY <1>12, <1>14
  <2>b. ASSUME NEW k \in 1..n
        PROVE  /\ Read(list[k], <<>>, sys.maps, disk) = P[k]
               /\ list[k].ptr[1] # "copy"
               /\ pc = "open" => Steady(list[k], target, sys.maps, disk)
               /\ pc = "copy" =>
                    IF Own(c, objs[o].data, k)
                    THEN /\ \A j \in 1..k : Own(c, objs[o].data, j) => list[j].len >= list[k].len
                         /\ list[k].delete => n = 1
                    ELSE Steady(list[k], target, sys.maps, disk) /\ Apart(list[k], objs[o].data)
    <3>1. safe(k)
      BY <1>10, <1>12, <1>18
    <3>3. \A m : Fresh(m) <=> FreshIn(m, sys.maps, disk)
      BY DEF Fresh, FreshIn
    <3>4. Read(list[k], <<>>, sys.maps, disk) = P[k] /\ list[k].ptr[1] # "copy"
      BY <1>5, <1>6
    <3>5. ASSUME pc = "open" PROVE Steady(list[k], target, sys.maps, disk)
      <4>1. o = NoName
        BY <3>5
      <4>. QED
        BY <3>1, <3>3, <4>1 DEF safe, Steady
    <3>6. ASSUME pc = "copy", Own(c, objs[o].data, k)
          PROVE  /\ \A j \in 1..k : Own(c, objs[o].data, j) => list[j].len >= list[k].len
                 /\ list[k].delete => n = 1
      <4>1. /\ o # NoName /\ list[k].ptr = <<"map", objs[o].data>> /\ list[k].from = 0
            /\ 1..k \subseteq 1..n
        BY <2>0, <3>6
      <4>2. list[k].ptr[1] # "heap"
        BY <4>1
      <4>. QED
        BY <2>0, <2>a, <3>1, <4>1, <4>2 DEF safe
    <3>7. ASSUME pc = "copy", ~Own(c, objs[o].data, k)
          PROVE  Steady(list[k], target, sys.maps, disk) /\ Apart(list[k], objs[o].data)
      <4>1. ~(list[k].ptr = <<"map", objs[o].data>> /\ list[k].from = 0) /\ o # NoName
        BY <2>0, <3>7
      <4>2. CASE list[k].ptr[1] = "heap"
        <5>1. list[k].ptr # <<"map", objs[o].data>>
          BY <4>2
        <5>. QED
          BY <4>2, <5>1 DEF Steady, Apart
      <4>3. CASE list[k].ptr[1] # "heap"
        BY <3>1, <3>3, <4>1, <4>3 DEF safe, Steady, Apart
      <4>. QED
        BY <4>2, <4>3
    <3>. QED
      BY <3>4, <3>5, <3>6, <3>7
  <2>c. Ready(c, P, sys.maps, disk, objs[o].data)
    BY <1>12, <1>14, <2>b DEF Ready
  <2>d. Undeleted(c, objs[o].data)
    BY <1>12, <1>14, <2>b DEF Undeleted
  <2>. QED
    BY <2>c, <2>d
<1>19. c.safe => Saves(c, sys.maps, disk, objs[o].data)
  BY <1>16, <1>17, <1>18 DEF Saves
<1>20. ChunkCall(c) /\ c.before = disk[target]
  BY <1>12, <1>13
<1>. QED
  BY <1>19, <1>20 DEF c

-----------------------------------------------------------------------------
(* Every step keeps both. *)

\* The plan of a save does not change.
LEMMA PlannedRest ==
  ASSUME NEW c, NEW d, Rest(c, d), d.list = c.list
  PROVE  /\ ChunkCall(c) => ChunkCall(d)
         /\ \A P, F : Planned(c, P, F) => Planned(d, P, F)
         /\ Base(d) = Base(c)
<1>1. Base(d) = Base(c)
  BY DEF Rest, Base
<1>2. ChunkCall(c) => ChunkCall(d)
  BY DEF Rest, ChunkCall
<1>3. \A P, F : Planned(c, P, F) => Planned(d, P, F)
  BY <1>1 DEF Rest, Planned
<1>. QED
  BY <1>1, <1>2, <1>3

\* What the file holds in the middle of a save is a prefix of what it shall hold.
LEMMA PlannedPrefix ==
  ASSUME NEW c, ChunkCall(c), NEW P, NEW F, Planned(c, P, F)
  PROVE  /\ Base(c) \in Seq(Chunks)
         /\ Len(P) \in Nat /\ F[0] = <<>> /\ Base(c) \o F[0] = Base(c)
         /\ \A i \in 0..Len(P) : /\ F[i] \in Seq(Chunks)
                                 /\ Base(c) \o F[i] \in Seq(Chunks)
                                 /\ IsPrefix(Base(c) \o F[i], c.want)
<1> DEFINE n == Len(P)
<1>1. P \in Seq(Seq(Chunks)) /\ JoinedUpTo(n, P, F, Chunks) /\ c.want = Base(c) \o F[n]
  BY DEF Planned
<1>2. Base(c) \in Seq(Chunks)
  <2>1. <<>> \in Seq(Chunks)
    OBVIOUS
  <2>. QED
    BY <2>1 DEF Base, ChunkCall
<1>3. n \in Nat /\ \A i \in 1..n : P[i] \in Seq(Chunks)
  BY <1>1
<1> HIDE DEF n
<1>4. F \in [0..n -> Seq(Chunks)] /\ F[0] = <<>> /\ \A i \in 1..n : F[i] = F[i - 1] \o P[i]
  BY <1>1 DEF JoinedUpTo
<1>5. ASSUME NEW i \in 0..n
      PROVE  /\ F[i] \in Seq(Chunks) /\ Base(c) \o F[i] \in Seq(Chunks)
             /\ IsPrefix(Base(c) \o F[i], c.want)
  <2>1. F[i] \in Seq(Chunks)
    BY <1>4
  <2>2. Base(c) \o F[i] \in Seq(Chunks)
    BY <1>2, <2>1
  <2>3. IsPrefix(Base(c) \o F[i], Base(c) \o F[n])
    BY <1>1, <1>2, <1>3, JoinedPrefix
  <2>. QED
    BY <1>1, <2>1, <2>2, <2>3
<1>6. Base(c) \o F[0] = Base(c)
  BY <1>2, <1>4, ConcatEmptySeq
<1>. QED
  BY <1>2, <1>3, <1>4, <1>5, <1>6 DEF n

\* d is what the file holds behind the i-th piece.
Behind(c, F, i, d) == d = Base(c) \o F[i]

\* It grows by one piece.
LEMMA PlannedNext ==
  ASSUME NEW c, ChunkCall(c), NEW P, NEW F, Planned(c, P, F), NEW k \in 1..Len(P),
         NEW d, Behind(c, F, k - 1, d)
  PROVE  Behind(c, F, k, d \o P[k])
<1>1. P \in Seq(Seq(Chunks)) /\ JoinedUpTo(Len(P), P, F, Chunks)
  BY DEF Planned
<1>2. Base(c) \in Seq(Chunks)
  BY PlannedPrefix
<1>3. k - 1 \in 0..Len(P) /\ P[k] \in Seq(Chunks)
  BY <1>1
<1>4. F[k - 1] \in Seq(Chunks) /\ F[k] = F[k - 1] \o P[k]
  BY <1>1, <1>3 DEF JoinedUpTo
<1>5. \A x, y, z \in Seq(Chunks) : (x \o y) \o z = x \o (y \o z)
  BY ConcatAssociative
<1>6. (Base(c) \o F[k - 1]) \o P[k] = Base(c) \o (F[k - 1] \o P[k])
  BY <1>2, <1>3, <1>4, <1>5, Zenon
<1>. QED
  BY <1>4, <1>6 DEF Behind

\* Behind a call of one step no save runs.
LEMMA IdleSaved ==
  ASSUME DataInv, Later(sys, sys'), disk' = disk, call' = Idle
  PROVE  DataInv' /\ SaveInv'
<1>1. ChunkCall(Idle) /\ Idle.pc # "write" /\ Idle.list = <<>>
  <2>1. <<>> \in Seq(Chunks)
    OBVIOUS
  <2>. QED
    BY <2>1 DEF Idle, ChunkCall
<1>2. DataInv'
  BY <1>1 DEF DataInv, Later, Stored
<1>3. SaveInv'
  BY <1>1 DEF SaveInv, Saving
<1>. QED
  BY <1>2, <1>3

\* A save that returns.
LEMMA ReturnSaved ==
  ASSUME DataInv, SaveInv, CallShape(call), Later(sys, sys'), Stored(disk'), NEW value \in {0, -1},
         call' = [call EXCEPT !.pc = "returned", !.ret = value],
         Saving /\ "write" \notin sys'.faults =>
           /\ value = 0 => disk'[call.target] = call.want
           /\ disk'[call.target] = call.before \/ IsPrefix(disk'[call.target], call.want)
  PROVE  DataInv' /\ SaveInv'
<1>1. PICK d : d = call'
  OBVIOUS
<1>2. Ended(call, value, d)
  BY <1>1 DEF Ended
<1>3. d.pc = "returned" /\ d.ret = value /\ d.target = call.target /\ d.list = call.list
  BY <1>2, EndedIs
<1>4. Rest(call, d)
  BY <1>2, RestIs
<1>5. DataInv'
  BY <1>1, <1>3, <1>4, PlannedRest DEF DataInv, Later
<1>6. SaveInv'
  <2> SUFFICES ASSUME d.list # <<>>, d.safe, "write" \notin sys'.faults
               PROVE  Saves(d, sys'.maps, disk', objs'[d.self].data)
    BY <1>1 DEF SaveInv, Saving
  <2>1. Saving
    BY <1>3, <1>4 DEF Saving, Rest, Later
  <2>2. PICK P, F : Planned(call, P, F)
    BY <2>1 DEF SaveInv, Saves
  <2>3. Planned(d, P, F)
    BY <1>3, <1>4, <2>2, PlannedRest
  <2>4. Progress(d, F, disk'[d.target])
    BY <1>3, <1>4, <2>1 DEF Progress, Rest
  <2>5. /\ Ready(d, P, sys'.maps, disk', objs'[d.self].data)
        /\ Undeleted(d, objs'[d.self].data)
    BY <1>3 DEF Ready, Undeleted
  <2>. QED
    BY <2>3, <2>4, <2>5 DEF Saves
<1>. QED
  BY <1>5, <1>6

\* The rules of a call are noted without a change of faults or mappings.
LEMMA QuietLater ==
  ASSUME NEW s, SysOK(s)
  PROVE  /\ \A list : LET t == Drop(s, list) IN SysOK(t) /\ t.maps = s.maps /\ t.faults = s.faults
         /\ \A p : LET t == Reading(s, p) IN SysOK(t) /\ t.maps = s.maps /\ t.faults = s.faults
         /\ LET t == Lose(s, {<<"copy", 0>>}) IN SysOK(t) /\ t.maps = s.maps /\ t.faults = s.faults
<1> DEFINE Quiet(t) == SysOK(t) /\ t.maps = s.maps /\ t.faults = s.faults
<1>1. \A what \in Rules : Quiet(Break(s, what))
  BY BreakIs
<1>2. {"delete", "beyond", "stale", "freed"} \subseteq Rules
  BY DEF Rules
<1>3. ASSUME NEW list PROVE Quiet(Drop(s, list))
  BY <1>1, <1>2 DEF Drop
<1>4. ASSUME NEW p PROVE Quiet(Reading(s, p))
  <2>1. \/ Reading(s, p) = s
        \/ \E what \in {"beyond", "stale", "freed"} : Reading(s, p) = Break(s, what)
    BY DEF Reading
  <2>. QED
    BY <1>1, <1>2, <2>1
<1>5. Quiet(Lose(s, {<<"copy", 0>>}))
  <2>1. {<<"copy", 0>>} \subseteq Losses
    BY DEF Losses
  <2>. QED
    BY <2>1, LoseIs
<1>. QED
  BY <1>3, <1>4, <1>5

\* So at the end of a save and behind its first piece.
LEMMA QuietEnd ==
  ASSUME NEW s, SysOK(s)
  PROVE  /\ Released(s).maps = s.maps /\ Released(s).faults = s.faults
         /\ \A p : LET t == Pop(s, p) IN SysOK(t) /\ t.maps = s.maps /\ t.faults = s.faults
<1>1. PICK t : t = IF CopyFreed THEN Break(s, "delete") ELSE s
  OBVIOUS
<1>2. SysOK(t) /\ t.maps = s.maps /\ t.faults = s.faults
  <2>1. "delete" \in Rules
    BY DEF Rules
  <2>. QED
    BY <1>1, <2>1, BreakIs
<1>3. PICK list : Released(s) = Drop(t, list)
  BY <1>1 DEF Released
<1>4. Released(s).maps = s.maps /\ Released(s).faults = s.faults
  BY <1>2, <1>3, QuietLater
<1>5. ASSUME NEW p
      PROVE  LET u == Pop(s, p) IN SysOK(u) /\ u.maps = s.maps /\ u.faults = s.faults
  <2>1. \/ Pop(s, p) = s
        \/ Pop(s, p) = Drop(s, <<p>>)
        \/ Pop(s, p) = Lose(s, {<<"copy", 0>>})
    BY DEF Pop
  <2>. QED
    BY <2>1, QuietLater
<1>. QED
  BY <1>4, <1>5

\* The constructors.
LEMMA ConstructSaved ==
  ASSUME IInv, DataInv, NEW o \in Objects, NEW n \in Names \cup {NoName},
         \E r \in SetVars(sys, [Dead EXCEPT !.live = TRUE, !.name = n]) : sys' = r.sys,
         disk' = disk, call' = Idle
  PROVE  DataInv' /\ SaveInv'
<1> DEFINE x == [Dead EXCEPT !.live = TRUE, !.name = n]
<1>1. x \in AnyObject
  BY DeadIs DEF AnyObject
<1> HIDE DEF x
<1>2. PICK r \in SetVars(sys, x) : sys' = r.sys
  BY DEF x
<1>3. Later(sys, r.sys)
  <2>1. SysOK(sys) /\ Stored(disk)
    BY DEF IInv, Sound, DataInv
  <2>. QED
    BY <1>1, <2>1, SetVarsLater
<1>. QED
  BY <1>2, <1>3, IdleSaved

\* The copy assignment.
LEMMA CopyAssignSaved ==
  ASSUME IInv, DataInv, NEW o \in Objects, NEW p \in Objects, CopyAssign(o, p)
  PROVE  DataInv' /\ SaveInv'
<1>0. Sound(sys, objs) /\ Stored(disk) /\ ChunkMaps(sys.maps) /\ objs[p].name \in Names \cup {NoName}
  BY DEF IInv, DataInv, Sound, AnyObject
<1>1. PICK c \in Clear(o) :
        \E r \in SetVars(Abandon(o, c), [c.obj EXCEPT !.name = objs[p].name]) : sys' = r.sys
  BY DEF CopyAssign
<1>2. PICK ot : Assigned(o, c.obj, objs, ot)
  BY DEF Assigned
<1>3. c.obj \in AnyObject
  BY <1>0, <1>2, ClearSound
<1>4. Later(sys, Abandon(o, c)) /\ SysOK(Abandon(o, c))
  BY <1>0, AbandonLater
<1> DEFINE s == Abandon(o, c)
           x == [c.obj EXCEPT !.name = objs[p].name]
<1>5. x \in AnyObject
  BY <1>0, <1>3 DEF AnyObject
<1>6. PICK r \in SetVars(s, x) : sys' = r.sys
  BY <1>1
<1> HIDE DEF s, x
<1>7. Later(sys, s) /\ SysOK(s)
  BY <1>4 DEF s
<1>8. Later(s, r.sys)
  BY <1>0, <1>5, <1>7, SetVarsLater
<1>9. Later(sys, r.sys)
  BY <1>7, <1>8 DEF Later
<1>10. disk' = disk /\ call' = Idle
  BY DEF CopyAssign, NoSave
<1>. QED
  BY <1>6, <1>9, <1>10, IdleSaved

\* The move assignment and the destructor.
LEMMA AbandonSaved ==
  ASSUME IInv, DataInv, NEW o \in Objects, \E c \in Clear(o) : sys' = Abandon(o, c),
         disk' = disk, call' = Idle
  PROVE  DataInv' /\ SaveInv'
<1>1. PICK c \in Clear(o) : sys' = Abandon(o, c)
  OBVIOUS
<1>2. Later(sys, Abandon(o, c))
  BY AbandonLater DEF IInv
<1>. QED
  BY <1>1, <1>2, IdleSaved

\* A save begins.
LEMMA SaveThirdSaved ==
  ASSUME IInv, DataInv, NEW target \in Names, NEW given \in Lists, NEW mode, SaveThird(target, given, mode)
  PROVE  DataInv' /\ SaveInv'
<1> DEFINE no == FALSE
           c == NewCall("open", NoName, target, given, mode, no)
<1>1. "open" \in Places /\ "returned" \in Places
  BY DEF Places
<1>2. /\ CallShape(c) /\ c.pc = "open" /\ c.self = NoName /\ c.target = target
      /\ Len(c.list) = Len(given) /\ (given = <<>> <=> Len(given) = 0)
  <2>1. NoName \in Objects \cup {NoName} /\ no \in BOOLEAN
    OBVIOUS
  <2> HIDE DEF no
  <2>. QED
    BY <1>1, <2>1, NewCallIs
<1>3. call' = IF given = <<>> THEN [c EXCEPT !.pc = "returned"] ELSE c
  BY DEF SaveThird
<1> HIDE DEF no
<1>4. ChunkCall(c) /\ (c.safe => Saves(c, sys.maps, disk, objs[NoName].data))
  BY NewCallSaves
<1> HIDE DEF c
<1>5. disk' = disk /\ sys' = sys /\ objs' = objs
  BY DEF SaveThird
<1>6. PICK d : d = call'
  OBVIOUS
<1>7. CASE given = <<>>
  <2>1. Moved(c, "returned", d)
    BY <1>3, <1>6, <1>7 DEF Moved
  <2>2. d.pc = "returned" /\ d.list = c.list
    BY <1>1, <1>2, <2>1, MovedIs
  <2>3. ChunkCall(d)
    BY <1>2, <1>4, <2>1, <2>2, RestIs, PlannedRest
  <2>4. d.list = <<>>
    BY <1>2, <1>7, <2>2, CallFields
  <2>. QED
    BY <1>5, <1>6, <2>2, <2>3, <2>4 DEF DataInv, SaveInv, Saving, Stored
<1>8. CASE given # <<>>
  <2>1. d = c
    BY <1>3, <1>6, <1>8
  <2>2. DataInv'
    BY <1>2, <1>4, <1>5, <1>6, <2>1 DEF DataInv, Stored
  <2>3. SaveInv'
    BY <1>2, <1>4, <1>5, <1>6, <2>1 DEF SaveInv, Saving
  <2>. QED
    BY <2>2, <2>3
<1>. QED
  BY <1>7, <1>8

\* save_this_file begins: nothing is written when no stream can be opened so.
LEMMA SaveThisSaved ==
  ASSUME IInv, DataInv, NEW o \in Objects,
         NEW given \in Lists, NEW mode, NEW reload \in BOOLEAN, SaveThis(o, given, mode, reload)
  PROVE  DataInv' /\ SaveInv'
<1> DEFINE name == objs[o].name
           c == NewCall("copy", o, name, given, mode, reload)
<1>1. "copy" \in Places /\ name \in Names /\ o # NoName
  BY NamesAssumption DEF Places, SaveThis
<1>2. call' = IF mode = "in" THEN [c EXCEPT !.pc = "returned", !.ret = -1] ELSE c
  BY DEF SaveThis
<1> HIDE DEF name
<1>3. CallShape(c) /\ c.pc = "copy" /\ c.self = o /\ c.target = name
  BY <1>1, NewCallIs
<1>4. /\ ChunkCall(c) /\ c.before = disk[name]
      /\ c.safe => Saves(c, sys.maps, disk, objs[o].data)
  BY <1>1, NewCallSaves
<1> HIDE DEF c
<1>5. disk' = disk /\ sys' = sys /\ objs' = objs
  BY DEF SaveThis
<1>6. PICK d : d = call'
  OBVIOUS
<1>7. CASE mode = "in"
  <2>1. Ended(c, -1, d)
    BY <1>2, <1>6, <1>7 DEF Ended
  <2>2. d.pc = "returned" /\ d.ret = -1 /\ d.list = c.list /\ d.target = c.target
    BY <1>3, <2>1, EndedIs
  <2>3. Rest(c, d)
    BY <1>3, <2>1, RestIs
  <2>4. DataInv'
    BY <1>4, <1>5, <1>6, <2>2, <2>3, PlannedRest DEF DataInv, Stored
  <2>5. ASSUME d.safe PROVE Saves(d, sys.maps, disk, objs[d.self].data)
    <3>1. PICK P, F : Planned(c, P, F)
      BY <1>4, <2>3, <2>5 DEF Saves, Rest
    <3>2. Planned(d, P, F)
      BY <2>2, <2>3, <3>1, PlannedRest
    <3>3. Progress(d, F, disk[d.target])
      BY <1>3, <1>4, <2>2, <2>3 DEF Progress, Rest
    <3>4. Ready(d, P, sys.maps, disk, objs[d.self].data) /\ Undeleted(d, objs[d.self].data)
      BY <2>2 DEF Ready, Undeleted
    <3>. QED
      BY <3>2, <3>3, <3>4 DEF Saves
  <2>6. SaveInv'
    BY <1>5, <1>6, <2>5 DEF SaveInv, Saving
  <2>. QED
    BY <2>4, <2>6
<1>8. CASE mode # "in"
  <2>1. d = c
    BY <1>2, <1>6, <1>8
  <2>2. DataInv'
    BY <1>3, <1>4, <1>5, <1>6, <2>1 DEF DataInv, Stored
  <2>3. SaveInv'
    BY <1>3, <1>4, <1>5, <1>6, <2>1 DEF SaveInv, Saving
  <2>. QED
    BY <2>2, <2>3
<1>. QED
  BY <1>7, <1>8

\* The object's own data are copied: each of its pieces shows what it showed.
LEMMA CopyOwnSaved ==
  ASSUME IInv, DataInv, SaveInv, CopyOwn
  PROVE  DataInv' /\ SaveInv'
<1> DEFINE x == objs[call.self]
           own == {k \in DOMAIN call.list : /\ call.list[k].ptr = <<"map", x.data>>
                                            /\ call.list[k].from = 0}
           long == {k \in own : call.list[k].len > x.size}
           first == CHOOSE k \in own : \A j \in own : k <= j
           moved == {k \in own : \A j \in long : k < j}
           list == [k \in DOMAIN call.list |->
                     IF k \in moved THEN [call.list[k] EXCEPT !.ptr = <<"copy", 0>>]
                                    ELSE call.list[k]]
           copy == IF own = {} THEN <<>> ELSE Bytes(call.list[first])
<1>1. /\ Sound(sys, objs) /\ CallInv /\ CallShape(call) /\ call.pc = "copy"
      /\ ChunkMaps(sys.maps) /\ Stored(disk) /\ ChunkCall(call) /\ SysOK(sys) /\ call.next = 1
  BY DEF IInv, CallInv, CopyOwn, DataInv, Sound
<1>2. disk' = disk /\ objs' = objs
  BY DEF CopyOwn
<1>3. \/ /\ sys' = Drop(sys, list)
         /\ call' = [call EXCEPT !.pc = "returned", !.ret = -1]
      \/ /\ long = {} /\ sys' = sys
         /\ call' = [call EXCEPT !.pc = "clear", !.list = list, !.given = (own # {}), !.copy = copy]
  BY DEF CopyOwn
<1>4. PICK n \in Nat : n = Len(call.list) /\ DOMAIN call.list = 1..n
  BY <1>1, CallFields
<1>5. CASE sys' = Drop(sys, list) /\ call' = [call EXCEPT !.pc = "returned", !.ret = -1]
  <2> HIDE DEF list
  <2>1. Later(sys, sys')
    BY <1>1, <1>5, QuietLater DEF Later
  <2>2. Saving => disk'[call.target] = call.before
    BY <1>1, <1>2 DEF SaveInv, Saves, Progress
  <2>3. Stored(disk')
    BY <1>1, <1>2
  <2>. QED
    BY <1>1, <1>5, <2>1, <2>2, <2>3, ReturnSaved
<1>6. CASE /\ long = {} /\ sys' = sys
           /\ call' = [call EXCEPT !.pc = "clear", !.list = list, !.given = (own # {}), !.copy = copy]
  <2>1. moved = own
    BY <1>6
  <2>2. \A k \in 1..n : list[k] = IF k \in own THEN [call.list[k] EXCEPT !.ptr = <<"copy", 0>>]
                                               ELSE call.list[k]
    BY <1>4, <2>1
  <2>3. DOMAIN list = 1..n
    BY <1>4
  <2>4. own \subseteq 1..n /\ \A k \in 1..n : k \in own <=> Own(call, x.data, k)
    BY <1>4 DEF Own
  <2>5. own # {} => first \in own /\ \A j \in own : first <= j
    <3> HAVE own # {}
    <3>1. own \subseteq Nat
      BY <2>4
    <3> HIDE DEF own
    <3>2. \E k \in own : \A j \in own : k <= j
      BY <3>1, Least
    <3>. QED
      BY <3>2
  <2>6. copy \in Seq(Chunks)
    <3>1. CASE own = {}
      <4>1. <<>> \in Seq(Chunks)
        OBVIOUS
      <4>. QED
        BY <3>1, <4>1
    <3>2. CASE own # {}
      <4>0. Kept = call.copy
        BY <1>1 DEF Kept, CopyFreed
      <4>1. first \in 1..n
        BY <2>4, <2>5, <3>2
      <4> HIDE DEF first
      <4>2. call.list[first].ptr \in Addresses /\ call.list[first].len \in Nat
            /\ call.list[first].from \in Nat
        BY <1>1, <1>4, <4>1, CallFields DEF ChunkCall
      <4>3. Bytes(call.list[first]) = Read(call.list[first], call.copy, sys.maps, disk)
        BY <4>0, BytesAreRead
      <4>4. Read(call.list[first], call.copy, sys.maps, disk) \in Seq(Chunks)
        BY <1>1, <4>2, ReadIs DEF ChunkCall
      <4>. QED
        BY <3>2, <4>3, <4>4
    <3>. QED
      BY <3>1, <3>2
  <2>7. own # {} => copy = Read(call.list[first], call.copy, sys.maps, disk)
    <3>1. Kept = call.copy
      BY <1>1 DEF Kept, CopyFreed
    <3>. QED
      BY <3>1, BytesAreRead
  <2> HIDE DEF first, copy, list, moved
  <2>8. PICK d : d = call'
    OBVIOUS
  <2>9. /\ d.pc = "clear" /\ d.list = list /\ d.copy = copy /\ d.target = call.target
        /\ d.next = 1 /\ d.self = call.self /\ d.trunc = call.trunc /\ d.before = call.before
        /\ d.want = call.want /\ d.safe = call.safe
    <3>1. PICK P, C, B, W, S : call \in AnyCall(P, C, B, W, S)
      BY <1>1 DEF CallShape
    <3>. QED
      BY <1>1, <1>6, <2>8, <3>1 DEF AnyCall
  <2>10. \A k \in 1..n : \E a : call.list[k] = [ptr |-> a, from |-> call.list[k].from, len |-> call.list[k].len, delete |-> call.list[k].delete]
    <3>1. PICK P, C, B, W, S : call \in AnyCall(P, C, B, W, S)
      BY <1>1 DEF CallShape
    <3>2. call.list \in Seq(Pieces(P))
      BY <3>1 DEF AnyCall
    <3>3. \A k \in 1..n : call.list[k] \in Pieces(P)
      BY <1>4, <3>2
    <3>4. \A q \in Pieces(P) : \E a : q = [ptr |-> a, from |-> q.from, len |-> q.len, delete |-> q.delete]
      BY DEF Pieces
    <3>. QED
      BY <3>3, <3>4
  <2>11. \A k \in own : /\ list[k].ptr = <<"copy", 0>> /\ list[k].len = call.list[k].len
                       /\ list[k].delete = call.list[k].delete
    <3> TAKE k \in own
    <3>1. k \in 1..n /\ list[k] = [call.list[k] EXCEPT !.ptr = <<"copy", 0>>]
      BY <2>2, <2>4
    <3>2. PICK a : call.list[k] = [ptr |-> a, from |-> call.list[k].from, len |-> call.list[k].len, delete |-> call.list[k].delete]
      BY <2>10, <3>1
    <3>. QED
      BY <3>1, <3>2
  <2>12. \A k \in (1..n) \ own : list[k] = call.list[k]
    BY <2>2
  <2>13. ChunkCall(d)
    <3>1. <<"copy", 0>> \in Addresses
      BY DEF Addresses
    <3>2. \A k \in 1..n : list[k].ptr \in Addresses
      BY <1>1, <1>4, <2>11, <2>12, <3>1 DEF ChunkCall
    <3>. QED
      BY <1>1, <2>3, <2>6, <2>9, <3>2 DEF ChunkCall
  <2>14. DataInv'
    BY <1>1, <1>2, <1>6, <2>8, <2>9, <2>13 DEF DataInv
  <2>15. Len(d.list) = n
    <3>1. list = [k \in 1..n |-> list[k]]
      BY <1>4 DEF list
    <3> DEFINE T == {list[k] : k \in 1..n}
    <3>2. \A k \in 1..n : list[k] \in T
      OBVIOUS
    <3> HIDE DEF T
    <3>3. list \in [1..n -> T]
      BY <3>1, <3>2
    <3>4. list \in Seq(T)
      BY <3>3
    <3>. QED
      BY <2>3, <2>9, <3>4, LenProperties
  <2>16. SaveInv'
    <3> SUFFICES ASSUME d.list # <<>>, d.safe, "write" \notin sys.faults
                 PROVE  Saves(d, sys.maps, disk, x.data)
      BY <1>2, <1>6, <2>8, <2>9 DEF SaveInv, Saving
    <3>1. n # 0
      <4>1. d.list = list
        BY <2>9
      <4>2. n = 0 => list = <<>>
        BY <1>4 DEF list
      <4>. QED
        BY <4>1, <4>2
    <3>2. call.list # <<>>
      BY <1>1, <1>4, <3>1, CallFields
    <3>3. Saving
      BY <2>9, <3>2 DEF Saving
    <3>4. PICK P, F : /\ Planned(call, P, F) /\ Progress(call, F, disk[call.target])
                      /\ Ready(call, P, sys.maps, disk, x.data) /\ Undeleted(call, x.data)
      BY <3>3 DEF SaveInv, Saves
    <3>5. Planned(d, P, F)
      <4>1. Base(d) = Base(call)
        BY <2>9 DEF Base
      <4>. QED
        BY <1>4, <2>9, <2>15, <3>4, <4>1 DEF Planned
    <3>6. Progress(d, F, disk[d.target])
      BY <1>1, <2>9, <3>4 DEF Progress
    <3>7. ASSUME NEW k \in 1..n
          PROVE  /\ Read(list[k], copy, sys.maps, disk) = P[k]
                 /\ Steady(list[k], call.target, sys.maps, disk)
                 /\ Apart(list[k], x.data)
      <4>1. /\ Read(call.list[k], call.copy, sys.maps, disk) = P[k]
            /\ call.list[k].ptr[1] # "copy"
            /\ IF Own(call, x.data, k)
               THEN \/ call.list[k].len = 0
                    \/ \A j \in 1..k : Own(call, x.data, j) => call.list[j].len >= call.list[k].len
               ELSE Steady(call.list[k], call.target, sys.maps, disk) /\ Apart(call.list[k], x.data)
        BY <1>1, <1>4, <3>4 DEF Ready
      <4>2. CASE k \in own
        <5>1. first \in own /\ first <= k /\ first \in 1..n
          BY <2>4, <2>5, <4>2
        <5>2. /\ call.list[k].ptr = <<"map", x.data>> /\ call.list[first].ptr = <<"map", x.data>>
              /\ call.list[k].from = 0 /\ call.list[first].from = 0
              /\ list[k].ptr = <<"copy", 0>> /\ list[k].len = call.list[k].len
              /\ call.list[k].len \in Nat /\ call.list[first].len \in Nat
          BY <1>1, <1>4, <2>4, <2>11, <4>2, <5>1, CallFields DEF Own
        <5>3. call.list[k].len = 0 \/ call.list[first].len >= call.list[k].len
          <6>1. first \in 1..k /\ Own(call, x.data, first) /\ Own(call, x.data, k)
            BY <2>4, <4>2, <5>1
          <6>. QED
            BY <4>1, <6>1
        <5>4. Read(list[k], Read(call.list[first], call.copy, sys.maps, disk), sys.maps, disk)
                = Read(call.list[k], call.copy, sys.maps, disk)
          BY <5>2, <5>3, ReadCopied
        <5>5. Read(list[k], copy, sys.maps, disk) = P[k]
          BY <2>7, <4>1, <4>2, <5>4
        <5>6. Steady(list[k], call.target, sys.maps, disk) /\ Apart(list[k], x.data)
          BY <5>2 DEF Steady, Apart
        <5>. QED
          BY <5>5, <5>6
      <4>3. CASE k \notin own
        <5>1. list[k] = call.list[k] /\ ~Own(call, x.data, k)
          BY <2>4, <2>12, <4>3
        <5>2. Read(list[k], copy, sys.maps, disk) = Read(call.list[k], call.copy, sys.maps, disk)
          BY <4>1, <5>1, ReadAnyCopy
        <5>. QED
          BY <4>1, <5>1, <5>2
      <4>. QED
        BY <4>2, <4>3
    <3>8. Ready(d, P, sys.maps, disk, x.data)
      BY <2>9, <2>15, <3>7 DEF Ready
    <3>9. Undeleted(d, x.data)
      <4> SUFFICES ASSUME NEW k \in 1..n, list[k].delete, list[k].ptr[1] = "copy"
                   PROVE  n = 1
        BY <2>9, <2>15 DEF Undeleted
      <4>1. call.list[k].ptr[1] # "copy"
        BY <1>1, <1>4, <3>4 DEF Ready
      <4>2. k \in own
        BY <2>12, <4>1
      <4>3. Own(call, x.data, k) /\ call.list[k].delete
        BY <2>4, <2>11, <4>2
      <4>. QED
        BY <1>1, <1>4, <3>4, <4>3 DEF Undeleted
    <3>. QED
      BY <3>5, <3>6, <3>8, <3>9 DEF Saves
  <2>. QED
    BY <2>14, <2>16
<1>. QED
  BY <1>3, <1>5, <1>6

\* The object releases its file, of which no piece is left.
LEMMA ClearThisSaved ==
  ASSUME IInv, DataInv, SaveInv, ClearThis
  PROVE  DataInv' /\ SaveInv'
<1>1. /\ Sound(sys, objs) /\ CallShape(call) /\ call.pc = "clear" /\ call.self \in Objects
      /\ ChunkMaps(sys.maps) /\ Stored(disk) /\ ChunkCall(call) /\ call.next = 1
  BY DEF IInv, CallInv, ClearThis, DataInv
<1>2. disk' = disk
  BY DEF ClearThis
<1>3. PICK c \in Clear(call.self) :
        /\ objs' = [objs EXCEPT ![call.self] = c.obj]
        /\ IF c.ret = -1 \/ call.list = <<>>
           THEN Return(c.sys, c.ret)
           ELSE sys' = c.sys /\ call' = [call EXCEPT !.pc = "open"]
  BY DEF ClearThis
<1>4. /\ Later(sys, c.sys) /\ SysOK(c.sys)
      /\ \A m \in DOMAIN sys.maps : m # objs[call.self].data =>
           m \in DOMAIN c.sys.maps /\ c.sys.maps[m] = sys.maps[m]
  BY <1>1, ClearLater
<1>5. c.ret \in {0, -1}
  BY DEF Clear
<1>6. CASE c.ret = -1 \/ call.list = <<>>
  <2>1. sys' = Released(c.sys) /\ call' = [call EXCEPT !.pc = "returned", !.ret = c.ret]
    BY <1>3, <1>6 DEF Return
  <2>2. Later(sys, sys')
    BY <1>4, <2>1, QuietEnd DEF Later
  <2>3. Saving => (c.ret = 0 => disk'[call.target] = call.want) /\ disk'[call.target] = call.before
    BY <1>1, <1>2, <1>6 DEF Saving, SaveInv, Saves, Progress
  <2>4. Stored(disk')
    BY <1>1, <1>2
  <2>. QED
    BY <1>1, <1>5, <2>1, <2>2, <2>3, <2>4, ReturnSaved
<1>7. CASE ~(c.ret = -1 \/ call.list = <<>>)
  <2>1. sys' = c.sys /\ call' = [call EXCEPT !.pc = "open"]
    BY <1>3, <1>7
  <2>2. PICK d : d = call'
    OBVIOUS
  <2>3. Moved(call, "open", d) /\ "open" \in Places
    BY <2>1, <2>2 DEF Moved, Places
  <2>4. d.pc = "open" /\ d.target = call.target /\ d.list = call.list /\ d.next = call.next
    BY <1>1, <2>3, MovedIs
  <2>5. Rest(call, d)
    BY <1>1, <2>3, RestIs
  <2>6. DataInv'
    BY <1>1, <1>2, <1>4, <2>1, <2>2, <2>4, <2>5, PlannedRest DEF DataInv, Later
  <2>7. SaveInv'
    <3> SUFFICES ASSUME d.list # <<>>, d.safe, "write" \notin c.sys.faults
                 PROVE  Saves(d, c.sys.maps, disk, objs'[d.self].data)
      BY <1>2, <2>1, <2>2 DEF SaveInv, Saving
    <3>1. Saving
      BY <1>4, <2>4, <2>5 DEF Saving, Rest, Later
    <3>2. PICK P, F : /\ Planned(call, P, F) /\ Progress(call, F, disk[call.target])
                      /\ Ready(call, P, sys.maps, disk, objs[call.self].data)
                      /\ Undeleted(call, objs[call.self].data)
      BY <3>1 DEF SaveInv, Saves
    <3>3. Planned(d, P, F)
      BY <2>4, <2>5, <3>2, PlannedRest
    <3>4. Progress(d, F, disk[d.target])
      BY <1>1, <2>4, <2>5, <3>2 DEF Progress, Rest
    <3>5. ASSUME NEW k \in 1..Len(call.list)
          PROVE  /\ Read(call.list[k], call.copy, c.sys.maps, disk) = P[k]
                 /\ Steady(call.list[k], call.target, c.sys.maps, disk)
      <4> DEFINE p == call.list[k]
      <4>1. /\ Read(p, call.copy, sys.maps, disk) = P[k] /\ Steady(p, call.target, sys.maps, disk)
            /\ Apart(p, objs[call.self].data)
        BY <1>1, <3>2 DEF Ready
      <4>2. p.ptr \in Addresses
        BY <1>1, CallFields DEF ChunkCall
      <4> HIDE DEF p
      <4>3. p.ptr[1] \in {"heap", "copy"} \/ p.len = 0 \/ p.ptr[2] # objs[call.self].data
        BY <4>1, <4>2 DEF Addresses, Apart
      <4>4. Stays(p, sys.maps, c.sys.maps) /\ SameBut(call.target, disk, disk)
        BY <1>4, <4>3 DEF Stays, SameBut
      <4>5. /\ Steady(p, call.target, c.sys.maps, disk)
            /\ Read(p, call.copy, c.sys.maps, disk) = Read(p, call.copy, sys.maps, disk)
        BY <1>1, <4>1, <4>4, ReadKept
      <4>. QED
        BY <4>1, <4>5 DEF p
    <3>6. Ready(d, P, c.sys.maps, disk, objs'[d.self].data)
      BY <1>1, <2>4, <2>5, <3>5 DEF Ready, Rest
    <3>7. Undeleted(d, objs'[d.self].data)
      BY <1>1, <2>4, <3>2 DEF Undeleted
    <3>. QED
      BY <3>3, <3>4, <3>6, <3>7 DEF Saves
  <2>. QED
    BY <2>6, <2>7
<1>. QED
  BY <1>6, <1>7

\* The stream is opened: it truncates for the first piece only.
LEMMA OpenStreamSaved ==
  ASSUME IInv, DataInv, SaveInv, OpenStream
  PROVE  DataInv' /\ SaveInv'
<1>1. /\ CallShape(call) /\ call.pc = "open" /\ SysOK(sys) /\ DOMAIN disk = Names
      /\ ChunkMaps(sys.maps) /\ Stored(disk) /\ ChunkCall(call) /\ call.target \in Names
      /\ call.next \in 1..Len(call.list) /\ call.next \in Nat /\ Len(call.list) \in Nat
  <2>1. CallShape(call)
    BY DEF IInv, CallInv
  <2>. QED
    BY <2>1, CallFields DEF IInv, CallInv, OpenStream, DataInv, Sound, DiskOK
<1>2. ASSUME Saving
      PROVE  \E P, F : /\ Planned(call, P, F)
                       /\ Ready(call, P, sys.maps, disk, objs[call.self].data)
                       /\ Undeleted(call, objs[call.self].data)
                       /\ IF call.next = 1 THEN disk[call.target] = call.before
                          ELSE disk[call.target] = Base(call) \o F[call.next - 1]
                       /\ call.next - 1 \in 0..Len(P)
  <2>1. PICK P, F : /\ Planned(call, P, F) /\ Progress(call, F, disk[call.target])
                    /\ Ready(call, P, sys.maps, disk, objs[call.self].data)
                    /\ Undeleted(call, objs[call.self].data)
    BY <1>2 DEF SaveInv, Saves
  <2>2. call.next - 1 \in 0..Len(P)
    BY <1>1, <2>1 DEF Planned
  <2>. QED
    BY <1>1, <2>1, <2>2 DEF Progress
<1>3. CASE "open" \in Faults /\ Return(Fault(sys, "open"), -1) /\ UNCHANGED disk
  <2>1. /\ sys' = Released(Fault(sys, "open")) /\ disk' = disk
        /\ call' = [call EXCEPT !.pc = "returned", !.ret = -1]
    BY <1>3 DEF Return
  <2>2. "open" \in Calls
    BY DEF Calls
  <2>3. Later(sys, sys')
    <3>1. /\ SysOK(Fault(sys, "open")) /\ Fault(sys, "open").maps = sys.maps
          /\ sys.faults \subseteq Fault(sys, "open").faults
      BY <1>1, <2>2, FaultIs
    <3>. QED
      BY <2>1, <3>1, QuietEnd DEF Later
  <2>4. Saving => disk'[call.target] = call.before \/ IsPrefix(disk'[call.target], call.want)
    <3> HAVE Saving
    <3>1. PICK P, F : /\ Planned(call, P, F)
                      /\ IF call.next = 1 THEN disk[call.target] = call.before
                         ELSE disk[call.target] = Base(call) \o F[call.next - 1]
                      /\ call.next - 1 \in 0..Len(P)
      BY <1>2
    <3>2. IsPrefix(Base(call) \o F[call.next - 1], call.want)
      BY <1>1, <3>1, PlannedPrefix
    <3>. QED
      BY <2>1, <3>1, <3>2
  <2>5. Stored(disk')
    BY <1>1, <2>1
  <2>. QED
    BY <1>1, <2>1, <2>3, <2>4, <2>5, ReturnSaved
<1>4. CASE /\ disk' = [disk EXCEPT ![call.target] =
                        IF @ = Absent \/ (call.trunc /\ call.next = 1) THEN <<>> ELSE @]
           /\ call' = [call EXCEPT !.pc = "write"]
           /\ UNCHANGED sys
  <2>1. PICK dk : dk = disk'
    OBVIOUS
  <2> DEFINE old == disk[call.target]
             new == IF old = Absent \/ (call.trunc /\ call.next = 1) THEN <<>> ELSE old
  <2>2. DOMAIN dk = Names /\ dk[call.target] = new /\ \A n \in Names : n # call.target => dk[n] = disk[n]
    BY <1>1, <1>4, <2>1
  <2>3. old \in Seq(Chunks) \cup {Absent} /\ <<>> \in Seq(Chunks) /\ Absent \notin Seq(Chunks)
    BY <1>1, AbsentIsNone DEF Stored
  <2>4. new \in Seq(Chunks) /\ new # Absent
    BY <2>3
  <2>5. Stored(dk)
    BY <1>1, <2>2, <2>4 DEF Stored
  <2>6. PICK d : d = call'
    OBVIOUS
  <2>7. Moved(call, "write", d) /\ "write" \in Places
    BY <1>4, <2>6 DEF Moved, Places
  <2>8. /\ d.pc = "write" /\ d.target = call.target /\ d.list = call.list /\ d.next = call.next
        /\ d.self = call.self
    BY <1>1, <2>7, MovedIs
  <2>9. Rest(call, d)
    BY <1>1, <2>7, RestIs
  <2>10. DataInv'
    <3>1. ChunkCall(d)
      BY <1>1, <2>8, <2>9, PlannedRest
    <3>. QED
      BY <1>1, <1>4, <2>1, <2>2, <2>4, <2>5, <2>6, <2>8, <3>1 DEF DataInv
  <2>11. SaveInv'
    <3> SUFFICES ASSUME d.list # <<>>, d.safe, "write" \notin sys.faults
                 PROVE  \A data : Saves(d, sys.maps, dk, data)
      BY <1>4, <2>1, <2>6 DEF SaveInv, Saving
    <3> TAKE data
    <3>1. Saving
      BY <2>8, <2>9 DEF Saving, Rest
    <3>2. PICK P, F : /\ Planned(call, P, F)
                      /\ Ready(call, P, sys.maps, disk, objs[call.self].data)
                      /\ Undeleted(call, objs[call.self].data)
                      /\ IF call.next = 1 THEN old = call.before
                         ELSE old = Base(call) \o F[call.next - 1]
                      /\ call.next - 1 \in 0..Len(P)
      BY <1>2, <3>1
    <3>3. Planned(d, P, F) /\ Base(d) = Base(call)
      BY <2>8, <2>9, <3>2, PlannedRest
    <3>4. /\ Base(call) \o F[call.next - 1] \in Seq(Chunks)
          /\ Base(call) \o F[0] = Base(call)
      BY <1>1, <3>2, PlannedPrefix
    <3>5. new = Base(call) \o F[call.next - 1]
      <4>1. CASE call.next = 1
        <5>1. old = call.before /\ call.next - 1 = 0
          BY <3>2, <4>1
        <5>2. new = Base(call)
          BY <4>1, <5>1 DEF Base
        <5>. QED
          BY <3>4, <5>1, <5>2
      <4>2. CASE call.next # 1
        BY <2>3, <3>2, <3>4, <4>2
      <4>. QED
        BY <4>1, <4>2
    <3>6. Progress(d, F, dk[d.target])
      BY <2>2, <2>8, <3>3, <3>5 DEF Progress
    <3>7. ASSUME NEW k \in call.next..Len(call.list)
          PROVE  /\ Read(call.list[k], call.copy, sys.maps, dk) = P[k]
                 /\ Steady(call.list[k], call.target, sys.maps, dk)
      <4>1. /\ Read(call.list[k], call.copy, sys.maps, disk) = P[k]
            /\ Steady(call.list[k], call.target, sys.maps, disk)
        BY <1>1, <3>2 DEF Ready
      <4>2. Stays(call.list[k], sys.maps, sys.maps) /\ SameBut(call.target, disk, dk)
        BY <2>2 DEF Stays, SameBut
      <4>3. /\ Steady(call.list[k], call.target, sys.maps, dk)
            /\ Read(call.list[k], call.copy, sys.maps, dk) = Read(call.list[k], call.copy, sys.maps, disk)
        BY <1>1, <4>1, <4>2, ReadKept
      <4>. QED
        BY <4>1, <4>3
    <3>8. Ready(d, P, sys.maps, dk, data)
      BY <2>8, <2>9, <3>7 DEF Ready, Rest
    <3>9. Undeleted(d, data)
      BY <1>1, <2>8, <3>2 DEF Undeleted
    <3>. QED
      BY <3>3, <3>6, <3>8, <3>9 DEF Saves
  <2>. QED
    BY <2>10, <2>11
<1>. QED
  BY <1>3, <1>4 DEF OpenStream

\* The object opens its file again: that is written whole.
LEMMA ReloadSaved ==
  ASSUME IInv, DataInv, SaveInv, Reload
  PROVE  DataInv' /\ SaveInv'
<1>1. /\ CallShape(call) /\ call.pc = "reload" /\ SysOK(sys) /\ Stored(disk) /\ ChunkCall(call)
      /\ objs[call.self] \in AnyObject /\ ChunkMaps(sys.maps)
  BY DEF IInv, CallInv, Reload, DataInv, Sound
<1> DEFINE value(y) == IF y.size < 0 \/ (y.size > 0 /\ y.clean) THEN -1 ELSE 0
<1>2. PICK r \in SetVars(sys, objs[call.self]) : Return(r.sys, value(r.obj)) /\ disk' = disk
  BY DEF Reload
<1>3. PICK ret \in {0, -1} : ret = value(r.obj)
  OBVIOUS
<1>4. sys' = Released(r.sys) /\ call' = [call EXCEPT !.pc = "returned", !.ret = ret]
  BY <1>2, <1>3 DEF Return
<1>5. Later(sys, r.sys)
  BY <1>1, SetVarsLater
<1>6. SysOK(r.sys)
  <2>1. /\ Sound(sys, objs) /\ DiskOK /\ call.self \in Objects
        /\ objs[call.self].live /\ objs[call.self].clean
    BY <1>1 DEF IInv, CallInv
  <2>2. PICK os : Assigned(call.self, r.obj, objs, os)
    BY DEF Assigned
  <2>3. Sound(r.sys, os)
    BY <1>1, <2>1, <2>2, SetVarsSound
  <2>. QED
    BY <2>3 DEF Sound
<1>7. Later(sys, sys')
  BY <1>4, <1>5, <1>6, QuietEnd DEF Later
<1>8. Saving => /\ disk'[call.target] = call.want
                /\ IsPrefix(disk'[call.target], call.want)
  <2> HAVE Saving
  <2>1. PICK P, F : Planned(call, P, F) /\ Progress(call, F, disk[call.target])
    BY DEF SaveInv, Saves
  <2>2. disk[call.target] = call.want
    BY <1>1, <2>1 DEF Progress
  <2>3. IsPrefix(call.want, call.want)
    <3>1. /\ Len(P) \in Nat /\ call.want = Base(call) \o F[Len(P)]
          /\ \A i \in 0..Len(P) : IsPrefix(Base(call) \o F[i], call.want)
      BY <1>1, <2>1, PlannedPrefix DEF Planned
    <3>2. Len(P) \in 0..Len(P)
      BY <3>1
    <3>. QED
      BY <3>1, <3>2
  <2>. QED
    BY <1>2, <2>2, <2>3
<1>9. Stored(disk')
  BY <1>1, <1>2
<1>. QED
  BY <1>1, <1>4, <1>7, <1>8, <1>9, ReturnSaved

\* A piece is written: the file holds one more of them.
LEMMA WriteStreamSaved ==
  ASSUME IInv, DataInv, SaveInv, WriteStream
  PROVE  DataInv' /\ SaveInv'
<1> DEFINE p == call.list[call.next]
           last == call.next = Len(call.list)
           s == Reading(sys, p)
           old == disk[call.target]
           bytes == Bytes(p)
           n == Len(call.list)
           i == call.next
<1>1. /\ CallShape(call) /\ call.pc = "write" /\ SysOK(sys) /\ DOMAIN disk = Names
      /\ ChunkMaps(sys.maps) /\ Stored(disk) /\ ChunkCall(call) /\ call.target \in Names
      /\ i \in 1..n /\ i \in Nat /\ n \in Nat /\ DOMAIN call.list = 1..n /\ old # Absent
      /\ p.len \in Nat /\ p.from \in Nat
  <2>1. CallShape(call) /\ call.pc = "write"
    BY DEF IInv, CallInv, WriteStream
  <2>2. /\ SysOK(sys) /\ DOMAIN disk = Names /\ call.next \in 1..Len(call.list) /\ call.target \in Names
        /\ ChunkMaps(sys.maps) /\ Stored(disk) /\ ChunkCall(call) /\ disk[call.target] # Absent
    BY <2>1 DEF IInv, CallInv, Sound, DataInv, DiskOK
  <2>. QED
    BY <2>1, <2>2, CallFields
<1>2. bytes = Read(p, Kept, sys.maps, disk) /\ bytes \in Seq(Chunks) /\ old \in Seq(Chunks)
  <2>1. bytes = Read(p, Kept, sys.maps, disk)
    BY BytesAreRead
  <2>2. p.ptr \in Addresses
    BY <1>1 DEF ChunkCall
  <2>3. Read(p, Kept, sys.maps, disk) \in Seq(Chunks)
    <3>1. <<>> \in Seq(Chunks) /\ call.copy \in Seq(Chunks)
      BY <1>1 DEF ChunkCall
    <3>2. Kept \in Seq(Chunks)
      BY <3>1 DEF Kept
    <3>. QED
      BY <1>1, <2>2, <3>2, ReadIs
  <2>4. old \in Seq(Chunks)
    BY <1>1 DEF Stored
  <2>. QED
    BY <2>1, <2>3, <2>4
<1>3. \/ p.ptr = <<"map", Null>> /\ Return(sys, -1) /\ UNCHANGED disk
      \/ \E done \in BOOLEAN :
           LET t == IF done THEN s ELSE Fault(s, "write")
               u == IF call.next = 1 THEN Pop(t, p) ELSE t
           IN /\ disk' = [disk EXCEPT ![call.target] = IF done THEN @ \o bytes ELSE @]
              /\ \/ /\ last /\ call.next = 1
                    /\ sys' = u /\ call' = [call EXCEPT !.pc = "returned", !.ret = 0]
                 \/ last /\ call.next > 1 /\ ~call.reload /\ Return(u, 0)
                 \/ /\ ~last \/ (call.next > 1 /\ call.reload)
                    /\ sys' = u
                    /\ call' = [call EXCEPT !.next = @ + 1,
                                  !.pc = IF last THEN "reload" ELSE "open"]
  BY DEF WriteStream
<1>4. SysOK(s) /\ s.maps = sys.maps /\ s.faults = sys.faults
  BY <1>1, QuietLater
<1> HIDE DEF s, bytes
<1>5. ASSUME Saving
      PROVE  \E P, F : /\ Planned(call, P, F)
                       /\ Ready(call, P, sys.maps, disk, objs[call.self].data)
                       /\ Undeleted(call, objs[call.self].data)
                       /\ old = Base(call) \o F[i - 1]
                       /\ old \o bytes = Base(call) \o F[i]
                       /\ i \in 0..Len(P) /\ i - 1 \in 0..Len(P) /\ Len(P) = n
                       /\ call.want = Base(call) \o F[n]
                       /\ IsPrefix(old, call.want) /\ IsPrefix(old \o bytes, call.want)
  <2>1. PICK P, F : /\ Planned(call, P, F) /\ Progress(call, F, disk[call.target])
                    /\ Ready(call, P, sys.maps, disk, objs[call.self].data)
                    /\ Undeleted(call, objs[call.self].data)
    BY <1>5 DEF SaveInv, Saves
  <2>2. Len(P) = n /\ i \in 0..Len(P) /\ i - 1 \in 0..Len(P) /\ i \in 1..Len(P) /\ i \in i..n
    BY <1>1, <2>1 DEF Planned
  <2>3. old = Base(call) \o F[i - 1]
    BY <1>1, <2>1 DEF Progress
  <2>4. bytes = P[i]
    <3>1. ~CopyFreed
      <4> SUFFICES ASSUME CopyFreed PROVE FALSE
        OBVIOUS
      <4>1. /\ i > 1 /\ 1 \in 1..n /\ call.list[1].delete /\ call.list[1].ptr[1] = "copy"
        BY <1>1 DEF CopyFreed
      <4>2. n = 1
        BY <1>1, <2>1, <4>1 DEF Undeleted
      <4>. QED
        BY <1>1, <4>1, <4>2
    <3>2. Read(p, call.copy, sys.maps, disk) = P[i]
      BY <1>1, <2>1, <2>2 DEF Ready
    <3>. QED
      BY <1>2, <3>1, <3>2 DEF Kept
  <2>5. old \o bytes = Base(call) \o F[i]
    <3>1. ChunkCall(call) /\ Planned(call, P, F) /\ i \in 1..Len(P)
      BY <1>1, <2>1, <2>2
    <3>2. Behind(call, F, i - 1, old)
      BY <2>3 DEF Behind
    <3>3. Behind(call, F, i, old \o P[i])
      BY <3>1, <3>2, PlannedNext
    <3>. QED
      BY <2>4, <3>3 DEF Behind
  <2>6. IsPrefix(Base(call) \o F[i], call.want) /\ IsPrefix(Base(call) \o F[i - 1], call.want)
    BY <1>1, <2>1, <2>2, PlannedPrefix
  <2>7. call.want = Base(call) \o F[n]
    BY <2>1, <2>2 DEF Planned
  <2>. QED
    BY <2>1, <2>2, <2>3, <2>4, <2>5, <2>6, <2>7
<1>6. CASE p.ptr = <<"map", Null>> /\ Return(sys, -1) /\ UNCHANGED disk
  <2>1. /\ sys' = Released(sys) /\ disk' = disk
        /\ call' = [call EXCEPT !.pc = "returned", !.ret = -1]
    BY <1>6 DEF Return
  <2>2. Later(sys, sys')
    BY <1>1, <2>1, QuietEnd DEF Later
  <2>3. Saving => IsPrefix(disk'[call.target], call.want)
    BY <1>5, <2>1
  <2>4. Stored(disk')
    BY <1>1, <2>1
  <2>. QED
    BY <1>1, <2>1, <2>2, <2>3, <2>4, ReturnSaved
<1>7. ASSUME NEW done \in BOOLEAN,
             disk' = [disk EXCEPT ![call.target] = IF done THEN @ \o bytes ELSE @],
             NEW t, t = (IF done THEN s ELSE Fault(s, "write")),
             NEW u, u = (IF call.next = 1 THEN Pop(t, p) ELSE t),
             \/ /\ last /\ call.next = 1
                /\ sys' = u /\ call' = [call EXCEPT !.pc = "returned", !.ret = 0]
             \/ last /\ call.next > 1 /\ ~call.reload /\ Return(u, 0)
             \/ /\ ~last \/ (call.next > 1 /\ call.reload)
                /\ sys' = u
                /\ call' = [call EXCEPT !.next = @ + 1,
                              !.pc = IF last THEN "reload" ELSE "open"]
      PROVE  DataInv' /\ SaveInv'
  <2>1. /\ SysOK(u) /\ u.maps = sys.maps /\ sys.faults \subseteq u.faults
        /\ ~done => "write" \in u.faults
    <3>1. "write" \in Calls
      BY DEF Calls
    <3>2. /\ SysOK(Fault(s, "write")) /\ Fault(s, "write").maps = s.maps
          /\ Fault(s, "write").faults = s.faults \cup {"write"}
      BY <1>4, <3>1, FaultIs
    <3>3. /\ SysOK(t) /\ t.maps = sys.maps /\ sys.faults \subseteq t.faults
          /\ ~done => "write" \in t.faults
      BY <1>4, <1>7, <3>2
    <3>4. SysOK(u) /\ u.maps = t.maps /\ u.faults = t.faults
      BY <1>7, <3>3, QuietEnd
    <3>. QED
      BY <3>3, <3>4
  <2>2. PICK dk : dk = disk'
    OBVIOUS
  <2> DEFINE new == IF done THEN old \o bytes ELSE old
  <2>3. DOMAIN dk = Names /\ dk[call.target] = new /\ \A m \in Names : m # call.target => dk[m] = disk[m]
    BY <1>1, <1>7, <2>2
  <2>4. new \in Seq(Chunks)
    BY <1>2
  <2>5. Stored(dk)
    BY <1>1, <2>3, <2>4 DEF Stored
  <2> HIDE DEF new
  <2>6. CASE last /\ (call.next = 1 \/ ~call.reload)
    <3>0. ~(~last \/ (call.next > 1 /\ call.reload))
      <4>1. call.next = 1 => ~(call.next > 1)
        OBVIOUS
      <4> HIDE DEF last
      <4>. QED
        BY <2>6, <4>1, Zenon
    <3>1. /\ sys' = u \/ sys' = Released(u)
          /\ call' = [call EXCEPT !.pc = "returned", !.ret = 0]
      <4>1. \/ sys' = u /\ call' = [call EXCEPT !.pc = "returned", !.ret = 0]
            \/ Return(u, 0)
        BY <1>7, <3>0
      <4>. QED
        BY <4>1 DEF Return
    <3>2. sys'.maps = u.maps /\ sys'.faults = u.faults
      BY <2>1, <3>1, QuietEnd
    <3>3. Later(sys, sys')
      BY <2>1, <3>1, <3>2 DEF Later
    <3>4. ASSUME Saving, "write" \notin sys'.faults
          PROVE  disk'[call.target] = call.want /\ IsPrefix(disk'[call.target], call.want)
      <4>1. done
        BY <2>1, <3>1, <3>2, <3>4
      <4>2. disk'[call.target] = old \o bytes
        BY <2>2, <2>3, <4>1 DEF new
      <4>3. PICK F : /\ old \o bytes = Base(call) \o F[i]
                     /\ call.want = Base(call) \o F[n] /\ IsPrefix(old \o bytes, call.want)
        BY <1>5, <3>4
      <4>. QED
        BY <2>6, <4>2, <4>3
    <3>5. Stored(disk')
      BY <2>2, <2>5
    <3>. QED
      BY <1>1, <3>1, <3>3, <3>4, <3>5, ReturnSaved
  <2>7. CASE ~last \/ (call.next > 1 /\ call.reload)
    <3>1. /\ sys' = u
          /\ call' = [call EXCEPT !.next = @ + 1, !.pc = IF last THEN "reload" ELSE "open"]
      BY <1>7, <2>7
    <3>2. "reload" \in Places /\ "open" \in Places
      BY DEF Places
    <3>3. PICK pc \in Places : /\ pc = IF last THEN "reload" ELSE "open"
                               /\ call' = [call EXCEPT !.next = @ + 1, !.pc = pc]
      <4>1. CASE last
        <5>1. call' = [call EXCEPT !.next = @ + 1, !.pc = "reload"]
          BY <3>1, <4>1
        <5>. QED
          BY <3>2, <4>1, <5>1
      <4>2. CASE ~last
        <5>1. call' = [call EXCEPT !.next = @ + 1, !.pc = "open"]
          BY <3>1, <4>2
        <5>. QED
          BY <3>2, <4>2, <5>1
      <4>. QED
        BY <4>1, <4>2
    <3>4. PICK d : d = call'
      OBVIOUS
    <3>5. NextPiece(call, pc, d)
      BY <3>3, <3>4 DEF NextPiece
    <3>6. d.pc = pc /\ d.target = call.target /\ d.list = call.list /\ d.next = i + 1
      BY <1>1, <3>5, NextPieceIs
    <3>7. Rest(call, d)
      BY <1>1, <3>5, RestIs
    <3>8. DataInv'
      <4>1. ChunkCall(d) /\ d.pc # "write"
        BY <1>1, <3>3, <3>6, <3>7, PlannedRest
      <4>. QED
        BY <1>1, <2>1, <2>2, <2>5, <3>1, <3>4, <4>1 DEF DataInv
    <3>9. SaveInv'
      <4> SUFFICES ASSUME d.list # <<>>, d.safe, "write" \notin u.faults
                   PROVE  \A data : Saves(d, u.maps, dk, data)
        BY <2>2, <3>1, <3>4 DEF SaveInv, Saving
      <4> TAKE data
      <4>1. Saving /\ done
        BY <2>1, <3>6, <3>7 DEF Saving, Rest
      <4>2. PICK P, F : /\ Planned(call, P, F)
                        /\ Ready(call, P, sys.maps, disk, objs[call.self].data)
                        /\ Undeleted(call, objs[call.self].data)
                        /\ old \o bytes = Base(call) \o F[i] /\ Len(P) = n
                        /\ call.want = Base(call) \o F[n]
        BY <1>5, <4>1
      <4>3. Planned(d, P, F) /\ Base(d) = Base(call)
        BY <3>6, <3>7, <4>2, PlannedRest
      <4>4. dk[call.target] = Base(call) \o F[i] /\ d.want = call.want
        BY <2>3, <3>7, <4>1, <4>2 DEF new, Rest
      <4>5. (i + 1) - 1 = i /\ i + 1 # 1
        BY <1>1
      <4>6. Progress(d, F, dk[d.target])
        BY <3>3, <3>6, <4>2, <4>3, <4>4, <4>5 DEF Progress
      <4>7. ASSUME NEW k \in (i + 1)..n
            PROVE  /\ Read(call.list[k], call.copy, u.maps, dk) = P[k]
                   /\ Steady(call.list[k], call.target, u.maps, dk)
        <5>1. k \in i..n
          BY <1>1
        <5>2. /\ Read(call.list[k], call.copy, sys.maps, disk) = P[k]
              /\ Steady(call.list[k], call.target, sys.maps, disk)
          BY <1>1, <4>2, <5>1 DEF Ready
        <5>3. Stays(call.list[k], sys.maps, sys.maps) /\ SameBut(call.target, disk, dk)
          BY <2>3 DEF Stays, SameBut
        <5>4. /\ Steady(call.list[k], call.target, sys.maps, dk)
              /\ Read(call.list[k], call.copy, sys.maps, dk) = Read(call.list[k], call.copy, sys.maps, disk)
          BY <1>1, <5>2, <5>3, ReadKept
        <5>. QED
          BY <2>1, <5>2, <5>4
      <4>8. Ready(d, P, u.maps, dk, data)
        BY <3>3, <3>6, <3>7, <4>7 DEF Ready, Rest
      <4>9. Undeleted(d, data)
        BY <1>1, <3>3, <3>6, <4>2 DEF Undeleted
      <4>. QED
        BY <4>3, <4>6, <4>8, <4>9 DEF Saves
    <3>. QED
      BY <3>8, <3>9
  <2>. QED
    BY <1>1, <2>6, <2>7
<1>. QED
  BY <1>3, <1>6, <1>7

\* At first no save runs.
LEMMA InitSaved == Init => DataInv /\ SaveInv
<1> SUFFICES ASSUME Init PROVE DataInv /\ SaveInv
  OBVIOUS
<1>1. ChunkCall(Idle) /\ Idle.pc = "idle" /\ Idle.list = <<>>
  <2>1. <<>> \in Seq(Chunks)
    OBVIOUS
  <2>. QED
    BY <2>1 DEF Idle, ChunkCall
<1>2. Stored(disk)
  BY DisksAssumption DEF Init, Stored
<1>3. ChunkMaps(sys.maps)
  BY DEF Init, ChunkMaps
<1>4. call = Idle
  BY DEF Init
<1>. QED
  BY <1>1, <1>2, <1>3, <1>4 DEF DataInv, SaveInv, Saving

\* Every action keeps both.
LEMMA NextSaved == IInv /\ DataInv /\ SaveInv /\ [Next]_vars => DataInv' /\ SaveInv'
<1> SUFFICES ASSUME IInv, DataInv, SaveInv, [Next]_vars PROVE DataInv' /\ SaveInv'
  OBVIOUS
<1>1. ASSUME NEW o \in Objects, NEW n \in Names, Construct(o, n) PROVE DataInv' /\ SaveInv'
  <2>1. n \in Names \cup {NoName}
    OBVIOUS
  <2>. QED
    BY <1>1, <2>1, ConstructSaved DEF Construct, NoSave
<1>2. ASSUME NEW o \in Objects, NEW p \in Objects, CopyConstruct(o, p) PROVE DataInv' /\ SaveInv'
  <2>1. objs[p].name \in Names \cup {NoName}
    BY DEF IInv, Sound, AnyObject
  <2>. QED
    BY <1>2, <2>1, ConstructSaved DEF CopyConstruct, NoSave
<1>3. ASSUME NEW o \in Objects, NEW p \in Objects, MoveConstruct(o, p) PROVE DataInv' /\ SaveInv'
  <2>1. Later(sys, sys') /\ disk' = disk /\ call' = Idle
    BY <1>3 DEF MoveConstruct, NoSave, Later
  <2>. QED
    BY <2>1, IdleSaved
<1>4. ASSUME NEW o \in Objects, NEW p \in Objects, CopyAssign(o, p) PROVE DataInv' /\ SaveInv'
  BY <1>4, CopyAssignSaved
<1>5. ASSUME NEW o \in Objects, NEW p \in Objects, MoveAssign(o, p) PROVE DataInv' /\ SaveInv'
  <2>1. (\E c \in Clear(o) : sys' = Abandon(o, c)) /\ disk' = disk /\ call' = Idle
    BY <1>5 DEF MoveAssign, NoSave
  <2>. QED
    BY <2>1, AbandonSaved
<1>6. ASSUME NEW o \in Objects, Destroy(o) PROVE DataInv' /\ SaveInv'
  <2>1. (\E c \in Clear(o) : sys' = Abandon(o, c)) /\ disk' = disk /\ call' = Idle
    BY <1>6 DEF Destroy, NoSave
  <2>. QED
    BY <2>1, AbandonSaved
<1>7. ASSUME NEW o \in Objects, NEW given \in Lists, NEW mode \in Modes, NEW reload \in BOOLEAN,
             SaveThis(o, given, mode, reload)
      PROVE  DataInv' /\ SaveInv'
  BY <1>7, SaveThisSaved
<1>8. ASSUME NEW n \in Names, NEW given \in Lists, NEW mode \in Modes, SaveThird(n, given, mode)
      PROVE  DataInv' /\ SaveInv'
  BY <1>8, SaveThirdSaved
<1>9. CASE CopyOwn
  BY <1>9, CopyOwnSaved
<1>10. CASE ClearThis
  BY <1>10, ClearThisSaved
<1>11. CASE OpenStream
  BY <1>11, OpenStreamSaved
<1>12. CASE WriteStream
  BY <1>12, WriteStreamSaved
<1>13. CASE Reload
  BY <1>13, ReloadSaved
<1>14. CASE UNCHANGED vars
  <2>1. disk' = disk /\ sys' = sys /\ objs' = objs /\ call' = call
    BY <1>14 DEF vars
  <2>. QED
    BY <2>1 DEF DataInv, SaveInv, Saving
<1>. QED
  BY <1>1, <1>2, <1>3, <1>4, <1>5, <1>6, <1>7, <1>8, <1>9, <1>10, <1>11, <1>12, <1>13, <1>14 DEF Next

\* While a save runs, the file holds what it held or the first of its pieces, and the
\* others still show what they showed when it began.  (save_third_file, save_this_file)
THEOREM SavedInvariance == Spec => [](DataInv /\ SaveInv)
<1>1. Init => DataInv /\ SaveInv
  BY InitSaved
<1>2. IInv /\ (DataInv /\ SaveInv) /\ [Next]_vars => (DataInv /\ SaveInv)'
  BY NextSaved
<1>. QED
  BY <1>1, <1>2, Invariance, PTL DEF Spec

\* A save that returns 0, was safe and met no failing write has left its pieces in the file,
\* in order, behind what was there if it appends.  A save is safe for any list of pieces of
\* the heap, of null pieces, of pieces from the front of the object's own data that are not
\* longer than the first of them and not to be deleted (unless alone), and of the data that
\* another object has of another file.
\* (save_third_file, save_this_file, write_file)
THEOREM SavedWholeAlways == Spec => []SavedWhole
<1>1. ASSUME DataInv /\ SaveInv PROVE SavedWhole
  <2> SUFFICES ASSUME Returned, call.ret = 0, call.safe, "write" \notin sys.faults
               PROVE  disk[call.target] = call.want
    BY DEF SavedWhole
  <2>1. Saving /\ call.pc = "returned"
    BY DEF Saving, Returned
  <2>. QED
    BY <1>1, <2>1 DEF SaveInv, Saves, Progress
<1>. QED
  BY <1>1, SavedInvariance, PTL

\* At every moment of a safe save, so wherever it fails or the process ends, the file is as before
\* or a prefix of what it should become.  (the order of truncation, clear and writes in
\* save_third_file, save_this_file and write_file)
THEOREM SavedInOrderAlways == Spec => []SavedInOrder
<1>1. ASSUME IInv /\ (DataInv /\ SaveInv) PROVE SavedInOrder
  <2> SUFFICES ASSUME Saving
               PROVE  disk[call.target] = call.before \/ IsPrefix(disk[call.target], call.want)
    BY DEF SavedInOrder, Saving
  <2>1. PICK P, F : Planned(call, P, F) /\ Progress(call, F, disk[call.target])
    BY <1>1 DEF SaveInv, Saves
  <2>2. CallShape(call) /\ ChunkCall(call) /\ call.next \in 1..(Len(call.list) + 1)
    BY <1>1 DEF IInv, CallInv, DataInv
  <2>3. call.pc \in Places /\ call.next \in Nat /\ Len(call.list) \in Nat /\ Len(P) = Len(call.list)
    BY <2>1, <2>2, CallFields DEF Planned
  <2>4. \A i \in 0..Len(P) : IsPrefix(Base(call) \o F[i], call.want)
    BY <2>1, <2>2, PlannedPrefix
  <2>5. call.next - 1 \in 0..Len(P) /\ Len(P) \in 0..Len(P)
    BY <2>2, <2>3
  <2>6. IsPrefix(call.want, call.want)
    BY <2>1, <2>4, <2>5 DEF Planned
  <2>7. call.pc # "idle"
    BY <2>1 DEF Progress
  <2>. QED
    BY <2>1, <2>3, <2>4, <2>5, <2>6, <2>7 DEF Progress, Places
<1>. QED
  BY <1>1, Invariance, SavedInvariance, PTL
=============================================================================
