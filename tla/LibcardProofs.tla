--------------------------- MODULE LibcardProofs ---------------------------
(***************************************************************************)
(* Theorems about Libcard for any number of cards, handles, descriptors    *)
(* and faults, and any length of a request.                                *)
(***************************************************************************)
EXTENDS Libcard, FiniteSetTheorems, FunctionTheorems, TLAPS

-----------------------------------------------------------------------------
(* Counting, and what the operators on lists give                          *)

\* Two sets with a bijection between them have the same size.
LEMMA CountImage ==
  ASSUME NEW S, IsFiniteSet(S), NEW T, NEW F \in [S -> T],
         \A a, b \in S : F[a] = F[b] => a = b,
         \A t \in T : \E s \in S : F[s] = t
  PROVE  IsFiniteSet(T) /\ Cardinality(T) = Cardinality(S)
<1>1. F \in Bijection(S, T)
  BY Fun_IsBij
<1>2. ExistsBijection(S, T)
  BY <1>1, Fun_ExistsBij
<1>3. QED BY <1>2, FS_Bijection

LEMMA CountRange ==
  ASSUME NEW n \in Nat
  PROVE  IsFiniteSet(1..n) /\ Cardinality(1..n) = n /\ IsFiniteSet(0..n-1) /\ Cardinality(0..n-1) = n
<1>1. /\ IsFiniteSet(1..n) /\ Cardinality(1..n) = IF 1 > n THEN 0 ELSE n - 1 + 1
      /\ IsFiniteSet(0..n-1) /\ Cardinality(0..n-1) = IF 0 > n-1 THEN 0 ELSE n-1 - 0 + 1
  BY FS_Interval
<1>2. QED BY <1>1

\* The numbers of a set below n
Below(S, n) == {m \in S : m < n}

\* A finite set of numbers has a k-th smallest one.
LEMMA NthExists ==
  ASSUME NEW S \in SUBSET Nat, IsFiniteSet(S), NEW k \in 1..Cardinality(S)
  PROVE  \E n \in S : Cardinality(Below(S, n)) = k-1
<1> DEFINE N == Cardinality(S)
           rank == [n \in S |-> Cardinality(Below(S, n))]
<1>1. N \in Nat
  BY FS_CardinalityType
<1>2. ASSUME NEW n \in S
      PROVE  IsFiniteSet(Below(S, n)) /\ Cardinality(Below(S, n)) \in 0..N-1
  <2>1. Below(S, n) \in SUBSET S /\ n \notin Below(S, n)
    BY DEF Below
  <2>2. /\ IsFiniteSet(Below(S, n)) /\ Cardinality(Below(S, n)) <= N
        /\ N = Cardinality(Below(S, n)) => S = Below(S, n)
    BY <2>1, FS_Subset
  <2>3. Cardinality(Below(S, n)) \in Nat
    BY <2>2, FS_CardinalityType
  <2>4. QED BY <1>1, <2>1, <2>2, <2>3
<1>3. ASSUME NEW m \in S, NEW n \in S, m < n
      PROVE  Cardinality(Below(S, m)) # Cardinality(Below(S, n))
  <2> m \in Nat /\ n \in Nat
    OBVIOUS
  <2>3. m \in Below(S, n) /\ m \notin Below(S, m)
    BY <1>3 DEF Below
  <2>4. \A x \in S : x \in Nat /\ (x < m => x < n)
    BY <1>3
  <2>1. Below(S, m) \in SUBSET Below(S, n) /\ m \in Below(S, n) /\ m \notin Below(S, m)
    BY <2>3, <2>4 DEF Below
  <2>2. Cardinality(Below(S, n)) = Cardinality(Below(S, m)) => Below(S, n) = Below(S, m)
    BY <1>2, <2>1, FS_Subset
  <2>5. QED BY <2>1, <2>2
<1>4. rank \in [S -> 0..N-1]
  BY <1>2
<1>5. \A a, b \in S : rank[a] = rank[b] => a = b
  <2>1. \A a, b \in S : a < b \/ b < a \/ a = b
    OBVIOUS
  <2>2. QED BY <1>3, <2>1
<1> HIDE DEF rank
<1>6. rank \in Injection(S, 0..N-1)
  BY <1>4, <1>5, Fun_IsInj
<1>7. rank \in Surjection(S, 0..N-1)
  BY <1>1, <1>6, CountRange, FS_Injection
<1>8. k-1 \in 0..N-1
  BY <1>1
<1>9. \A t \in 0..N-1 : \E n \in S : rank[n] = t
  BY <1>7 DEF Surjection
<1>10. QED BY <1>8, <1>9 DEF rank

\* Nth goes over the set, once.
LEMMA NthEnumerates ==
  ASSUME NEW S \in SUBSET Nat, IsFiniteSet(S)
  PROVE  /\ Cardinality(S) \in Nat
         /\ \A k \in 1..Cardinality(S) : Nth(S, k) \in S
         /\ \A j, k \in 1..Cardinality(S) : Nth(S, j) = Nth(S, k) => j = k
         /\ \A n \in S : \E k \in 1..Cardinality(S) : Nth(S, k) = n
<1> DEFINE N == Cardinality(S)
           nth == [k \in 1..N |-> Nth(S, k)]
<1>1. N \in Nat
  BY FS_CardinalityType
<1>2. ASSUME NEW k \in 1..N
      PROVE  Nth(S, k) \in S /\ Cardinality(Below(S, Nth(S, k))) = k-1
  BY NthExists DEF Nth, Below
<1>3. ASSUME NEW j \in 1..N, NEW k \in 1..N, Nth(S, j) = Nth(S, k)
      PROVE  j = k
  <2>1. j-1 = k-1
    BY <1>2, <1>3
  <2>2. QED BY <1>1, <2>1
<1>4. nth \in Injection(1..N, S)
  BY <1>2, <1>3, Fun_IsInj
<1>5. nth \in Surjection(1..N, S)
  BY <1>1, <1>4, CountRange, FS_Injection
<1> HIDE DEF nth
<1>6. \A n \in S : \E k \in 1..N : nth[k] = n
  BY <1>5 DEF Surjection
<1>7. \A n \in S : \E k \in 1..N : Nth(S, k) = n
  BY <1>6 DEF nth
<1>8. QED BY <1>1, <1>2, <1>3, <1>7

\* Kept is a list of what stood at the positions that stay, and has nothing twice if
\* the list had nothing twice.
LEMMA KeptType ==
  ASSUME NEW T, NEW list \in Seq(T), NEW keep \in SUBSET (DOMAIN list)
  PROVE  /\ IsFiniteSet(keep) /\ Cardinality(keep) \in Nat
         /\ Kept(list, keep) \in Seq(T) /\ Len(Kept(list, keep)) = Cardinality(keep)
         /\ \A k \in DOMAIN Kept(list, keep) : \E i \in keep : Kept(list, keep)[k] = list[i]
         /\ \A i \in keep : \E k \in DOMAIN Kept(list, keep) : Kept(list, keep)[k] = list[i]
         /\ \A j, k \in DOMAIN Kept(list, keep) : j # k =>
              \E a, b \in keep : a # b /\ Kept(list, keep)[j] = list[a] /\ Kept(list, keep)[k] = list[b]
<1> DEFINE N == Cardinality(keep)
<1>1. Len(list) \in Nat /\ DOMAIN list = 1..Len(list) /\ \A i \in 1..Len(list) : list[i] \in T
  OBVIOUS
<1>2. keep \in SUBSET Nat
  BY <1>1
<1>3. IsFiniteSet(keep)
  BY <1>1, FS_Subset, CountRange
<1>4. /\ N \in Nat
      /\ \A k \in 1..N : Nth(keep, k) \in keep
      /\ \A j, k \in 1..N : Nth(keep, j) = Nth(keep, k) => j = k
      /\ \A n \in keep : \E k \in 1..N : Nth(keep, k) = n
  BY <1>2, <1>3, NthEnumerates
<1>5. Kept(list, keep) = [k \in 1..N |-> list[Nth(keep, k)]]
  BY DEF Kept
<1> HIDE DEF N
<1>6. Kept(list, keep) \in Seq(T) /\ Len(Kept(list, keep)) = N /\ DOMAIN Kept(list, keep) = 1..N
  BY <1>1, <1>4, <1>5
<1>7. \A k \in 1..N : Kept(list, keep)[k] = list[Nth(keep, k)]
  BY <1>5
<1>8. \A i \in keep : \E k \in 1..N : Kept(list, keep)[k] = list[i]
  BY <1>4, <1>7
<1>9. \A j, k \in 1..N : j # k =>
        \E a, b \in keep : a # b /\ Kept(list, keep)[j] = list[a] /\ Kept(list, keep)[k] = list[b]
  BY <1>4, <1>7
<1>10. \A k \in 1..N : \E i \in keep : Kept(list, keep)[k] = list[i]
  BY <1>4, <1>7
<1>11. /\ \A k \in DOMAIN Kept(list, keep) : \E i \in keep : Kept(list, keep)[k] = list[i]
       /\ \A i \in keep : \E k \in DOMAIN Kept(list, keep) : Kept(list, keep)[k] = list[i]
       /\ \A j, k \in DOMAIN Kept(list, keep) : j # k =>
            \E a, b \in keep : a # b /\ Kept(list, keep)[j] = list[a] /\ Kept(list, keep)[k] = list[b]
  <2>1. PICK K : K = Kept(list, keep)
    OBVIOUS
  <2>2. PICK D : D = 1..N
    OBVIOUS
  <2>3. DOMAIN K = D
    BY <1>6, <2>1, <2>2
  <2>4. /\ \A k \in D : \E i \in keep : K[k] = list[i]
        /\ \A i \in keep : \E k \in D : K[k] = list[i]
        /\ \A j, k \in D : j # k => \E a, b \in keep : a # b /\ K[j] = list[a] /\ K[k] = list[b]
    <3>1. \A k \in D : \E i \in keep : K[k] = list[i]
      BY <1>10, <2>1, <2>2
    <3>2. \A i \in keep : \E k \in D : K[k] = list[i]
      BY <1>8, <2>1, <2>2
    <3>3. \A j, k \in D : j # k => \E a, b \in keep : a # b /\ K[j] = list[a] /\ K[k] = list[b]
      BY <1>9, <2>1, <2>2
    <3>4. QED BY <3>1, <3>2, <3>3
  <2>5. QED BY <2>1, <2>3, <2>4
<1>12. N = Cardinality(keep)
  BY DEF N
<1>13. QED BY <1>3, <1>4, <1>6, <1>11, <1>12, Zenon

LEMMA KeptHas ==
  ASSUME NEW T, NEW list \in Seq(T), NEW keep \in SUBSET (DOMAIN list), NEW i \in keep,
         NEW W, W = Kept(list, keep)
  PROVE  \E k \in DOMAIN W : W[k] = list[i]
BY KeptType

-----------------------------------------------------------------------------
(* The inductive invariant                                                 *)

Nodes == [fd : Fds, card : Cards]
Files == [card : Cards \cup {None}, live : BOOLEAN]
Fd == Fds \cup {INVALID_FD}

\* TypeOK without the ranges of the counters, which follow from what they count.
Types ==
  /\ hw \in [Cards -> {"used", "bad", "gone"}]
  /\ file \in [Fds -> Files]
  /\ attrib \subseteq Cards /\ faults \in 0..MaxFaults
  /\ fd_list \in Seq(Nodes)
  /\ genwqe_state \in [Cards -> {"CARD_OPEN", "CARD_CLOSED"}]
  /\ inotify_card \in Cards \cup {None}
  /\ dev_state \in [Handles -> {"none", "have_fd", "req_close", "freed"}]
  /\ card_no \in [Handles -> Cards \cup {"redundant", None}]
  /\ fd_s \in [Handles -> Fd] /\ m_fd_ptr \in [Handles -> Fd] /\ fd \in [Handles -> Fd]
  /\ pc \in [Handles -> {"idle", "ioctl"}]
  /\ cmd \in [Handles -> 1..Chain+1]
  /\ exiting \in {"no", "marked", "done"}

\* What was executed is what comes before the DDCB that is executed, which is one of the chain.
Executed == [n \in 1..Chain+1 |-> [i \in 1..n-1 |-> i]]
Calls ==
  /\ ran = [h \in Handles |-> Executed[cmd[h]]]
  /\ \A h \in Handles : pc[h] = "ioctl" => cmd[h] <= Chain

\* Every node has a descriptor of its own, open on its card.
Fits(list, files) ==
  /\ \A i, j \in DOMAIN list : list[i].fd = list[j].fd => i = j
  /\ \A i \in DOMAIN list : files[list[i].fd].card = list[i].card

\* Single handles that have a descriptor
Singles == {h \in SDevs : fd_s[h] # INVALID_FD}

\* Every open file is that of one node or of one single handle.
SinglesOwn ==
  /\ \A h \in Singles : /\ card_no[h] \in Cards /\ file[fd_s[h]].card = card_no[h]
                        /\ fd_s[h] \notin ListFds(fd_list)
  /\ \A g, h \in Singles : fd_s[g] = fd_s[h] => g = h
AllOwned ==
  \A f \in Fds : file[f] # NoFile =>
    f \in ListFds(fd_list) \/ \E h \in Singles : fd_s[h] = f
Counted == fd_m_count = Len(fd_list) /\ fd_s_count = Cardinality(Singles)

\* Without redundant handles there is no list, and from the destructor on no handle
\* is kept open.
ListHeld == fd_list # <<>> => MDevs # {}
ExitHolds == exiting # "no" => \A h \in Handles : dev_state[h] # "have_fd"

\* What the list, the files and the handles have to do with each other
Shared == /\ Fits(fd_list, file) /\ SinglesOwn /\ AllOwned /\ Counted
          /\ CursorInList /\ OpenCardListed /\ ListHeld

IInv == Types /\ Calls /\ Shared /\ ExitHolds

-----------------------------------------------------------------------------
(* The operations on the list                                              *)

\* The sets of the model are finite.
LEMMA FreeFinite ==
  /\ FreeFds \in SUBSET Nat /\ FreeFds \subseteq Fds /\ IsFiniteSet(FreeFds)
  /\ Cardinality(FreeFds) \in Nat
<1>1. FreeFds \in SUBSET Fds /\ FreeFds \in SUBSET Nat
  BY FdAssumption DEF FreeFds
<1>2. IsFiniteSet(FreeFds)
  BY <1>1, FdAssumption, FS_Subset
<1>3. QED BY <1>1, <1>2, FS_CardinalityType

\* FreeFd gives descriptors that are not in use, each once.
LEMMA FreeFdGives ==
  /\ \A k \in 1..Cardinality(FreeFds) : FreeFd(k) \in Fds /\ file[FreeFd(k)] = NoFile
  /\ \A j, k \in 1..Cardinality(FreeFds) : FreeFd(j) = FreeFd(k) => j = k
<1>1. /\ \A k \in 1..Cardinality(FreeFds) : Nth(FreeFds, k) \in FreeFds
      /\ \A j, k \in 1..Cardinality(FreeFds) : Nth(FreeFds, j) = Nth(FreeFds, k) => j = k
  BY FreeFinite, NthEnumerates
<1>2. QED BY <1>1 DEF FreeFd, FreeFds

\* What __m_open_add does with n cards that can be opened.
Added(good, n) == [k \in 1..n |-> Node(FreeFd(k), good[k])]
Longer(good, n) == fd_list \o Added(good, n)
FileOf(good, n, f) == good[CHOOSE k \in 1..n : FreeFd(k) = f]
AddedFiles(good, n) == [f \in Fds |-> IF \E k \in 1..n : FreeFd(k) = f
                                      THEN [card |-> FileOf(good, n, f), live |-> TRUE] ELSE file[f]]

LEMMA OpenAddIs ==
  ASSUME NEW cs \in Seq(Cards), IsInjective(cs)
  PROVE  \E good \in Seq(Cards), n \in Nat :
           /\ n <= Len(good) /\ n <= Cardinality(FreeFds)
           /\ \A j, k \in DOMAIN good : good[j] = good[k] => j = k
           /\ OpenAdd(cs) = [list |-> Longer(good, n), opened |-> {good[k] : k \in 1..n},
                             files |-> AddedFiles(good, n),
                             ptr |-> IF fd_list = <<>> THEN HeadAll(m_fd_ptr, Longer(good, n)) ELSE m_fd_ptr]
<1> DEFINE keep == {i \in DOMAIN cs : Opens(cs[i])}
           good == Kept(cs, keep)
           n == IF Len(good) <= Cardinality(FreeFds) THEN Len(good) ELSE Cardinality(FreeFds)
<1>1. keep \in SUBSET (DOMAIN cs)
  OBVIOUS
<1> HIDE DEF keep
<1>2. /\ good \in Seq(Cards)
      /\ \A j, k \in DOMAIN good : j # k => \E a, b \in keep : a # b /\ good[j] = cs[a] /\ good[k] = cs[b]
  BY <1>1, KeptType
<1>3. \A j, k \in DOMAIN good : good[j] = good[k] => j = k
  BY <1>1, <1>2 DEF IsInjective
<1>4. n \in Nat /\ n <= Len(good) /\ n <= Cardinality(FreeFds)
  BY <1>2, FreeFinite
<1>5. OpenAdd(cs) = [list |-> Longer(good, n), opened |-> {good[k] : k \in 1..n},
                     files |-> AddedFiles(good, n),
                     ptr |-> IF fd_list = <<>> THEN HeadAll(m_fd_ptr, Longer(good, n)) ELSE m_fd_ptr]
  BY Zenon DEF keep, OpenAdd, Longer, Added, AddedFiles, FileOf
<1> HIDE DEF good, n
<1>6. QED BY <1>2, <1>3, <1>4, <1>5

LEMMA LongerGives ==
  ASSUME Types, NEW good \in Seq(Cards), NEW n \in Nat,
         n <= Len(good), n <= Cardinality(FreeFds)
  PROVE  /\ Longer(good, n) \in Seq(Nodes) /\ Len(Longer(good, n)) = Len(fd_list) + n
         /\ \A i \in 1..Len(fd_list) : Longer(good, n)[i] = fd_list[i]
         /\ \A k \in 1..n : Longer(good, n)[Len(fd_list) + k] = Node(FreeFd(k), good[k])
<1>1. \A k \in 1..n : k \in 1..Len(good) /\ k \in 1..Cardinality(FreeFds)
  BY FreeFinite
<1>2. \A k \in 1..n : Node(FreeFd(k), good[k]) \in Nodes
  BY <1>1, FreeFdGives DEF Node, Nodes
<1>3. Added(good, n) = [k \in 1..n |-> Node(FreeFd(k), good[k])]
  BY DEF Added
<1>4. Added(good, n) \in Seq(Nodes) /\ Len(Added(good, n)) = n
  BY <1>2, <1>3
<1>5. fd_list \in Seq(Nodes)
  BY DEF Types
<1> HIDE DEF Nodes
<1>6. QED BY <1>3, <1>4, <1>5 DEF Longer

LEMMA AddedFilesGives ==
  ASSUME Types, NEW good \in Seq(Cards), NEW n \in Nat,
         n <= Len(good), n <= Cardinality(FreeFds)
  PROVE  /\ AddedFiles(good, n) \in [Fds -> Files]
         /\ \A k \in 1..n : /\ FreeFd(k) \in Fds /\ file[FreeFd(k)] = NoFile
                            /\ AddedFiles(good, n)[FreeFd(k)].card = good[k]
         /\ \A f \in Fds : file[f] # NoFile => AddedFiles(good, n)[f] = file[f]
         /\ \A f \in Fds : AddedFiles(good, n)[f] # NoFile =>
              file[f] # NoFile \/ \E k \in 1..n : FreeFd(k) = f
<1>1. \A k \in 1..n : k \in 1..Len(good) /\ k \in 1..Cardinality(FreeFds)
  BY FreeFinite
<1>2. \A k \in 1..n : FreeFd(k) \in Fds /\ file[FreeFd(k)] = NoFile
  BY <1>1, FreeFdGives
<1>3. \A k \in 1..n : FileOf(good, n, FreeFd(k)) = good[k]
  BY <1>1, FreeFdGives DEF FileOf
<1>4. \A f \in Fds : (\E k \in 1..n : FreeFd(k) = f) => FileOf(good, n, f) \in Cards
  BY <1>1, <1>3
<1>5. file \in [Fds -> Files]
  BY DEF Types
<1>6. \A f \in Fds : AddedFiles(good, n)[f] \in Files
  BY <1>4, <1>5 DEF AddedFiles, Files
<1>7. AddedFiles(good, n) \in [Fds -> Files]
  BY <1>6 DEF AddedFiles
<1>8. \A k \in 1..n : AddedFiles(good, n)[FreeFd(k)].card = good[k]
  BY <1>2, <1>3 DEF AddedFiles
<1>9. \A f \in Fds : file[f] # NoFile => AddedFiles(good, n)[f] = file[f]
  BY <1>2 DEF AddedFiles
<1>10. \A f \in Fds : AddedFiles(good, n)[f] # NoFile =>
         file[f] # NoFile \/ \E k \in 1..n : FreeFd(k) = f
  BY DEF AddedFiles
<1>11. QED BY <1>2, <1>7, <1>8, <1>9, <1>10

\* What holds of the list, the files and the pointers after __m_open_add.
ListGrown(m) ==
  /\ m.list \in Seq(Nodes)
  /\ \A i \in DOMAIN fd_list : i \in DOMAIN m.list /\ m.list[i] = fd_list[i]
  /\ ListFds(fd_list) \subseteq ListFds(m.list)
  /\ \A f \in ListFds(m.list) : f \in ListFds(fd_list) \/ f \in FreeFds
  /\ Fits(m.list, m.files)
FilesGrown(m) ==
  /\ m.files \in [Fds -> Files]
  /\ \A f \in Fds : file[f] # NoFile => m.files[f] = file[f]
  /\ \A f \in Fds : m.files[f] # NoFile => file[f] # NoFile \/ f \in ListFds(m.list)
OpenedGrown(m) ==
  /\ m.opened \subseteq Cards /\ IsFiniteSet(m.opened) /\ Cardinality(m.opened) \in Nat
  /\ Len(m.list) = Len(fd_list) + Cardinality(m.opened)
  /\ \A c \in m.opened : \E i \in DOMAIN m.list : m.list[i].card = c
PointersGood(ptr, list) ==
  /\ ptr \in [Handles -> Fd]
  /\ \A h \in MDevs : /\ ptr[h] \in ListFds(list) \cup {INVALID_FD}
                      /\ dev_state[h] = "have_fd" /\ list # <<>> => ptr[h] # INVALID_FD

LEMMA Head0Gives ==
  ASSUME NEW list \in Seq(Nodes)
  PROVE  /\ list # <<>> => Head0(list) \in ListFds(list) /\ Head0(list) # INVALID_FD
         /\ Head0(list) \in ListFds(list) \cup {INVALID_FD} /\ Head0(list) \in Fd
         /\ ListFds(list) \subseteq Fds
<1>1. \A i \in DOMAIN list : list[i] \in Nodes
  OBVIOUS
<1>2. ListFds(list) \subseteq Fds
  BY <1>1 DEF ListFds, Nodes
<1>3. list # <<>> => 1 \in DOMAIN list
  OBVIOUS
<1>4. list # <<>> => Head0(list) \in ListFds(list)
  BY <1>3 DEF Head0, ListFds
<1>5. INVALID_FD \notin Fds
  BY FdAssumption DEF INVALID_FD
<1>6. list = <<>> => Head0(list) = INVALID_FD
  BY DEF Head0
<1>7. QED BY <1>2, <1>4, <1>5, <1>6 DEF Fd

LEMMA HeadAllGood ==
  ASSUME Types, NEW list \in Seq(Nodes), NEW ptr \in [Handles -> Fd]
  PROVE  PointersGood(HeadAll(ptr, list), list)
<1>1. MDevs \subseteq Handles
  BY DEF MDevs
<1>2. HeadAll(ptr, list) \in [Handles -> Fd]
  BY Head0Gives DEF HeadAll
<1>3. \A h \in MDevs : HeadAll(ptr, list)[h] = Head0(list)
  BY <1>1 DEF HeadAll
<1>4. QED BY <1>2, <1>3, Head0Gives DEF PointersGood

\* __m_open_add of cards that are all different.
LEMMA OpenAddGives ==
  ASSUME Types, Fits(fd_list, file), CursorInList, NEW cs \in Seq(Cards), IsInjective(cs),
         NEW m, m = OpenAdd(cs)
  PROVE  ListGrown(m) /\ FilesGrown(m) /\ OpenedGrown(m) /\ PointersGood(m.ptr, m.list)
<1>1. PICK good \in Seq(Cards), n \in Nat :
        /\ n <= Len(good) /\ n <= Cardinality(FreeFds)
        /\ \A j, k \in DOMAIN good : good[j] = good[k] => j = k
        /\ m = [list |-> Longer(good, n), opened |-> {good[k] : k \in 1..n},
                files |-> AddedFiles(good, n),
                ptr |-> IF fd_list = <<>> THEN HeadAll(m_fd_ptr, Longer(good, n)) ELSE m_fd_ptr]
  BY OpenAddIs
<1> DEFINE L == Len(fd_list)
<1>2. /\ m.list \in Seq(Nodes) /\ Len(m.list) = L + n
      /\ \A i \in 1..L : m.list[i] = fd_list[i]
      /\ \A k \in 1..n : m.list[L + k] = Node(FreeFd(k), good[k])
  BY <1>1, LongerGives
<1>3. fd_list \in Seq(Nodes) /\ L \in Nat /\ DOMAIN fd_list = 1..L /\ DOMAIN m.list = 1..L+n
  BY <1>2 DEF Types
<1>4. /\ m.files \in [Fds -> Files]
      /\ \A k \in 1..n : FreeFd(k) \in Fds /\ file[FreeFd(k)] = NoFile /\ m.files[FreeFd(k)].card = good[k]
      /\ \A f \in Fds : file[f] # NoFile => m.files[f] = file[f]
      /\ \A f \in Fds : m.files[f] # NoFile => file[f] # NoFile \/ \E k \in 1..n : FreeFd(k) = f
  BY <1>1, AddedFilesGives
<1>5. \A i \in 1..L+n : i \in 1..L \/ \E k \in 1..n : i = L + k
  <2>1. SUFFICES ASSUME NEW i \in 1..L+n, i \notin 1..L
                 PROVE  \E k \in 1..n : i = L + k
    OBVIOUS
  <2>2. i - L \in 1..n /\ i = L + (i - L)
    BY <1>3, <2>1
  <2>3. QED BY <2>2
<1>6. \A k \in 1..n : L + k \in 1..L+n
  BY <1>3
<1>7. \A i \in 1..L : i \in 1..L+n
  BY <1>3
<1>8. \A i \in 1..L : fd_list[i] \in Nodes
  BY <1>3
<1>9. \A i \in 1..L : fd_list[i].fd \in Fds /\ file[fd_list[i].fd].card = fd_list[i].card
                      /\ file[fd_list[i].fd] # NoFile
  BY <1>3, <1>8, CardAssumption DEF Fits, Nodes, NoFile
<1> HIDE DEF L
<1>10. \A k \in 1..n : Node(FreeFd(k), good[k]).fd = FreeFd(k) /\ Node(FreeFd(k), good[k]).card = good[k]
  BY DEF Node
<1>11. \A k \in 1..n : m.list[L + k].fd = FreeFd(k) /\ m.list[L + k].card = good[k]
  BY <1>2, <1>10
<1>12. ListGrown(m)
  <2>1. \A i, j \in 1..L+n : m.list[i].fd = m.list[j].fd => i = j
    <3>1. SUFFICES ASSUME NEW i \in 1..L+n, NEW j \in 1..L+n, m.list[i].fd = m.list[j].fd
                   PROVE  i = j
      OBVIOUS
    <3>2. CASE i \in 1..L /\ j \in 1..L
      BY <1>2, <1>3, <3>1, <3>2 DEF Fits
    <3>3. CASE i \in 1..L /\ j \notin 1..L
      BY <1>2, <1>4, <1>5, <1>9, <1>11, <3>1, <3>3
    <3>4. CASE i \notin 1..L /\ j \in 1..L
      BY <1>2, <1>4, <1>5, <1>9, <1>11, <3>1, <3>4
    <3>5. CASE i \notin 1..L /\ j \notin 1..L
      <4>1. PICK k \in 1..n : i = L + k
        BY <1>5, <3>5
      <4>2. PICK l \in 1..n : j = L + l
        BY <1>5, <3>5
      <4>3. FreeFd(k) = FreeFd(l)
        BY <1>11, <3>1, <4>1, <4>2
      <4>4. k \in 1..Cardinality(FreeFds) /\ l \in 1..Cardinality(FreeFds)
        BY <1>1, FreeFinite
      <4>5. QED BY <4>1, <4>2, <4>3, <4>4, FreeFdGives
    <3>6. QED BY <3>2, <3>3, <3>4, <3>5
  <2>2. \A i \in 1..L+n : m.files[m.list[i].fd].card = m.list[i].card
    BY <1>2, <1>4, <1>5, <1>9, <1>11
  <2>3. Fits(m.list, m.files)
    BY <1>3, <2>1, <2>2 DEF Fits
  <2>4. ListFds(fd_list) \subseteq ListFds(m.list)
    BY <1>2, <1>3, <1>7 DEF ListFds
  <2>5. \A f \in ListFds(m.list) : f \in ListFds(fd_list) \/ f \in FreeFds
    <3>1. SUFFICES ASSUME NEW i \in 1..L+n
                   PROVE  m.list[i].fd \in ListFds(fd_list) \/ m.list[i].fd \in FreeFds
      BY <1>3 DEF ListFds
    <3>2. i \in 1..L => m.list[i].fd \in ListFds(fd_list)
      BY <1>2, <1>3 DEF ListFds
    <3>3. i \notin 1..L => m.list[i].fd \in FreeFds
      BY <1>4, <1>5, <1>11 DEF FreeFds
    <3>4. QED BY <3>2, <3>3
  <2>6. QED BY <1>2, <1>3, <1>7, <2>3, <2>4, <2>5 DEF ListGrown
<1>13. FilesGrown(m)
  <2>1. \A k \in 1..n : FreeFd(k) \in ListFds(m.list)
    BY <1>3, <1>6, <1>11 DEF ListFds
  <2>2. QED BY <1>4, <2>1 DEF FilesGrown
<1>14. OpenedGrown(m)
  <2>1. m.opened = {good[k] : k \in 1..n}
    BY <1>1
  <2>2. \A k \in 1..n : k \in DOMAIN good /\ good[k] \in Cards
    BY <1>1
  <2>3. IsFiniteSet(m.opened) /\ Cardinality(m.opened) = n
    <3>1. PICK S, T, F : S = 1..n /\ T = m.opened /\ F = [k \in S |-> good[k]]
      OBVIOUS
    <3>2. F \in [S -> T]
      BY <2>1, <3>1
    <3>3. \A a, b \in S : F[a] = F[b] => a = b
      BY <1>1, <2>2, <3>1
    <3>4. \A t \in T : \E x \in S : F[x] = t
      BY <2>1, <3>1
    <3>5. IsFiniteSet(S) /\ Cardinality(S) = n
      BY <3>1, CountRange
    <3>6. IsFiniteSet(T) /\ Cardinality(T) = Cardinality(S)
      BY <3>2, <3>3, <3>4, <3>5, CountImage
    <3>7. QED BY <3>1, <3>5, <3>6
  <2>4. \A c \in m.opened : \E i \in DOMAIN m.list : m.list[i].card = c
    <3>1. \A k \in 1..n : \E i \in DOMAIN m.list : m.list[i].card = good[k]
      BY <1>3, <1>6, <1>11
    <3>2. QED BY <2>1, <3>1
  <2>5. QED BY <1>2, <2>1, <2>2, <2>3, <2>4 DEF OpenedGrown, L
<1>15. PointersGood(m.ptr, m.list)
  <2>1. CASE fd_list = <<>>
    BY <1>1, <1>2, <2>1, HeadAllGood DEF Types
  <2>2. CASE fd_list # <<>>
    <3>1. m.ptr = m_fd_ptr
      BY <1>1, <2>2
    <3>2. ListFds(fd_list) \subseteq ListFds(m.list)
      BY <1>12 DEF ListGrown
    <3>3. QED BY <2>2, <3>1, <3>2 DEF PointersGood, CursorInList, Types
  <2>3. QED BY <2>1, <2>2
<1>16. QED BY <1>12, <1>13, <1>14, <1>15

\* __fd_m_del of some nodes: the others stay.
NodesOf(list) == {list[i] : i \in DOMAIN list}
FdsOf(nodes) == {x.fd : x \in nodes}

LEMMA WithoutGives ==
  ASSUME NEW list \in Seq(Nodes), NEW closed \in SUBSET NodesOf(list),
         \A i, j \in DOMAIN list : list[i].fd = list[j].fd => i = j
  PROVE  /\ Without(list, closed) \in Seq(Nodes)
         /\ IsFiniteSet(closed) /\ Cardinality(closed) \in Nat
         /\ Len(Without(list, closed)) = Len(list) - Cardinality(closed)
         /\ NodesOf(Without(list, closed)) = NodesOf(list) \ closed
         /\ ListFds(Without(list, closed)) = ListFds(list) \ FdsOf(closed)
         /\ \A i, j \in DOMAIN Without(list, closed) :
              Without(list, closed)[i].fd = Without(list, closed)[j].fd => i = j
<1> DEFINE keep == {i \in DOMAIN list : list[i] \notin closed}
           drop == {i \in DOMAIN list : list[i] \in closed}
           W == Kept(list, keep)
<1>2. keep \in SUBSET (DOMAIN list) /\ drop \in SUBSET (DOMAIN list) /\ keep = (DOMAIN list) \ drop
  OBVIOUS
<1>3. \A i \in DOMAIN list : (i \in keep <=> list[i] \notin closed) /\ (i \in drop <=> list[i] \in closed)
  OBVIOUS
<1>4. Without(list, closed) = W
  BY DEF Without
<1> HIDE DEF keep, drop
<1>5. /\ IsFiniteSet(keep) /\ Cardinality(keep) \in Nat
      /\ W \in Seq(Nodes) /\ Len(W) = Cardinality(keep)
      /\ \A k \in DOMAIN W : \E i \in keep : W[k] = list[i]
      /\ \A i \in keep : \E k \in DOMAIN W : W[k] = list[i]
      /\ \A j, k \in DOMAIN W : j # k => \E a, b \in keep : a # b /\ W[j] = list[a] /\ W[k] = list[b]
  <2>1. IsFiniteSet(keep) /\ Cardinality(keep) \in Nat /\ W \in Seq(Nodes) /\ Len(W) = Cardinality(keep)
    BY <1>2, KeptType
  <2>2. \A k \in DOMAIN W : \E i \in keep : W[k] = list[i]
    BY <1>2, KeptType
  <2>3. \A i \in keep : \E k \in DOMAIN W : W[k] = list[i]
    <3>1. W = Kept(list, keep)
      OBVIOUS
    <3> HIDE DEF W
    <3>2. QED BY <1>2, <3>1, KeptHas
  <2>4. \A j, k \in DOMAIN W : j # k => \E a, b \in keep : a # b /\ W[j] = list[a] /\ W[k] = list[b]
    BY <1>2, KeptType
  <2> HIDE DEF W
  <2>5. QED BY <2>1, <2>2, <2>3, <2>4
<1> HIDE DEF W
<1>6. DOMAIN list = 1..Len(list) /\ Len(list) \in Nat
  OBVIOUS
<1>7. IsFiniteSet(DOMAIN list) /\ Cardinality(DOMAIN list) = Len(list)
  BY <1>6, CountRange
<1>8. IsFiniteSet(drop) /\ Cardinality(drop) \in Nat
  BY <1>2, <1>7, FS_Subset, FS_CardinalityType
<1>9. Cardinality(keep) = Len(list) - Cardinality(drop)
  <2>1. (DOMAIN list) \cap drop = drop
    BY <1>2
  <2>2. Cardinality((DOMAIN list) \ drop) = Cardinality(DOMAIN list) - Cardinality((DOMAIN list) \cap drop)
    BY <1>7, FS_Difference
  <2>3. QED BY <1>2, <1>7, <2>1, <2>2
<1>10. IsFiniteSet(closed) /\ Cardinality(closed) = Cardinality(drop)
  <2> DEFINE F == [i \in drop |-> list[i]]
  <2>1. F \in [drop -> closed]
    BY <1>2, <1>3
  <2>2. \A a, b \in drop : F[a] = F[b] => a = b
    BY <1>2
  <2>3. \A t \in closed : \E s \in drop : F[s] = t
    BY <1>2, <1>3 DEF NodesOf
  <2> HIDE DEF F
  <2>4. QED BY <1>8, <2>1, <2>2, <2>3, CountImage
<1>11. NodesOf(W) = NodesOf(list) \ closed
  <2>1. NodesOf(W) \subseteq NodesOf(list) \ closed
    <3>1. SUFFICES ASSUME NEW k \in DOMAIN W
                   PROVE  W[k] \in NodesOf(list) \ closed
      BY DEF NodesOf
    <3>2. PICK i \in keep : W[k] = list[i]
      BY <1>5
    <3>3. i \in DOMAIN list /\ list[i] \notin closed
      BY <1>2, <1>3
    <3>4. QED BY <3>2, <3>3 DEF NodesOf
  <2>2. NodesOf(list) \ closed \subseteq NodesOf(W)
    <3>1. SUFFICES ASSUME NEW i \in DOMAIN list, list[i] \notin closed
                   PROVE  list[i] \in NodesOf(W)
      BY DEF NodesOf
    <3>2. PICK k \in DOMAIN W : W[k] = list[i]
      BY <1>3, <1>5, <3>1
    <3>3. QED BY <3>2 DEF NodesOf
  <2>3. QED BY <2>1, <2>2
<1>12. \A l : ListFds(l) = FdsOf(NodesOf(l))
  BY DEF ListFds, FdsOf, NodesOf
<1>13. FdsOf(NodesOf(list) \ closed) = FdsOf(NodesOf(list)) \ FdsOf(closed)
  <2>1. \A x, y \in NodesOf(list) : x.fd = y.fd => x = y
    BY DEF NodesOf
  <2>2. QED BY <2>1 DEF FdsOf
<1>14. \A i, j \in DOMAIN W : W[i].fd = W[j].fd => i = j
  <2>1. SUFFICES ASSUME NEW i \in DOMAIN W, NEW j \in DOMAIN W, i # j
                 PROVE  W[i].fd # W[j].fd
    OBVIOUS
  <2>2. PICK a \in keep, b \in keep : a # b /\ W[i] = list[a] /\ W[j] = list[b]
    BY <1>5, <2>1
  <2>3. a \in DOMAIN list /\ b \in DOMAIN list
    BY <1>2
  <2>4. QED BY <2>2, <2>3
<1>15. QED BY <1>4, <1>5, <1>8, <1>9, <1>10, <1>11, <1>12, <1>13, <1>14

-----------------------------------------------------------------------------
(* The invariant is inductive                                              *)

\* The next DDCB follows those that were executed.
LEMMA ExecutedNext ==
  /\ Executed[1] = <<>>
  /\ \A n \in 1..Chain : n+1 \in 1..Chain+1 /\ Append(Executed[n], n) = Executed[n+1]
<1>1. Chain \in Nat /\ 1 \in 1..Chain+1 /\ \A n \in 1..Chain : n \in 1..Chain+1 /\ n+1 \in 1..Chain+1
  BY ChainAssumption
<1>2. \A n \in 1..Chain+1 : Executed[n] = [i \in 1..n-1 |-> i]
  BY DEF Executed
<1>3. Executed[1] = <<>>
  <2>1. Executed[1] = [i \in 1..1-1 |-> i]
    BY <1>1, <1>2
  <2>2. 1..1-1 = {}
    OBVIOUS
  <2>3. [i \in {} |-> i] = <<>>
    OBVIOUS
  <2>4. QED BY <2>1, <2>2, <2>3
<1>4. ASSUME NEW n \in 1..Chain
      PROVE  Append(Executed[n], n) = Executed[n+1]
  <2>1. n \in Nat /\ n-1 \in Nat /\ (n-1)+1 = n /\ (n+1)-1 = n
    BY <1>1
  <2>2. Executed[n] = [i \in 1..n-1 |-> i] /\ Executed[n+1] = [i \in 1..n |-> i]
    BY <1>1, <1>2, <2>1
  <2>3. [i \in 1..n-1 |-> i] \in Seq(Nat) /\ Len([i \in 1..n-1 |-> i]) = n-1
    BY <2>1
  <2>4. Append([i \in 1..n-1 |-> i], n) = [i \in 1..n |-> i]
    BY <2>1, <2>3
  <2>5. QED BY <2>2, <2>4
<1>5. QED BY <1>1, <1>3, <1>4

\* Before anything is open
LEMMA InitInv == Init => IInv
<1> SUFFICES ASSUME Init PROVE IInv
  OBVIOUS
<1>1. Types
  BY ChainAssumption DEF Init, Types, Files, Fd, NoFile, INVALID_FD
<1>2. Calls
  BY ExecutedNext DEF Init, Calls
<1>3. MDevs = {} /\ SDevs = {} /\ Singles = {}
  BY DEF Init, MDevs, SDevs, Singles, Listed
<1>4. Fits(fd_list, file) /\ SinglesOwn /\ AllOwned
  BY <1>3 DEF Init, Fits, SinglesOwn, AllOwned
<1>5. Counted
  BY <1>3, FS_EmptySet DEF Init, Counted
<1>6. CursorInList /\ OpenCardListed /\ ListHeld /\ ExitHolds
  BY <1>3 DEF Init, CursorInList, OpenCardListed, ListHeld, ExitHolds
<1>7. QED BY <1>1, <1>2, <1>4, <1>5, <1>6 DEF IInv, Shared

\* It is not disturbed by a step that changes none of them.
LEMMA SharedSame ==
  ASSUME Shared, file' = file, lib' = lib, dev' = dev
  PROVE  Shared'
<1>1. /\ fd_list' = fd_list /\ genwqe_state' = genwqe_state
      /\ fd_m_count' = fd_m_count /\ fd_s_count' = fd_s_count
      /\ dev_state' = dev_state /\ card_no' = card_no /\ fd_s' = fd_s /\ m_fd_ptr' = m_fd_ptr
  BY DEF lib, dev
<1>2. MDevs' = MDevs /\ SDevs' = SDevs /\ Singles' = Singles
  BY <1>1 DEF MDevs, SDevs, Singles, Listed, Redundant
<1>3. ListFds(fd_list)' = ListFds(fd_list)
  BY <1>1 DEF ListFds
<1>4. Fits(fd_list, file)'
  BY <1>1 DEF Shared, Fits
<1>5. SinglesOwn' /\ AllOwned'
  BY <1>1, <1>2, <1>3 DEF Shared, SinglesOwn, AllOwned
<1>6. Counted' /\ OpenCardListed' /\ ListHeld'
  BY <1>1, <1>2 DEF Shared, Counted, OpenCardListed, ListHeld
<1>7. CursorInList'
  BY <1>1, <1>2, <1>3 DEF Shared, CursorInList
<1>8. QED BY <1>4, <1>5, <1>6, <1>7 DEF Shared

\* Calls that end
LEMMA ReturnedCalls ==
  ASSUME IInv, NEW hs, Returned(hs)
  PROVE  /\ Calls'
         /\ fd' \in [Handles -> Fd] /\ pc' \in [Handles -> {"idle", "ioctl"}]
         /\ cmd' \in [Handles -> 1..Chain+1]
<1>1. /\ fd \in [Handles -> Fd] /\ pc \in [Handles -> {"idle", "ioctl"}]
      /\ cmd \in [Handles -> 1..Chain+1] /\ INVALID_FD \in Fd /\ 1 \in 1..Chain+1
  BY ChainAssumption DEF IInv, Types, Fd
<1>2. ran = [h \in Handles |-> Executed[cmd[h]]] /\ \A h \in Handles : pc[h] = "ioctl" => cmd[h] <= Chain
  BY DEF IInv, Calls
<1>3. fd' \in [Handles -> Fd] /\ pc' \in [Handles -> {"idle", "ioctl"}] /\ cmd' \in [Handles -> 1..Chain+1]
  BY <1>1 DEF Returned
<1>4. ran' = [h \in Handles |-> Executed[cmd'[h]]]
  BY <1>1, <1>2, ExecutedNext DEF Returned
<1>5. \A h \in Handles : pc'[h] = "ioctl" => cmd'[h] <= Chain
  BY <1>1, <1>2 DEF Returned
<1>6. QED BY <1>3, <1>4, <1>5 DEF Calls

LEMMA AfterGives ==
  ASSUME Types, Fits(fd_list, file), NEW f \in ListFds(fd_list)
  PROVE  After(f) \in ListFds(fd_list) /\ After(f) # INVALID_FD /\ After(f) \in Fd
<1>1. fd_list \in Seq(Nodes) /\ fd_list # <<>>
  BY DEF Types, ListFds
<1>2. PICK i \in DOMAIN fd_list : fd_list[i].fd = f
  BY DEF ListFds
<1> DEFINE at == CHOOSE j \in DOMAIN fd_list : fd_list[j].fd = f
<1>3. at = i
  BY <1>2 DEF Fits
<1>9. After(f) = IF at = Len(fd_list) THEN Head0(fd_list) ELSE fd_list[at+1].fd
  BY DEF After
<1> HIDE DEF at
<1>4. After(f) = IF i = Len(fd_list) THEN Head0(fd_list) ELSE fd_list[i+1].fd
  BY <1>3, <1>9
<1>5. i # Len(fd_list) => i+1 \in DOMAIN fd_list
  BY <1>1
<1>6. i # Len(fd_list) => fd_list[i+1].fd \in ListFds(fd_list)
  BY <1>5 DEF ListFds
<1>7. INVALID_FD \notin ListFds(fd_list)
  BY <1>1, Head0Gives, FdAssumption DEF INVALID_FD
<1>8. QED BY <1>1, <1>4, <1>6, <1>7, Head0Gives DEF Fd

\* A pointer moves to another node.
LEMMA PointerMoves ==
  ASSUME IInv, NEW h \in Handles, NEW g \in ListFds(fd_list),
         m_fd_ptr' = [m_fd_ptr EXCEPT ![h] = g],
         UNCHANGED <<env, lib, dev_state, card_no, fd_s>>
  PROVE  Shared' /\ m_fd_ptr' \in [Handles -> Fd]
<1>1. /\ fd_list' = fd_list /\ genwqe_state' = genwqe_state /\ file' = file
      /\ fd_m_count' = fd_m_count /\ fd_s_count' = fd_s_count
      /\ dev_state' = dev_state /\ card_no' = card_no /\ fd_s' = fd_s
  BY DEF lib, env
<1>2. MDevs' = MDevs /\ SDevs' = SDevs /\ Singles' = Singles /\ MDevs \subseteq Handles
  BY <1>1 DEF MDevs, SDevs, Singles, Listed, Redundant
<1>3. ListFds(fd_list)' = ListFds(fd_list)
  BY <1>1 DEF ListFds
<1>4. Fits(fd_list, file)'
  BY <1>1 DEF IInv, Shared, Fits
<1>5. SinglesOwn' /\ AllOwned'
  BY <1>1, <1>2, <1>3 DEF IInv, Shared, SinglesOwn, AllOwned
<1>6. Counted' /\ OpenCardListed' /\ ListHeld'
  BY <1>1, <1>2 DEF IInv, Shared, Counted, OpenCardListed, ListHeld
<1>7. m_fd_ptr \in [Handles -> Fd] /\ fd_list \in Seq(Nodes)
  BY DEF IInv, Types
<1>8. g \in Fds /\ g # INVALID_FD
  BY <1>7, Head0Gives, FdAssumption DEF INVALID_FD
<1>9. CursorInList'
  BY <1>1, <1>2, <1>3, <1>7, <1>8 DEF IInv, Shared, CursorInList
<1>10. QED BY <1>4, <1>5, <1>6, <1>7, <1>8, <1>9 DEF Shared, Fd

\* __fd_get of a handle that is open
LEMMA FdGetGives ==
  ASSUME IInv, NEW h \in Handles, dev_state[h] = "have_fd", FdGet(h),
         UNCHANGED <<env, lib, dev_state, card_no, fd_s>>
  PROVE  Shared' /\ m_fd_ptr' \in [Handles -> Fd] /\ fd' \in [Handles -> Fd]
<1>1. m_fd_ptr \in [Handles -> Fd] /\ fd_s \in [Handles -> Fd] /\ fd \in [Handles -> Fd]
  BY DEF IInv, Types
<1>2. fd' \in [Handles -> Fd]
  BY <1>1 DEF FdGet
<1>3. CASE Redundant(h) /\ m_fd_ptr[h] # INVALID_FD
  <2>1. h \in MDevs
    BY <1>3 DEF MDevs, Listed
  <2>2. m_fd_ptr[h] \in ListFds(fd_list)
    BY <1>3, <2>1 DEF IInv, Shared, CursorInList
  <2>3. After(m_fd_ptr[h]) \in ListFds(fd_list)
    BY <2>2, AfterGives DEF IInv, Shared
  <2>4. m_fd_ptr' = [m_fd_ptr EXCEPT ![h] = After(m_fd_ptr[h])]
    BY <1>3 DEF FdGet
  <2>5. QED BY <1>2, <2>3, <2>4, PointerMoves
<1>4. CASE ~(Redundant(h) /\ m_fd_ptr[h] # INVALID_FD)
  <2>1. m_fd_ptr' = m_fd_ptr
    BY <1>4 DEF FdGet
  <2>2. Shared'
    BY <2>1, SharedSame DEF IInv, Shared, env, dev
  <2>3. QED BY <1>1, <1>2, <2>1, <2>2
<1>5. QED BY <1>3, <1>4

\* The machine
LEMMA CardStepInv == ASSUME IInv, CardStep PROVE IInv'
<1>1. UNCHANGED <<lib, inotify_card, dev, call, exiting>>
  BY DEF CardStep, CardFails, CardGoes, CardReturns
<1>2. /\ fd_list' = fd_list /\ genwqe_state' = genwqe_state /\ fd_m_count' = fd_m_count
      /\ fd_s_count' = fd_s_count /\ inotify_card' = inotify_card
      /\ dev_state' = dev_state /\ card_no' = card_no /\ fd_s' = fd_s /\ m_fd_ptr' = m_fd_ptr
      /\ pc' = pc /\ fd' = fd /\ cmd' = cmd /\ ran' = ran /\ exiting' = exiting
  BY <1>1 DEF lib, dev, call
<1>3. Types
  BY DEF IInv
<1>4. hw' \in [Cards -> {"used", "bad", "gone"}] /\ attrib' \subseteq Cards /\ faults' \in 0..MaxFaults
  <2>1. /\ hw \in [Cards -> {"used", "bad", "gone"}] /\ attrib \subseteq Cards
        /\ faults \in 0..MaxFaults
    BY <1>3 DEF Types
  <2>2. PICK c \in Cards : CardFails(c) \/ CardGoes(c) \/ CardReturns(c)
    BY DEF CardStep
  <2>3. hw' \in [Cards -> {"used", "bad", "gone"}] /\ attrib' \subseteq Cards
    BY <2>1, <2>2 DEF CardFails, CardGoes, CardReturns
  <2>4. faults' = faults \/ (faults < MaxFaults /\ faults' = faults + 1)
    BY <2>2 DEF CardFails, CardGoes, CardReturns, Fault
  <2>5. QED BY <2>1, <2>3, <2>4, ChainAssumption
<1>5. /\ file' \in [Fds -> Files]
      /\ \A f \in Fds : file'[f].card = file[f].card /\ (file'[f] = NoFile <=> file[f] = NoFile)
  <2>1. file \in [Fds -> Files]
    BY <1>3 DEF Types
  <2>2. CASE file' = file
    BY <2>1, <2>2
  <2>3. CASE \E c \in Cards : CardGoes(c)
    <3>1. PICK c \in Cards : CardGoes(c)
      BY <2>3
    <3>2. file' = [f \in Fds |-> IF file[f].card = c THEN [file[f] EXCEPT !.live = FALSE] ELSE file[f]]
      BY <3>1 DEF CardGoes
    <3>3. ASSUME NEW f \in Fds
          PROVE  /\ file'[f] \in Files /\ file'[f].card = file[f].card
                 /\ file'[f] = NoFile <=> file[f] = NoFile
      <4>1. file[f] \in Files
        BY <2>1
      <4>2. CASE file[f].card = c
        <5>1. file'[f] = [card |-> c, live |-> FALSE]
          BY <3>2, <4>1, <4>2 DEF Files
        <5>2. c # None
          BY CardAssumption
        <5>3. QED BY <4>1, <4>2, <5>1, <5>2 DEF Files, NoFile
      <4>3. CASE file[f].card # c
        BY <3>2, <4>1, <4>3
      <4>4. QED BY <4>2, <4>3
    <3>4. QED BY <3>2, <3>3
  <2>4. QED BY <2>2, <2>3 DEF CardStep, CardFails, CardReturns
<1>6. MDevs' = MDevs /\ SDevs' = SDevs /\ Singles' = Singles
  BY <1>2 DEF MDevs, SDevs, Singles, Listed, Redundant
<1>7. ListFds(fd_list)' = ListFds(fd_list) /\ ListFds(fd_list) \subseteq Fds
  BY <1>2, <1>3, Head0Gives DEF ListFds, Types
<1>8. Fits(fd_list, file)'
  BY <1>2, <1>5, <1>7 DEF IInv, Shared, Fits, ListFds
<1>9. SinglesOwn' /\ AllOwned'
  <2>1. \A h \in Singles : fd_s[h] \in Fds
    BY <1>3 DEF Types, Singles, SDevs, Fd
  <2>2. QED BY <1>2, <1>5, <1>6, <1>7, <2>1 DEF IInv, Shared, SinglesOwn, AllOwned
<1>10. Counted' /\ OpenCardListed' /\ ListHeld' /\ ExitHolds' /\ Calls'
  BY <1>2, <1>6 DEF IInv, Shared, Counted, OpenCardListed, ListHeld, ExitHolds, Calls
<1>11. CursorInList'
  BY <1>2, <1>6, <1>7 DEF IInv, Shared, CursorInList
<1>12. Types'
  BY <1>2, <1>3, <1>4, <1>5 DEF Types
<1>13. QED BY <1>8, <1>9, <1>10, <1>11, <1>12 DEF IInv, Shared

\* The inotify thread, which only reads the list of cards
LEMMA NotifyInv == ASSUME IInv, NEW c \in Cards, Notify(c) PROVE IInv'
<1>1. Shared'
  BY SharedSame DEF IInv, Notify
<1>2. Types'
  BY DEF IInv, Types, Notify, lib, dev, call
<1>3. Calls' /\ ExitHolds'
  BY DEF IInv, Calls, ExitHolds, Notify, dev, call
<1>4. QED BY <1>1, <1>2, <1>3 DEF IInv

\* Calls: Shared is about none of their variables but the pointers.
LEMMA ExecuteInv == ASSUME IInv, NEW h \in Handles, Execute(h) PROVE IInv'
<1>1. Shared' /\ m_fd_ptr' \in [Handles -> Fd] /\ fd' \in [Handles -> Fd]
  BY FdGetGives DEF Execute
<1>2. /\ pc' = [pc EXCEPT ![h] = "ioctl"] /\ cmd' = [cmd EXCEPT ![h] = 1]
      /\ ran' = [ran EXCEPT ![h] = <<>>]
  BY DEF Execute
<1>3. cmd \in [Handles -> 1..Chain+1] /\ pc \in [Handles -> {"idle", "ioctl"}]
  BY DEF IInv, Types
<1>4. Chain \in Nat /\ 1 <= Chain /\ 1 \in 1..Chain+1
  BY ChainAssumption
<1>5. Calls'
  BY <1>2, <1>3, <1>4, ExecutedNext DEF IInv, Calls
<1>6. Types'
  BY <1>1, <1>2, <1>3, <1>4 DEF IInv, Types, Execute, env, lib
<1>7. ExitHolds'
  BY DEF IInv, ExitHolds, Execute
<1>8. QED BY <1>1, <1>5, <1>6, <1>7 DEF IInv

LEMMA RetriesInv == ASSUME IInv, NEW h \in Handles, Retries(h) PROVE IInv'
<1>1. Shared' /\ m_fd_ptr' \in [Handles -> Fd] /\ fd' \in [Handles -> Fd]
  BY FdGetGives DEF Retries
<1>2. cmd' = cmd
  BY DEF IInv, Types, Retries, ResumeAt
<1>3. Calls' /\ ExitHolds'
  BY <1>2 DEF IInv, Calls, ExitHolds, Retries
<1>4. Types'
  BY <1>1, <1>2 DEF IInv, Types, Retries, env, lib
<1>5. QED BY <1>1, <1>3, <1>4 DEF IInv

LEMMA CompletesInv == ASSUME IInv, NEW h \in Handles, Completes(h) PROVE IInv'
<1>1. Shared'
  BY SharedSame DEF IInv, Completes, env
<1>2. cmd \in [Handles -> 1..Chain+1] /\ pc \in [Handles -> {"idle", "ioctl"}] /\ fd \in [Handles -> Fd]
  BY DEF IInv, Types
<1>3. /\ ran = [g \in Handles |-> Executed[cmd[g]]]
      /\ \A g \in Handles : pc[g] = "ioctl" => cmd[g] <= Chain
  BY DEF IInv, Calls
<1>4. /\ ran' = [ran EXCEPT ![h] = Append(ran[h], cmd[h])]
      /\ cmd' = [cmd EXCEPT ![h] = cmd[h] + 1]
      /\ pc' = [pc EXCEPT ![h] = IF cmd[h] = Chain THEN "idle" ELSE pc[h]]
      /\ fd' = [fd EXCEPT ![h] = IF cmd[h] = Chain THEN INVALID_FD ELSE fd[h]]
      /\ pc[h] = "ioctl"
  BY DEF Completes
<1>5. cmd[h] \in 1..Chain /\ cmd[h] + 1 \in 1..Chain+1 /\ Append(Executed[cmd[h]], cmd[h]) = Executed[cmd[h] + 1]
  <2>1. cmd[h] \in 1..Chain+1 /\ cmd[h] <= Chain
    BY <1>2, <1>3, <1>4
  <2>2. cmd[h] \in 1..Chain
    BY <2>1, ChainAssumption
  <2>3. QED BY <2>2, ExecutedNext
<1>6. ran' = [g \in Handles |-> Executed[cmd'[g]]]
  BY <1>2, <1>3, <1>4, <1>5
<1>7. \A g \in Handles : pc'[g] = "ioctl" => cmd'[g] <= Chain
  BY <1>2, <1>3, <1>4, <1>5, ChainAssumption
<1>8. cmd' \in [Handles -> 1..Chain+1] /\ pc' \in [Handles -> {"idle", "ioctl"}] /\ fd' \in [Handles -> Fd]
  BY <1>2, <1>4, <1>5 DEF Fd
<1>9. Types'
  BY <1>8 DEF IInv, Types, Completes, env, lib, dev
<1>10. ExitHolds'
  BY DEF IInv, ExitHolds, Completes, dev
<1>11. QED BY <1>1, <1>6, <1>7, <1>9, <1>10 DEF IInv, Calls

LEMMA GivesUpInv == ASSUME IInv, NEW h \in Handles, GivesUp(h) PROVE IInv'
<1>1. Shared'
  BY SharedSame DEF IInv, GivesUp, env
<1>2. /\ Calls' /\ fd' \in [Handles -> Fd] /\ pc' \in [Handles -> {"idle", "ioctl"}]
      /\ cmd' \in [Handles -> 1..Chain+1]
  BY ReturnedCalls DEF GivesUp
<1>3. Types' /\ ExitHolds'
  BY <1>2 DEF IInv, Types, ExitHolds, GivesUp, env, lib, dev
<1>4. QED BY <1>1, <1>2, <1>3 DEF IInv

LEMMA UseDescriptorInv == ASSUME IInv, NEW h \in Handles, UseDescriptor(h) PROVE IInv'
<1>1. h \in MDevs
  BY DEF UseDescriptor, MDevs, Listed
<1>2. m_fd_ptr[h] \in ListFds(fd_list)
  BY <1>1 DEF IInv, Shared, CursorInList, UseDescriptor
<1>3. After(m_fd_ptr[h]) \in ListFds(fd_list)
  BY <1>2, AfterGives DEF IInv, Shared
<1>4. Shared' /\ m_fd_ptr' \in [Handles -> Fd]
  BY <1>3, PointerMoves DEF UseDescriptor
<1>5. Types'
  BY <1>4 DEF IInv, Types, UseDescriptor, env, lib, call
<1>6. Calls' /\ ExitHolds'
  BY DEF IInv, Calls, ExitHolds, UseDescriptor, call
<1>7. QED BY <1>4, <1>5, <1>6 DEF IInv

\* Handles that are to be closed are still in their list, with what they have.
LEMMA ToClose ==
  ASSUME IInv, NEW hs,
         dev_state' = [h \in Handles |-> IF h \in hs /\ Listed(h) THEN "req_close" ELSE dev_state[h]],
         UNCHANGED <<env, lib, inotify_card, card_no, fd_s, m_fd_ptr, call>>,
         exiting' \in {"no", "marked", "done"}
  PROVE  Types' /\ Calls' /\ Shared'
<1>1. /\ fd_list' = fd_list /\ genwqe_state' = genwqe_state /\ file' = file
      /\ fd_m_count' = fd_m_count /\ fd_s_count' = fd_s_count
      /\ card_no' = card_no /\ fd_s' = fd_s /\ m_fd_ptr' = m_fd_ptr
      /\ inotify_card' = inotify_card /\ hw' = hw /\ faults' = faults /\ attrib' = attrib
      /\ pc' = pc /\ fd' = fd /\ cmd' = cmd /\ ran' = ran
  BY DEF lib, env, call
<1>2. dev_state \in [Handles -> {"none", "have_fd", "req_close", "freed"}]
  BY DEF IInv, Types
<1>3. \A h \in Handles : Listed(h)' = Listed(h) /\ (dev_state'[h] = "have_fd" => dev_state[h] = "have_fd")
  BY <1>2 DEF Listed
<1>4. MDevs' = MDevs /\ SDevs' = SDevs
  BY <1>1, <1>3 DEF MDevs, SDevs, Redundant
<1>5. Singles' = Singles /\ ListFds(fd_list)' = ListFds(fd_list)
  BY <1>1, <1>4 DEF Singles, ListFds
<1>6. Fits(fd_list, file)'
  BY <1>1 DEF IInv, Shared, Fits
<1>7. SinglesOwn' /\ AllOwned'
  BY <1>1, <1>5 DEF IInv, Shared, SinglesOwn, AllOwned
<1>8. Counted' /\ OpenCardListed' /\ ListHeld'
  BY <1>1, <1>4, <1>5 DEF IInv, Shared, Counted, OpenCardListed, ListHeld
<1>9. CursorInList'
  BY <1>1, <1>3, <1>4, <1>5 DEF IInv, Shared, CursorInList, MDevs
<1>10. Types' /\ Calls'
  BY <1>1, <1>2 DEF IInv, Types, Calls
<1>11. QED BY <1>6, <1>7, <1>8, <1>9, <1>10 DEF Shared

LEMMA CloseInv == ASSUME IInv, NEW h \in Handles, Close(h) PROVE IInv'
<1>1. dev_state \in [Handles -> {"none", "have_fd", "req_close", "freed"}] /\ exiting \in {"no", "marked", "done"}
  BY DEF IInv, Types
<1>2. dev_state' = [g \in Handles |-> IF g \in {h} /\ Listed(g) THEN "req_close" ELSE dev_state[g]]
  BY <1>1 DEF Close, Listed
<1>3. Types' /\ Calls' /\ Shared'
  BY <1>1, <1>2, ToClose DEF Close
<1>4. ExitHolds'
  BY <1>1 DEF ExitHolds, Close
<1>5. QED BY <1>3, <1>4 DEF IInv

LEMMA ExitMarkInv == ASSUME IInv, ExitMark PROVE IInv'
<1>1. dev_state \in [Handles -> {"none", "have_fd", "req_close", "freed"}]
  BY DEF IInv, Types
<1>2. dev_state' = [h \in Handles |-> IF h \in Handles /\ Listed(h) THEN "req_close" ELSE dev_state[h]]
  BY DEF ExitMark, Marked, SDevs, MDevs
<1>3. Types' /\ Calls' /\ Shared'
  BY <1>2, ToClose DEF ExitMark
<1>4. ExitHolds'
  BY <1>1, <1>2 DEF ExitHolds, Listed
<1>5. QED BY <1>3, <1>4 DEF IInv

-----------------------------------------------------------------------------
(* The health thread                                                       *)

\* What __mhealth_check does, with the list m it has after __inotify_handle.
ChecksList(m, deleted, closed) ==
  /\ deleted = {h \in MDevs : dev_state[h] = "req_close"}
  /\ closed \in SUBSET NodesOf(m.list) /\ (deleted = MDevs => closed = NodesOf(m.list))
  /\ inotify_card' \in {None, inotify_card} /\ attrib' \subseteq attrib
  /\ fd_list' = Without(m.list, closed)
  /\ file' = CloseFiles(FdsOf(closed), m.files)
  /\ genwqe_state' = SetClosed(SetOpen(m.opened), {x.card : x \in closed})
  /\ fd_m_count' = fd_m_count + Cardinality(m.opened) - Cardinality(closed)
  /\ Freed(deleted, IF closed # {} /\ deleted # MDevs THEN HeadAfterDel(m.ptr, fd_list') ELSE m.ptr)
  /\ UNCHANGED fd_s_count

LEMMA MHealthGives ==
  ASSUME IInv, NEW stale, MHealth(stale)
  PROVE  \E m, deleted, closed :
           /\ ListGrown(m) /\ FilesGrown(m) /\ OpenedGrown(m) /\ PointersGood(m.ptr, m.list)
           /\ ChecksList(m, deleted, closed)
<1> DEFINE cs == IF inotify_card = None THEN <<>> ELSE <<inotify_card>>
<1>1. inotify_card \in Cards \cup {None}
  BY DEF IInv, Types
<1>2. cs \in Seq(Cards) /\ IsInjective(cs)
  BY <1>1 DEF IsInjective
<1> DEFINE Step(m, deleted, closed, list) ==
             /\ inotify_card' = IF m.opened # {} THEN None ELSE inotify_card
             /\ attrib' \in IF m.opened # {} THEN SUBSET attrib ELSE {attrib}
             /\ fd_list' = list
             /\ file' = CloseFiles({n.fd : n \in closed}, m.files)
             /\ genwqe_state' = SetClosed(SetOpen(m.opened), {n.card : n \in closed})
             /\ fd_m_count' = fd_m_count + Cardinality(m.opened) - Cardinality(closed)
             /\ Freed(deleted, IF closed # {} /\ deleted # MDevs THEN HeadAfterDel(m.ptr, list) ELSE m.ptr)
             /\ UNCHANGED fd_s_count
<1>3. \E m \in {Reopened} :
        \E failed \in {FailedNodes(m, stale)}, deleted \in {{h \in MDevs : Deletes(h)}} :
        \E closed \in {{m.list[i] : i \in IF deleted = MDevs THEN DOMAIN m.list ELSE failed}} :
        \E list \in {Without(m.list, closed)} : Step(m, deleted, closed, list)
  BY Zenon DEF MHealth
<1> HIDE DEF Step
<1>4. PICK m :
        /\ m = Reopened
        /\ \E failed \in {FailedNodes(m, stale)}, deleted \in {{h \in MDevs : Deletes(h)}} :
           \E closed \in {{m.list[i] : i \in IF deleted = MDevs THEN DOMAIN m.list ELSE failed}} :
           \E list \in {Without(m.list, closed)} : Step(m, deleted, closed, list)
  BY <1>3, Zenon
<1>5. PICK failed, deleted :
        /\ failed = FailedNodes(m, stale) /\ deleted = {h \in MDevs : Deletes(h)}
        /\ \E closed \in {{m.list[i] : i \in IF deleted = MDevs THEN DOMAIN m.list ELSE failed}} :
           \E list \in {Without(m.list, closed)} : Step(m, deleted, closed, list)
  BY <1>4, Zenon
<1>6. PICK closed, list :
        /\ closed = {m.list[i] : i \in IF deleted = MDevs THEN DOMAIN m.list ELSE failed}
        /\ list = Without(m.list, closed)
        /\ Step(m, deleted, closed, list)
  BY <1>5, Zenon
<1>7. m = OpenAdd(cs)
  BY <1>4 DEF Reopened
<1> HIDE DEF cs
<1>8. ListGrown(m) /\ FilesGrown(m) /\ OpenedGrown(m) /\ PointersGood(m.ptr, m.list)
  BY <1>2, <1>7, OpenAddGives DEF IInv, Shared
<1>9. failed \subseteq DOMAIN m.list
  BY <1>5, Zenon DEF FailedNodes
<1>10. closed \in SUBSET NodesOf(m.list) /\ (deleted = MDevs => closed = NodesOf(m.list))
  BY <1>6, <1>9 DEF NodesOf
<1>11. deleted = {h \in MDevs : dev_state[h] = "req_close"}
  BY <1>5 DEF Deletes
<1>12. inotify_card' \in {None, inotify_card} /\ attrib' \subseteq attrib /\ fd_list' = list
  BY <1>6 DEF Step
<1>13. ChecksList(m, deleted, closed)
  BY <1>6, <1>10, <1>11, <1>12 DEF ChecksList, FdsOf, Step
<1>14. QED BY <1>8, <1>13

\* Handles that are freed leave the lists, and only those.
LEMMA FreedGives ==
  ASSUME IInv, NEW hs, NEW ptr \in [Handles -> Fd], Freed(hs, ptr)
  PROVE  /\ dev_state' \in [Handles -> {"none", "have_fd", "req_close", "freed"}]
         /\ card_no' \in [Handles -> Cards \cup {"redundant", None}]
         /\ fd_s' \in [Handles -> Fd] /\ m_fd_ptr' \in [Handles -> Fd]
         /\ MDevs' = MDevs \ hs /\ SDevs' = SDevs \ hs /\ Singles' = Singles \ hs
         /\ \A h \in Handles : dev_state'[h] = "have_fd" => dev_state[h] = "have_fd"
         /\ \A h \in Handles \ hs : /\ dev_state'[h] = dev_state[h] /\ card_no'[h] = card_no[h]
                                    /\ fd_s'[h] = fd_s[h] /\ m_fd_ptr'[h] = ptr[h]
<1>1. /\ dev_state \in [Handles -> {"none", "have_fd", "req_close", "freed"}]
      /\ card_no \in [Handles -> Cards \cup {"redundant", None}]
      /\ fd_s \in [Handles -> Fd] /\ INVALID_FD \in Fd
  BY DEF IInv, Types, Fd
<1>2. /\ dev_state' = [h \in Handles |-> IF h \in hs THEN "freed" ELSE dev_state[h]]
      /\ card_no' = [h \in Handles |-> IF h \in hs THEN None ELSE card_no[h]]
      /\ fd_s' = [h \in Handles |-> IF h \in hs THEN INVALID_FD ELSE fd_s[h]]
      /\ m_fd_ptr' = [h \in Handles |-> IF h \in hs THEN INVALID_FD ELSE ptr[h]]
  BY DEF Freed
<1>3. /\ dev_state' \in [Handles -> {"none", "have_fd", "req_close", "freed"}]
      /\ card_no' \in [Handles -> Cards \cup {"redundant", None}]
      /\ fd_s' \in [Handles -> Fd] /\ m_fd_ptr' \in [Handles -> Fd]
  BY <1>1, <1>2
<1>4. /\ \A h \in Handles : h \in hs => dev_state'[h] = "freed"
      /\ \A h \in Handles \ hs : /\ dev_state'[h] = dev_state[h] /\ card_no'[h] = card_no[h]
                                 /\ fd_s'[h] = fd_s[h] /\ m_fd_ptr'[h] = ptr[h]
  BY <1>2
<1>5. \A h \in Handles : /\ Listed(h)' <=> Listed(h) /\ h \notin hs
                         /\ h \notin hs => (Redundant(h)' <=> Redundant(h))
  BY <1>4 DEF Listed, Redundant
<1>6. MDevs' = MDevs \ hs /\ SDevs' = SDevs \ hs
  BY <1>5 DEF MDevs, SDevs
<1>7. Singles' = Singles \ hs
  BY <1>4, <1>6 DEF Singles, SDevs
<1>8. \A h \in Handles : dev_state'[h] = "have_fd" => dev_state[h] = "have_fd"
  BY <1>4
<1>9. QED BY <1>3, <1>4, <1>6, <1>7, <1>8

\* What a descriptor list has in the files is there, on its card.
LEMMA ListOpen ==
  ASSUME NEW list \in Seq(Nodes), NEW files, Fits(list, files)
  PROVE  \A f \in ListFds(list) : files[f] # NoFile
<1>1. \A i \in DOMAIN list : list[i].card \in Cards
  <2>1. \A i \in DOMAIN list : list[i] \in Nodes
    OBVIOUS
  <2>2. QED BY <2>1 DEF Nodes
<1>2. \A i \in DOMAIN list : files[list[i].fd].card # None
  BY <1>1, CardAssumption DEF Fits
<1>3. QED BY <1>2 DEF ListFds, NoFile

\* The list is checked: what is closed leaves the list, the files and the marks together.
LEMMA ChecksListInv ==
  ASSUME IInv, NEW m, NEW deleted, NEW closed,
         ListGrown(m), FilesGrown(m), OpenedGrown(m), PointersGood(m.ptr, m.list),
         ChecksList(m, deleted, closed),
         UNCHANGED <<hw, faults>>, exiting' \in {"no", "marked", "done"},
         exiting' # "no" => exiting # "no"
  PROVE  IInv'
<1> DEFINE list == Without(m.list, closed)
           ptr == IF closed # {} /\ deleted # MDevs THEN HeadAfterDel(m.ptr, fd_list') ELSE m.ptr
<1>1. /\ deleted = {h \in MDevs : dev_state[h] = "req_close"}
      /\ closed \in SUBSET NodesOf(m.list) /\ (deleted = MDevs => closed = NodesOf(m.list))
      /\ inotify_card' \in {None, inotify_card} /\ attrib' \subseteq attrib
      /\ fd_list' = list
      /\ file' = CloseFiles(FdsOf(closed), m.files)
      /\ genwqe_state' = SetClosed(SetOpen(m.opened), {x.card : x \in closed})
      /\ fd_m_count' = fd_m_count + Cardinality(m.opened) - Cardinality(closed)
      /\ Freed(deleted, ptr)
      /\ fd_s_count' = fd_s_count
  BY DEF ChecksList
<1>2. /\ m.list \in Seq(Nodes) /\ Fits(m.list, m.files)
      /\ \A i \in DOMAIN fd_list : i \in DOMAIN m.list /\ m.list[i] = fd_list[i]
      /\ ListFds(fd_list) \subseteq ListFds(m.list)
      /\ \A f \in ListFds(m.list) : f \in ListFds(fd_list) \/ f \in FreeFds
  BY DEF ListGrown
<1>3. /\ list \in Seq(Nodes) /\ IsFiniteSet(closed) /\ Cardinality(closed) \in Nat
      /\ Len(list) = Len(m.list) - Cardinality(closed)
      /\ NodesOf(list) = NodesOf(m.list) \ closed
      /\ ListFds(list) = ListFds(m.list) \ FdsOf(closed)
      /\ \A i, j \in DOMAIN list : list[i].fd = list[j].fd => i = j
  BY <1>1, <1>2, WithoutGives DEF Fits
<1> HIDE DEF list
<1>4. ptr \in [Handles -> Fd] /\ \A h \in MDevs \ deleted :
        /\ ptr[h] \in ListFds(list) \cup {INVALID_FD}
        /\ dev_state[h] = "have_fd" /\ list # <<>> => ptr[h] # INVALID_FD
  <2>1. CASE closed # {} /\ deleted # MDevs
    <3>1. m.ptr \in [Handles -> Fd]
      BY DEF PointersGood
    <3>2. ptr = HeadAll(m.ptr, list)
      BY <1>1, <2>1 DEF HeadAfterDel
    <3>3. PointersGood(HeadAll(m.ptr, list), list)
      BY <1>3, <3>1, HeadAllGood DEF IInv
    <3>4. QED BY <3>2, <3>3 DEF PointersGood
  <2>2. CASE closed = {}
    <3>1. ptr = m.ptr
      BY <2>2
    <3>2. ListFds(list) = ListFds(m.list)
      BY <1>3, <2>2 DEF FdsOf
    <3>3. Len(list) = Len(m.list)
      BY <1>2, <1>3, <2>2, FS_EmptySet
    <3>4. list # <<>> => m.list # <<>>
      BY <1>2, <1>3, <3>3
    <3>5. QED BY <3>1, <3>2, <3>4 DEF PointersGood
  <2>3. CASE closed # {} /\ deleted = MDevs
    BY <2>3 DEF PointersGood
  <2>4. QED BY <2>1, <2>2, <2>3
<1> HIDE DEF ptr
<1>5. /\ dev_state' \in [Handles -> {"none", "have_fd", "req_close", "freed"}]
      /\ card_no' \in [Handles -> Cards \cup {"redundant", None}]
      /\ fd_s' \in [Handles -> Fd] /\ m_fd_ptr' \in [Handles -> Fd]
      /\ MDevs' = MDevs \ deleted /\ SDevs' = SDevs \ deleted /\ Singles' = Singles \ deleted
      /\ \A h \in Handles : dev_state'[h] = "have_fd" => dev_state[h] = "have_fd"
      /\ \A h \in Handles \ deleted : /\ dev_state'[h] = dev_state[h] /\ card_no'[h] = card_no[h]
                                      /\ fd_s'[h] = fd_s[h] /\ m_fd_ptr'[h] = ptr[h]
  BY <1>1, <1>4, FreedGives
<1>6. Singles' = Singles /\ \A h \in Singles : h \in Handles \ deleted
  BY <1>1, <1>5 DEF Singles, SDevs, MDevs
<1>7. ListFds(fd_list)' = ListFds(list) /\ (fd_list' = <<>> <=> list = <<>>)
  BY <1>1 DEF ListFds
<1>8. Types'
  <2>1. file' \in [Fds -> Files]
    BY <1>1 DEF FilesGrown, CloseFiles, Files, NoFile
  <2>2. genwqe_state' \in [Cards -> {"CARD_OPEN", "CARD_CLOSED"}]
    BY <1>1 DEF SetClosed, SetOpen, IInv, Types
  <2>3. Returned(deleted)
    BY <1>1 DEF Freed
  <2>4. fd' \in [Handles -> Fd] /\ pc' \in [Handles -> {"idle", "ioctl"}] /\ cmd' \in [Handles -> 1..Chain+1]
    BY <2>3, ReturnedCalls
  <2>5. inotify_card' \in Cards \cup {None} /\ fd_list' \in Seq(Nodes)
    BY <1>1, <1>3 DEF IInv, Types
  <2>6. /\ hw' \in [Cards -> {"used", "bad", "gone"}] /\ attrib' \subseteq Cards
        /\ faults' \in 0..MaxFaults
    BY <1>1 DEF IInv, Types
  <2>7. QED BY <1>5, <2>1, <2>2, <2>4, <2>5, <2>6 DEF Types
<1>9. Calls'
  BY <1>1, ReturnedCalls DEF Freed
<1>10. \A f \in Fds : f \notin FdsOf(closed) => file'[f] = m.files[f]
  BY <1>1 DEF CloseFiles
<1>11. \A f \in Fds : f \in FdsOf(closed) => file'[f] = NoFile
  BY <1>1 DEF CloseFiles
<1>12. \A i \in DOMAIN list : list[i] \in NodesOf(m.list) /\ list[i].fd \notin FdsOf(closed) /\ list[i].fd \in Fds
  <2>1. SUFFICES ASSUME NEW i \in DOMAIN list
                 PROVE  /\ list[i] \in NodesOf(m.list) /\ list[i].fd \notin FdsOf(closed)
                        /\ list[i].fd \in Fds
    OBVIOUS
  <2>2. list[i] \in NodesOf(list) /\ list[i].fd \in ListFds(list)
    BY DEF NodesOf, ListFds
  <2>3. ListFds(list) \subseteq Fds
    BY <1>3, Head0Gives
  <2>4. QED BY <1>3, <2>2, <2>3
<1>13. Fits(fd_list, file)'
  <2>1. \A x \in NodesOf(m.list) : m.files[x.fd].card = x.card
    BY <1>2 DEF NodesOf, Fits
  <2>2. \A i \in DOMAIN list : file'[list[i].fd].card = list[i].card
    BY <1>10, <1>12, <2>1
  <2>3. QED BY <1>1, <1>3, <2>2 DEF Fits
<1>14. \A h \in Singles : /\ fd_s[h] \in Fds /\ file[fd_s[h]] # NoFile /\ fd_s[h] \notin ListFds(m.list)
  <2>1. SUFFICES ASSUME NEW h \in Singles
                 PROVE  fd_s[h] \in Fds /\ file[fd_s[h]] # NoFile /\ fd_s[h] \notin ListFds(m.list)
    OBVIOUS
  <2>2. fd_s[h] \in Fds
    BY DEF IInv, Types, Singles, SDevs, Fd
  <2>3. file[fd_s[h]] # NoFile /\ fd_s[h] \notin ListFds(fd_list)
    BY CardAssumption DEF IInv, Shared, SinglesOwn, NoFile
  <2>4. QED BY <1>2, <2>2, <2>3 DEF FreeFds
<1>15. \A h \in Singles : file'[fd_s[h]] = file[fd_s[h]] /\ fd_s'[h] = fd_s[h] /\ card_no'[h] = card_no[h]
  <2>1. FdsOf(closed) \subseteq ListFds(m.list)
    BY <1>1 DEF FdsOf, NodesOf, ListFds
  <2>2. QED BY <1>5, <1>6, <1>10, <1>14, <2>1 DEF FilesGrown
<1>16. SinglesOwn'
  BY <1>3, <1>6, <1>7, <1>14, <1>15 DEF IInv, Shared, SinglesOwn
<1>17. AllOwned'
  <2>1. SUFFICES ASSUME NEW f \in Fds, file'[f] # NoFile, f \notin ListFds(list)
                 PROVE  \E h \in Singles : fd_s'[h] = f
    BY <1>6, <1>7 DEF AllOwned
  <2>2. f \notin FdsOf(closed) /\ m.files[f] # NoFile
    BY <1>10, <1>11, <2>1
  <2>3. f \notin ListFds(m.list)
    BY <1>3, <2>1, <2>2
  <2>4. file[f] # NoFile /\ f \notin ListFds(fd_list)
    BY <1>2, <2>2, <2>3 DEF FilesGrown
  <2>5. QED BY <1>15, <2>4 DEF IInv, Shared, AllOwned
<1>18. Counted'
  <2>1. fd_m_count = Len(fd_list) /\ fd_s_count = Cardinality(Singles)
    BY DEF IInv, Shared, Counted
  <2>2. Len(m.list) = Len(fd_list) + Cardinality(m.opened) /\ Cardinality(m.opened) \in Nat
    BY DEF OpenedGrown
  <2>3. Len(fd_list) \in Nat
    BY DEF IInv, Types
  <2>4. fd_m_count' = Len(list)
    BY <1>1, <1>3, <2>1, <2>2, <2>3
  <2>5. QED BY <1>1, <1>6, <2>1, <2>4 DEF Counted
<1>19. CursorInList'
  <2>1. \A h \in MDevs \ deleted : h \in Handles \ deleted
    BY DEF MDevs
  <2>2. QED BY <1>4, <1>5, <1>7, <2>1 DEF CursorInList
<1>20. OpenCardListed'
  <2>1. SUFFICES ASSUME NEW c \in Cards, genwqe_state'[c] = "CARD_OPEN"
                 PROVE  \E x \in NodesOf(list) : x.card = c
    BY <1>1 DEF OpenCardListed, NodesOf
  <2>2. c \notin {x.card : x \in closed} /\ (c \in m.opened \/ genwqe_state[c] = "CARD_OPEN")
    BY <1>1, <2>1 DEF SetClosed, SetOpen
  <2>3. \E x \in NodesOf(m.list) : x.card = c
    <3>1. CASE c \in m.opened
      BY <3>1 DEF OpenedGrown, NodesOf
    <3>2. CASE genwqe_state[c] = "CARD_OPEN"
      <4>1. PICK i \in DOMAIN fd_list : fd_list[i].card = c
        BY <3>2 DEF IInv, Shared, OpenCardListed
      <4>2. QED BY <1>2, <4>1 DEF NodesOf
    <3>3. QED BY <2>2, <3>1, <3>2
  <2>4. QED BY <1>3, <2>2, <2>3
<1>21. ListHeld'
  <2>1. CASE deleted = MDevs
    <3>1. NodesOf(list) = {}
      BY <1>1, <1>3, <2>1
    <3>2. list = <<>>
      BY <1>3, <3>1 DEF NodesOf
    <3>3. QED BY <1>7, <3>2 DEF ListHeld
  <2>2. CASE deleted # MDevs
    BY <1>1, <1>5, <2>2 DEF ListHeld
  <2>3. QED BY <2>1, <2>2
<1>22. ExitHolds'
  BY <1>5 DEF IInv, ExitHolds
<1>23. QED BY <1>8, <1>9, <1>13, <1>16, <1>17, <1>18, <1>19, <1>20, <1>21, <1>22 DEF IInv, Shared

LEMMA SinglesFinite == IsFiniteSet(Singles) /\ Cardinality(Singles) \in Nat
<1>1. Singles \in SUBSET Handles
  BY DEF Singles, SDevs
<1>2. QED BY <1>1, CardAssumption, FS_Subset, FS_CardinalityType

\* A descriptor of a single handle is open and in no node.
LEMMA SingleFd ==
  ASSUME IInv, NEW h \in Singles
  PROVE  fd_s[h] \in Fds /\ file[fd_s[h]] # NoFile /\ fd_s[h] \notin ListFds(fd_list)
<1>1. fd_s[h] \in Fds
  BY DEF IInv, Types, Singles, SDevs, Fd
<1>2. QED BY <1>1, CardAssumption DEF IInv, Shared, SinglesOwn, NoFile

\* The single handles are checked: what they had is closed, nothing else.
LEMMA SHealthInv ==
  ASSUME IInv, NEW stale, SHealth(stale), MDevs = {},
         UNCHANGED <<hw, faults>>, exiting' \in {"no", "marked", "done"},
         exiting' # "no" => exiting # "no"
  PROVE  IInv'
<1> DEFINE deleted == {h \in SDevs : \/ dev_state[h] = "req_close"
                                     \/ fd_s[h] # INVALID_FD /\ Bad(fd_s[h], file, stale)}
           closed == UNION {SDeletedCloses(h) : h \in deleted}
<1>1. /\ file' = CloseFiles(closed, file)
      /\ fd_s_count' = fd_s_count - Cardinality({h \in deleted : fd_s[h] # INVALID_FD})
      /\ Freed(deleted, m_fd_ptr)
      /\ UNCHANGED <<fd_list, genwqe_state, fd_m_count, inotify_card, attrib>>
  BY Zenon DEF SHealth
<1>2. deleted \subseteq SDevs
  OBVIOUS
<1>3. m_fd_ptr \in [Handles -> Fd] /\ file \in [Fds -> Files] /\ fd_list \in Seq(Nodes)
  BY DEF IInv, Types
<1> HIDE DEF deleted
<1>4. \A f : f \in closed <=> \E h \in Singles \cap deleted : fd_s[h] = f
  BY <1>2 DEF SDeletedCloses, Singles
<1>5. {h \in deleted : fd_s[h] # INVALID_FD} = Singles \cap deleted
  BY <1>2 DEF Singles
<1> HIDE DEF closed
<1>6. /\ dev_state' \in [Handles -> {"none", "have_fd", "req_close", "freed"}]
      /\ card_no' \in [Handles -> Cards \cup {"redundant", None}]
      /\ fd_s' \in [Handles -> Fd] /\ m_fd_ptr' \in [Handles -> Fd]
      /\ MDevs' = MDevs \ deleted /\ Singles' = Singles \ deleted
      /\ \A h \in Handles : dev_state'[h] = "have_fd" => dev_state[h] = "have_fd"
      /\ \A h \in Handles \ deleted : card_no'[h] = card_no[h] /\ fd_s'[h] = fd_s[h]
  BY <1>1, <1>3, FreedGives
<1>7. MDevs' = {}
  BY <1>6
<1>8. fd_list' = fd_list /\ genwqe_state' = genwqe_state /\ ListFds(fd_list)' = ListFds(fd_list)
  BY <1>1 DEF ListFds
<1>9. /\ \A f \in Fds : f \in closed => file'[f] = NoFile
      /\ \A f \in Fds : f \notin closed => file'[f] = file[f]
  BY <1>1 DEF CloseFiles
<1>10. Types'
  <2>1. file' \in [Fds -> Files]
    BY <1>1, <1>3 DEF CloseFiles, Files, NoFile
  <2>2. fd' \in [Handles -> Fd] /\ pc' \in [Handles -> {"idle", "ioctl"}] /\ cmd' \in [Handles -> 1..Chain+1]
    BY <1>1, ReturnedCalls DEF Freed
  <2>3. QED BY <1>1, <1>6, <2>1, <2>2 DEF IInv, Types
<1>11. Calls' /\ ExitHolds'
  BY <1>1, <1>6, ReturnedCalls DEF Freed, IInv, ExitHolds
<1>12. \A i \in DOMAIN fd_list : fd_list[i].fd \in ListFds(fd_list) /\ fd_list[i].fd \in Fds
  BY <1>3, Head0Gives DEF ListFds
<1>13. Fits(fd_list, file)'
  <2>1. \A i \in DOMAIN fd_list : fd_list[i].fd \notin closed
    BY <1>4, <1>12, SingleFd
  <2>2. QED BY <1>8, <1>9, <1>12, <2>1 DEF IInv, Shared, Fits
<1>14. \A h \in Singles' : /\ h \in Singles /\ fd_s[h] \notin closed /\ fd_s'[h] = fd_s[h]
                           /\ card_no'[h] = card_no[h] /\ file'[fd_s[h]] = file[fd_s[h]]
  <2>1. SUFFICES ASSUME NEW h \in Singles, h \notin deleted
                 PROVE  /\ fd_s[h] \notin closed /\ fd_s'[h] = fd_s[h]
                        /\ card_no'[h] = card_no[h] /\ file'[fd_s[h]] = file[fd_s[h]]
    BY <1>6
  <2>2. fd_s[h] \notin closed
    BY <1>4, <2>1 DEF IInv, Shared, SinglesOwn
  <2>3. h \in Handles
    BY DEF Singles, SDevs
  <2>4. QED BY <1>6, <1>9, <2>1, <2>2, <2>3, SingleFd
<1>15. SinglesOwn'
  BY <1>8, <1>14 DEF IInv, Shared, SinglesOwn
<1>16. AllOwned'
  <2>1. SUFFICES ASSUME NEW f \in Fds, file'[f] # NoFile, f \notin ListFds(fd_list)
                 PROVE  \E h \in Singles' : fd_s'[h] = f
    BY <1>8 DEF AllOwned
  <2>2. f \notin closed /\ file[f] # NoFile
    BY <1>9, <2>1
  <2>3. PICK h \in Singles : fd_s[h] = f
    BY <2>1, <2>2 DEF IInv, Shared, AllOwned
  <2>4. h \in Singles'
    BY <1>4, <1>6, <2>2, <2>3
  <2>5. QED BY <1>14, <2>3, <2>4
<1>17. Counted'
  <2>1. fd_m_count = Len(fd_list) /\ fd_s_count = Cardinality(Singles)
    BY DEF IInv, Shared, Counted
  <2>2. Cardinality(Singles \ deleted) = Cardinality(Singles) - Cardinality(Singles \cap deleted)
    BY SinglesFinite, FS_Difference
  <2>3. QED BY <1>1, <1>5, <1>6, <1>8, <2>1, <2>2 DEF Counted
<1>18. CursorInList' /\ OpenCardListed' /\ ListHeld'
  <2>1. fd_list = <<>>
    BY DEF IInv, Shared, ListHeld
  <2>2. QED BY <1>7, <1>8, <2>1 DEF IInv, Shared, CursorInList, OpenCardListed, ListHeld
<1>19. QED BY <1>10, <1>11, <1>13, <1>15, <1>16, <1>17, <1>18 DEF IInv, Shared

LEMMA HealthInv == ASSUME IInv, Health PROVE IInv'
<1>1. PICK stale : IF PrefersRedundant THEN MHealth(stale) ELSE SHealth(stale)
  BY DEF Health
<1>2. UNCHANGED <<hw, faults, exiting>> /\ exiting' \in {"no", "marked", "done"}
  BY DEF Health
<1>3. CASE PrefersRedundant
  BY <1>1, <1>2, <1>3, MHealthGives, ChecksListInv
<1>4. CASE ~PrefersRedundant
  BY <1>1, <1>2, <1>4, SHealthInv DEF PrefersRedundant
<1>5. QED BY <1>3, <1>4

LEMMA ExitFixupInv == ASSUME IInv, ExitFixup PROVE IInv'
<1>1. UNCHANGED <<hw, faults, attrib>> /\ exiting' \in {"no", "marked", "done"} /\ exiting # "no"
  BY DEF ExitFixup
<1>2. CASE PrefersRedundant
  <2>1. MHealth({})
    BY <1>2 DEF ExitFixup
  <2>2. QED BY <1>1, <2>1, MHealthGives, ChecksListInv
<1>3. CASE ~PrefersRedundant
  <2>1. SHealth({}) /\ MDevs = {}
    BY <1>3 DEF ExitFixup, PrefersRedundant
  <2>2. QED BY <1>1, <2>1, SHealthInv
<1>4. QED BY <1>2, <1>3

-----------------------------------------------------------------------------
(* Opening                                                                 *)

\* A handle that is opened comes into one of the two lists.
LEMMA NewDevGives ==
  ASSUME IInv, NEW h \in Handles, dev_state[h] = "none",
         NEW c \in Cards \cup {"redundant"}, NEW s \in {"have_fd", "req_close"},
         NEW f \in Fd, NEW ptr \in [Handles -> Fd], NewDev(h, c, s, f, ptr)
  PROVE  /\ dev_state' \in [Handles -> {"none", "have_fd", "req_close", "freed"}]
         /\ card_no' \in [Handles -> Cards \cup {"redundant", None}]
         /\ fd_s' \in [Handles -> Fd] /\ m_fd_ptr' = ptr
         /\ dev_state'[h] = s /\ card_no'[h] = c /\ fd_s'[h] = f
         /\ \A g \in Handles \ {h} :
              dev_state'[g] = dev_state[g] /\ card_no'[g] = card_no[g] /\ fd_s'[g] = fd_s[g]
         /\ h \notin MDevs /\ h \notin SDevs
         /\ MDevs' = IF c = "redundant" THEN MDevs \cup {h} ELSE MDevs
         /\ Singles' = IF c = "redundant" \/ f = INVALID_FD THEN Singles ELSE Singles \cup {h}
<1>1. /\ dev_state \in [Handles -> {"none", "have_fd", "req_close", "freed"}]
      /\ card_no \in [Handles -> Cards \cup {"redundant", None}]
      /\ fd_s \in [Handles -> Fd]
  BY DEF IInv, Types
<1>2. /\ dev_state' = [dev_state EXCEPT ![h] = s] /\ card_no' = [card_no EXCEPT ![h] = c]
      /\ fd_s' = [fd_s EXCEPT ![h] = f] /\ m_fd_ptr' = ptr
  BY DEF NewDev
<1>3. /\ dev_state' \in [Handles -> {"none", "have_fd", "req_close", "freed"}]
      /\ card_no' \in [Handles -> Cards \cup {"redundant", None}]
      /\ fd_s' \in [Handles -> Fd]
      /\ dev_state'[h] = s /\ card_no'[h] = c /\ fd_s'[h] = f
      /\ \A g \in Handles \ {h} :
           dev_state'[g] = dev_state[g] /\ card_no'[g] = card_no[g] /\ fd_s'[g] = fd_s[g]
  BY <1>1, <1>2
<1>4. ~Listed(h) /\ Listed(h)' /\ (Redundant(h)' <=> c = "redundant")
  BY <1>3 DEF Listed, Redundant
<1>5. \A g \in Handles \ {h} : (Listed(g)' <=> Listed(g)) /\ (Redundant(g)' <=> Redundant(g))
  BY <1>3 DEF Listed, Redundant
<1>6. h \notin MDevs /\ h \notin SDevs
  BY <1>4 DEF MDevs, SDevs
<1>7. MDevs' = IF c = "redundant" THEN MDevs \cup {h} ELSE MDevs
  BY <1>4, <1>5, <1>6 DEF MDevs
<1>8. SDevs' = IF c = "redundant" THEN SDevs ELSE SDevs \cup {h}
  BY <1>4, <1>5, <1>6 DEF SDevs
<1>9. SDevs \subseteq Handles \ {h}
  BY <1>6 DEF SDevs
<1>10. Singles' = IF c = "redundant" \/ f = INVALID_FD THEN Singles ELSE Singles \cup {h}
  BY <1>3, <1>8, <1>9 DEF Singles
<1>11. QED BY <1>2, <1>3, <1>6, <1>7, <1>10

\* __genwqe_open_one takes a descriptor that was free.
LEMMA OpenSingleInv ==
  ASSUME IInv, NEW h \in Handles, NEW c \in Cards, c # "redundant", NEW app \in BOOLEAN,
         OpenSingle(h, c, app)
  PROVE  IInv'
<1>1. /\ exiting = "no" /\ dev_state[h] = "none"
      /\ UNCHANGED <<hw, faults, attrib, fd_list, genwqe_state, fd_m_count, inotify_card, call, exiting>>
  BY DEF OpenSingle
<1>2. pc' = pc /\ fd' = fd /\ cmd' = cmd /\ ran' = ran
  BY <1>1 DEF call
<1>3. /\ m_fd_ptr \in [Handles -> Fd] /\ file \in [Fds -> Files] /\ fd_list \in Seq(Nodes)
      /\ INVALID_FD \in Fd /\ INVALID_FD \notin Fds /\ Fds \subseteq Fd
  BY FdAssumption DEF IInv, Types, Fd, INVALID_FD
<1>4. PICK f \in Fd, s \in {"have_fd", "req_close"} :
        /\ NewDev(h, c, s, f, m_fd_ptr)
        /\ \/ /\ f \in Fds /\ file[f] = NoFile /\ fd_s_count' = fd_s_count + 1
              /\ file' = [file EXCEPT ![f] = [card |-> c, live |-> TRUE]]
           \/ f = INVALID_FD /\ file' = file /\ fd_s_count' = fd_s_count
  <2>1. \A good \in BOOLEAN : Outcome(good) \in {"have_fd", "req_close"}
    BY DEF Outcome
  <2>2. CASE Opens(c) /\ FreeFds # {}
    <3>1. Cardinality(FreeFds) # 0
      BY <2>2, FreeFinite, FS_EmptySet
    <3>2. 1 \in 1..Cardinality(FreeFds)
      BY <3>1, FreeFinite
    <3>3. FreeFd(1) \in Fds /\ file[FreeFd(1)] = NoFile
      BY <3>2, FreeFdGives
    <3>4. /\ file' = [file EXCEPT ![FreeFd(1)] = [card |-> c, live |-> TRUE]]
          /\ fd_s_count' = fd_s_count + 1
          /\ NewDev(h, c, Outcome(app), FreeFd(1), m_fd_ptr)
      BY <2>2 DEF OpenSingle
    <3>5. QED BY <1>3, <2>1, <3>3, <3>4
  <2>3. CASE ~(Opens(c) /\ FreeFds # {})
    <3>1. /\ file' = file /\ fd_s_count' = fd_s_count
          /\ NewDev(h, c, Outcome(FALSE), INVALID_FD, m_fd_ptr)
      BY <2>3 DEF OpenSingle
    <3>2. QED BY <1>3, <2>1, <3>1
  <2>4. QED BY <2>2, <2>3
<1>5. /\ dev_state' \in [Handles -> {"none", "have_fd", "req_close", "freed"}]
      /\ card_no' \in [Handles -> Cards \cup {"redundant", None}]
      /\ fd_s' \in [Handles -> Fd] /\ m_fd_ptr' = m_fd_ptr
      /\ dev_state'[h] = s /\ card_no'[h] = c /\ fd_s'[h] = f
      /\ \A g \in Handles \ {h} :
           dev_state'[g] = dev_state[g] /\ card_no'[g] = card_no[g] /\ fd_s'[g] = fd_s[g]
      /\ h \notin MDevs /\ h \notin SDevs
      /\ MDevs' = MDevs
      /\ Singles' = IF f = INVALID_FD THEN Singles ELSE Singles \cup {h}
  BY <1>1, <1>3, <1>4, NewDevGives
<1>6. Singles \subseteq Handles \ {h} /\ MDevs \subseteq Handles \ {h}
  BY <1>5 DEF Singles, SDevs, MDevs
<1>7. fd_list' = fd_list /\ genwqe_state' = genwqe_state /\ ListFds(fd_list)' = ListFds(fd_list)
  BY <1>1 DEF ListFds
<1>8. /\ file' \in [Fds -> Files] /\ \A g \in Fds : file[g] # NoFile => file'[g] = file[g]
      /\ \A g \in Fds : g # f => file'[g] = file[g]
      /\ f # INVALID_FD => f \in Fds /\ file[f] = NoFile /\ file'[f].card = c
  <2>1. CASE f \in Fds
    <3>1. [card |-> c, live |-> TRUE] \in Files
      BY DEF Files
    <3>2. f # INVALID_FD /\ file[f] = NoFile /\ file' = [file EXCEPT ![f] = [card |-> c, live |-> TRUE]]
      BY <1>3, <1>4, <2>1
    <3>3. file' \in [Fds -> Files] /\ \A g \in Fds : g # f => file'[g] = file[g]
      BY <1>3, <2>1, <3>1, <3>2
    <3>4. file'[f].card = c
      BY <1>3, <2>1, <3>2
    <3>5. QED BY <2>1, <3>2, <3>3, <3>4
  <2>2. CASE f = INVALID_FD
    BY <1>3, <1>4, <2>2
  <2>3. QED BY <1>3, <2>1, <2>2 DEF Fd
<1>9. Types'
  BY <1>1, <1>2, <1>5, <1>8 DEF IInv, Types
<1>10. Calls' /\ ExitHolds'
  BY <1>1, <1>2 DEF IInv, Calls, ExitHolds
<1>11. \A g \in ListFds(fd_list) : g \in Fds /\ file[g] # NoFile
  BY <1>3, Head0Gives, ListOpen DEF IInv, Shared
<1>12. Fits(fd_list, file)'
  <2>1. \A i \in DOMAIN fd_list : fd_list[i].fd \in ListFds(fd_list)
    BY DEF ListFds
  <2>2. QED BY <1>7, <1>8, <1>11, <2>1 DEF IInv, Shared, Fits
<1>13. \A g \in Singles : /\ fd_s'[g] = fd_s[g] /\ card_no'[g] = card_no[g] /\ fd_s[g] # f
                          /\ file'[fd_s[g]] = file[fd_s[g]]
  BY <1>3, <1>5, <1>6, <1>8, SingleFd
<1>14. SinglesOwn'
  <2>1. \A g \in Singles' : g \in Singles \/ (g = h /\ f # INVALID_FD)
    BY <1>5
  <2>2. f # INVALID_FD => f \notin ListFds(fd_list)
    BY <1>8, <1>11
  <2>3. QED BY <1>5, <1>7, <1>8, <1>13, <2>1, <2>2 DEF IInv, Shared, SinglesOwn
<1>15. AllOwned'
  <2>1. SUFFICES ASSUME NEW g \in Fds, file'[g] # NoFile, g \notin ListFds(fd_list)
                 PROVE  \E x \in Singles' : fd_s'[x] = g
    BY <1>7 DEF AllOwned
  <2>2. CASE g = f
    <3>1. h \in Singles' /\ fd_s'[h] = g
      BY <1>3, <1>5, <2>2
    <3>2. QED BY <3>1
  <2>3. CASE g # f
    <3>1. file[g] # NoFile
      BY <1>8, <2>1, <2>3
    <3>2. PICK x \in Singles : fd_s[x] = g
      BY <2>1, <3>1 DEF IInv, Shared, AllOwned
    <3>3. x \in Singles' /\ fd_s'[x] = g
      BY <1>5, <1>13, <3>2
    <3>4. QED BY <3>3
  <2>4. QED BY <2>2, <2>3
<1>16. Counted'
  <2>1. fd_m_count = Len(fd_list) /\ fd_s_count = Cardinality(Singles)
    BY DEF IInv, Shared, Counted
  <2>2. Cardinality(Singles \cup {h}) = Cardinality(Singles) + 1
    BY <1>6, SinglesFinite, FS_AddElement
  <2>3. QED BY <1>1, <1>3, <1>4, <1>5, <2>1, <2>2 DEF Counted
<1>17. CursorInList' /\ OpenCardListed' /\ ListHeld'
  BY <1>5, <1>6, <1>7 DEF IInv, Shared, CursorInList, OpenCardListed, ListHeld
<1>18. QED BY <1>9, <1>10, <1>12, <1>14, <1>15, <1>16, <1>17 DEF IInv, Shared

\* __genwqe_open_all opens the cards that are not open yet, and the new handle is at the
\* head of the list.
LEMMA OpenRedundantInv ==
  ASSUME IInv, NEW h \in Handles, NEW app \in BOOLEAN, OpenRedundant(h, app)
  PROVE  IInv'
<1>1. /\ exiting = "no" /\ dev_state[h] = "none"
      /\ UNCHANGED <<hw, faults, attrib, fd_s_count, inotify_card, call, exiting>>
  BY DEF OpenRedundant
<1>2. pc' = pc /\ fd' = fd /\ cmd' = cmd /\ ran' = ran
  BY <1>1 DEF call
<1> DEFINE found(m) == m.opened \cup {c \in Cards : hw[c] # "gone" /\ genwqe_state[c] = "CARD_OPEN"}
           first(m) == IF found(m) = {} THEN INVALID_FD ELSE Head0(m.list)
           Opened(m) ==
             /\ fd_list' = m.list /\ file' = m.files
             /\ genwqe_state' = SetOpen(m.opened)
             /\ fd_m_count' = fd_m_count + Cardinality(m.opened)
             /\ NewDev(h, "redundant", Outcome(first(m) # INVALID_FD /\ app), first(m),
                       [m.ptr EXCEPT ![h] = first(m)])
<1>3. \E order \in {o \in [1..Cardinality(ToOpen) -> ToOpen] : IsInjective(o)} :
        \E m \in {OpenAdd(order)} : Opened(m)
  BY Zenon DEF OpenRedundant
<1> HIDE DEF Opened
<1>4. PICK order \in [1..Cardinality(ToOpen) -> ToOpen] :
        IsInjective(order) /\ \E m \in {OpenAdd(order)} : Opened(m)
  BY <1>3, Zenon
<1>5. PICK m : m = OpenAdd(order) /\ Opened(m)
  BY <1>4, Zenon
<1>6. PICK f \in {INVALID_FD, Head0(m.list)}, good \in BOOLEAN :
        /\ good => f # INVALID_FD
        /\ fd_list' = m.list /\ file' = m.files
        /\ genwqe_state' = SetOpen(m.opened)
        /\ fd_m_count' = fd_m_count + Cardinality(m.opened)
        /\ NewDev(h, "redundant", Outcome(good), f, [m.ptr EXCEPT ![h] = f])
  <2>1. first(m) \in {INVALID_FD, Head0(m.list)} /\ (first(m) # INVALID_FD /\ app) \in BOOLEAN
    OBVIOUS
  <2> HIDE DEF first
  <2>2. QED BY <1>5, <2>1 DEF Opened
<1> HIDE DEF first, found
<1>7. order \in Seq(Cards)
  <2>1. ToOpen \in SUBSET Cards
    BY DEF ToOpen
  <2>2. Cardinality(ToOpen) \in Nat
    BY <2>1, CardAssumption, FS_Subset, FS_CardinalityType
  <2>3. order \in [1..Cardinality(ToOpen) -> Cards]
    BY <1>4, <2>1
  <2> HIDE DEF ToOpen
  <2>4. QED BY <2>2, <2>3
<1>8. ListGrown(m) /\ FilesGrown(m) /\ OpenedGrown(m) /\ PointersGood(m.ptr, m.list)
  BY <1>5, <1>7, <1>4, OpenAddGives DEF IInv, Shared
<1>9. /\ m.list \in Seq(Nodes) /\ Fits(m.list, m.files)
      /\ \A i \in DOMAIN fd_list : i \in DOMAIN m.list /\ m.list[i] = fd_list[i]
      /\ ListFds(fd_list) \subseteq ListFds(m.list)
      /\ \A g \in ListFds(m.list) : g \in ListFds(fd_list) \/ g \in FreeFds
      /\ m.ptr \in [Handles -> Fd]
  BY <1>8 DEF ListGrown, PointersGood
<1>10. f \in Fd /\ f \in ListFds(m.list) \cup {INVALID_FD}
  BY <1>6, <1>9, Head0Gives DEF Fd
<1>11. PICK s \in {"have_fd", "req_close"} :
        /\ NewDev(h, "redundant", s, f, [m.ptr EXCEPT ![h] = f])
        /\ s = "have_fd" => f # INVALID_FD
  BY <1>6 DEF Outcome
<1>12. [m.ptr EXCEPT ![h] = f] \in [Handles -> Fd]
  BY <1>9, <1>10
<1>13. /\ dev_state' \in [Handles -> {"none", "have_fd", "req_close", "freed"}]
       /\ card_no' \in [Handles -> Cards \cup {"redundant", None}]
       /\ fd_s' \in [Handles -> Fd] /\ m_fd_ptr' = [m.ptr EXCEPT ![h] = f]
       /\ dev_state'[h] = s
       /\ \A g \in Handles \ {h} :
            dev_state'[g] = dev_state[g] /\ card_no'[g] = card_no[g] /\ fd_s'[g] = fd_s[g]
       /\ h \notin MDevs /\ h \notin SDevs
       /\ MDevs' = MDevs \cup {h} /\ Singles' = Singles
  <2>1. PICK ptr, c : ptr = [m.ptr EXCEPT ![h] = f] /\ c = "redundant"
    OBVIOUS
  <2>2. NewDev(h, c, s, f, ptr) /\ ptr \in [Handles -> Fd] /\ c \in Cards \cup {"redundant"}
    BY <1>11, <1>12, <2>1
  <2>3. /\ dev_state' \in [Handles -> {"none", "have_fd", "req_close", "freed"}]
        /\ card_no' \in [Handles -> Cards \cup {"redundant", None}]
        /\ fd_s' \in [Handles -> Fd] /\ m_fd_ptr' = ptr
        /\ dev_state'[h] = s
        /\ \A g \in Handles \ {h} :
             dev_state'[g] = dev_state[g] /\ card_no'[g] = card_no[g] /\ fd_s'[g] = fd_s[g]
        /\ h \notin MDevs /\ h \notin SDevs
        /\ MDevs' = IF c = "redundant" THEN MDevs \cup {h} ELSE MDevs
        /\ Singles' = IF c = "redundant" \/ f = INVALID_FD THEN Singles ELSE Singles \cup {h}
    BY <1>1, <1>10, <2>2, NewDevGives
  <2>4. QED BY <2>1, <2>3
<1>14. Singles \subseteq Handles \ {h} /\ MDevs \subseteq Handles \ {h}
  BY <1>13 DEF Singles, SDevs, MDevs
<1>15. ListFds(fd_list)' = ListFds(m.list)
  BY <1>6 DEF ListFds
<1>16. Types'
  <2>1. genwqe_state' \in [Cards -> {"CARD_OPEN", "CARD_CLOSED"}]
    BY <1>6 DEF SetOpen, IInv, Types
  <2>2. file' \in [Fds -> Files] /\ fd_list' \in Seq(Nodes) /\ m_fd_ptr' \in [Handles -> Fd]
    BY <1>6, <1>8, <1>9, <1>12, <1>13 DEF FilesGrown
  <2>3. QED BY <1>1, <1>2, <1>13, <2>1, <2>2 DEF IInv, Types
<1>17. Calls' /\ ExitHolds'
  BY <1>1, <1>2 DEF IInv, Calls, ExitHolds
<1>18. Fits(fd_list, file)'
  BY <1>6, <1>9 DEF Fits
<1>19. \A g \in Singles : /\ fd_s'[g] = fd_s[g] /\ card_no'[g] = card_no[g]
                          /\ file'[fd_s[g]] = file[fd_s[g]] /\ fd_s[g] \notin ListFds(m.list)
  BY <1>6, <1>8, <1>9, <1>13, <1>14, SingleFd DEF FilesGrown, FreeFds
<1>20. SinglesOwn'
  BY <1>13, <1>15, <1>19 DEF IInv, Shared, SinglesOwn
<1>21. AllOwned'
  <2>1. SUFFICES ASSUME NEW g \in Fds, m.files[g] # NoFile, g \notin ListFds(m.list)
                 PROVE  \E x \in Singles : fd_s'[x] = g
    BY <1>6, <1>13, <1>15 DEF AllOwned
  <2>2. file[g] # NoFile /\ g \notin ListFds(fd_list)
    BY <1>8, <1>9, <2>1 DEF FilesGrown
  <2>3. QED BY <1>19, <2>2 DEF IInv, Shared, AllOwned
<1>22. Counted'
  BY <1>1, <1>6, <1>8, <1>13 DEF IInv, Shared, Counted, OpenedGrown
<1>23. CursorInList'
  <2>1. \A g \in MDevs : m_fd_ptr'[g] = m.ptr[g] /\ dev_state'[g] = dev_state[g]
    BY <1>9, <1>13, <1>14
  <2>2. m_fd_ptr'[h] = f
    BY <1>9, <1>13
  <2>3. QED BY <1>6, <1>8, <1>10, <1>11, <1>13, <1>15, <2>1, <2>2 DEF PointersGood, CursorInList
<1>24. OpenCardListed'
  <2>1. SUFFICES ASSUME NEW c \in Cards, genwqe_state'[c] = "CARD_OPEN"
                 PROVE  \E i \in DOMAIN m.list : m.list[i].card = c
    BY <1>6 DEF OpenCardListed
  <2>2. c \in m.opened \/ genwqe_state[c] = "CARD_OPEN"
    BY <1>6, <2>1 DEF SetOpen
  <2>3. QED BY <1>8, <1>9, <2>2 DEF OpenedGrown, IInv, Shared, OpenCardListed
<1>25. ListHeld'
  BY <1>13 DEF ListHeld
<1>26. QED BY <1>16, <1>17, <1>18, <1>20, <1>21, <1>22, <1>23, <1>24, <1>25 DEF IInv, Shared

-----------------------------------------------------------------------------
(* Theorems                                                                *)

LEMMA NextInv == IInv /\ [Next]_vars => IInv'
<1> SUFFICES ASSUME IInv, [Next]_vars PROVE IInv'
  OBVIOUS
<1>1. CASE CardStep
  BY <1>1, CardStepInv
<1>2. CASE \E c \in Cards : Notify(c)
  BY <1>2, NotifyInv
<1>3. CASE Health
  BY <1>3, HealthInv
<1>4. ASSUME NEW h \in Handles, HandleStep(h)
      PROVE  IInv'
  <2>1. ASSUME NEW app \in BOOLEAN, NEW c \in OpensAs[h],
               IF c = "redundant" THEN OpenRedundant(h, app) ELSE OpenSingle(h, c, app)
        PROVE  IInv'
    <3>1. c \in Cards \cup {"redundant"}
      BY OpenAssumption
    <3>2. CASE c = "redundant"
      BY <2>1, <3>2, OpenRedundantInv
    <3>3. CASE c # "redundant"
      BY <2>1, <3>1, <3>3, OpenSingleInv
    <3>4. QED BY <3>2, <3>3
  <2>2. CASE Close(h)
    BY <2>2, CloseInv
  <2>3. CASE UseDescriptor(h)
    BY <2>3, UseDescriptorInv
  <2>4. CASE Execute(h)
    BY <2>4, ExecuteInv
  <2>5. CASE Completes(h)
    BY <2>5, CompletesInv
  <2>6. CASE GivesUp(h)
    BY <2>6, GivesUpInv
  <2>7. CASE Retries(h)
    BY <2>7, RetriesInv
  <2>8. QED BY <1>4, <2>1, <2>2, <2>3, <2>4, <2>5, <2>6, <2>7 DEF HandleStep
<1>5. CASE Exit
  BY <1>5, ExitMarkInv, ExitFixupInv DEF Exit
<1>6. CASE UNCHANGED vars
  <2>1. UNCHANGED <<env, lib, inotify_card, dev, call, exiting>>
    BY <1>6 DEF vars
  <2>2. Shared'
    BY <2>1, SharedSame DEF IInv, env
  <2>3. Types' /\ Calls' /\ ExitHolds'
    BY <2>1 DEF IInv, Types, Calls, ExitHolds, env, lib, dev, call
  <2>4. QED BY <2>2, <2>3 DEF IInv
<1>7. QED BY <1>1, <1>2, <1>3, <1>4, <1>5, <1>6 DEF Next

LEMMA InvHolds == Spec => []IInv
BY InitInv, NextInv, PTL DEF Spec

\* In ListConsistent the sizes are those of the sets that IInv describes one by one.
LEMMA InvImpliesConsistent == IInv => ListConsistent
<1> SUFFICES ASSUME IInv PROVE ListConsistent
  OBVIOUS
<1>1. fd_list \in Seq(Nodes) /\ Len(fd_list) \in Nat /\ DOMAIN fd_list = 1..Len(fd_list)
  BY DEF IInv, Types
<1>2. ListFds(fd_list) \in SUBSET Fds
  BY <1>1, Head0Gives
<1>3. IsFiniteSet(ListFds(fd_list)) /\ Cardinality(ListFds(fd_list)) = Len(fd_list)
  <2> DEFINE F == [i \in 1..Len(fd_list) |-> fd_list[i].fd]
  <2>1. F \in [1..Len(fd_list) -> ListFds(fd_list)]
    BY <1>1 DEF ListFds
  <2>2. \A a, b \in 1..Len(fd_list) : F[a] = F[b] => a = b
    BY <1>1 DEF IInv, Shared, Fits
  <2>3. \A t \in ListFds(fd_list) : \E x \in 1..Len(fd_list) : F[x] = t
    BY <1>1 DEF ListFds
  <2>4. IsFiniteSet(1..Len(fd_list)) /\ Cardinality(1..Len(fd_list)) = Len(fd_list)
    BY <1>1, CountRange
  <2> HIDE DEF F
  <2>5. /\ IsFiniteSet(ListFds(fd_list))
        /\ Cardinality(ListFds(fd_list)) = Cardinality(1..Len(fd_list))
    BY <2>1, <2>2, <2>3, <2>4, CountImage
  <2>6. QED BY <2>4, <2>5
<1> DEFINE used == {fd_s[h] : h \in Singles}
<1>4. used \in SUBSET Fds
  BY SingleFd
<1>5. Cardinality(used) = Cardinality(Singles)
  <2> DEFINE F == [h \in Singles |-> fd_s[h]]
  <2>1. F \in [Singles -> used]
    OBVIOUS
  <2>2. \A a, b \in Singles : F[a] = F[b] => a = b
    BY DEF IInv, Shared, SinglesOwn
  <2>3. \A t \in used : \E x \in Singles : F[x] = t
    OBVIOUS
  <2> HIDE DEF F, used
  <2>4. QED BY <2>1, <2>2, <2>3, SinglesFinite, CountImage
<1>6. fd_m_count = Len(fd_list) /\ fd_s_count = Cardinality(Singles)
  BY DEF IInv, Shared, Counted
<1>7. /\ Cardinality(ListFds(fd_list)) <= Cardinality(Fds) /\ Cardinality(used) <= Cardinality(Fds)
      /\ Cardinality(Fds) \in Nat
  BY <1>2, <1>4, FdAssumption, FS_Subset, FS_CardinalityType
<1>8. {fd_m_count, fd_s_count} \subseteq 0..Cardinality(Fds)
  BY <1>1, <1>3, <1>5, <1>6, <1>7, SinglesFinite
<1>9. \A h \in Handles : ran[h] \in Seq(1..Chain) /\ Len(ran[h]) <= Chain
  <2>1. SUFFICES ASSUME NEW h \in Handles
                 PROVE  ran[h] \in Seq(1..Chain) /\ Len(ran[h]) <= Chain
    OBVIOUS
  <2>2. cmd[h] \in 1..Chain+1
    BY DEF IInv, Types
  <2>3. ran[h] = [i \in 1..cmd[h]-1 |-> i]
    BY <2>2 DEF IInv, Calls, Executed
  <2>4. cmd[h]-1 \in 0..Chain
    BY <2>2, ChainAssumption
  <2>5. QED BY <2>3, <2>4, ChainAssumption
<1>10. TypeOK
  BY <1>8, <1>9 DEF IInv, Types, TypeOK, Nodes, Files, Fd
<1>11. {f \in Fds : file[f] # NoFile} = ListFds(fd_list) \cup used
  <2>1. \A f \in ListFds(fd_list) : file[f] # NoFile
    BY <1>1, ListOpen DEF IInv, Shared
  <2>2. \A f \in used : file[f] # NoFile
    BY SingleFd
  <2>3. \A f \in Fds : file[f] # NoFile => f \in ListFds(fd_list) \cup used
    BY DEF IInv, Shared, AllOwned
  <2> HIDE DEF used
  <2>4. QED BY <1>2, <1>4, <2>1, <2>2, <2>3
<1>12. Singles = {h \in SDevs : fd_s[h] # INVALID_FD}
  BY DEF Singles
<1>13. DescriptorsOwned
  <2>1. \A i \in DOMAIN fd_list : file[fd_list[i].fd].card = fd_list[i].card
    BY DEF IInv, Shared, Fits
  <2>2. \A h \in Singles : file[fd_s[h]].card = card_no[h] /\ fd_s[h] \notin ListFds(fd_list)
    BY DEF IInv, Shared, SinglesOwn
  <2>3. QED BY <1>3, <1>5, <1>6, <1>11, <1>12, <2>1, <2>2, Zenon DEF DescriptorsOwned
<1>14. QED BY <1>10, <1>13 DEF IInv, Shared, ListConsistent

\* The list of descriptors, the open files, the marks of the cards and the pointers of the
\* handles agree after every step of the threads that share them.
THEOREM ListStaysConsistent == Spec => []ListConsistent
BY InvHolds, InvImpliesConsistent, PTL

\* A request that __genwqe_card_execute moves from card to card has no DDCB completed
\* twice, left out, or completed out of order.
THEOREM ChainExecutedOnce == Spec => []ChainOnce
<1>1. IInv => ChainOnce
  BY DEF IInv, Calls, Types, Executed, ChainOnce
<1>2. QED BY <1>1, InvHolds, PTL

\* The one case in which an owner loses a handle.
LostCard(h) == ~Redundant(h) /\ fd_s[h] # INVALID_FD /\ ~Works(fd_s[h]) /\ MDevs = {}

\* Which handles a check of the health thread frees.
LEMMA CheckFrees ==
  ASSUME IInv, NEW stale, IF PrefersRedundant THEN MHealth(stale) ELSE SHealth(stale),
         NEW h \in Handles, dev_state[h] # "freed", dev_state'[h] = "freed"
  PROVE  dev_state[h] = "req_close" \/ LostCard(h)
<1>1. CASE PrefersRedundant
  <2>1. PICK m, deleted, closed : ChecksList(m, deleted, closed)
    BY <1>1, MHealthGives
  <2>2. dev_state'[h] = IF h \in deleted THEN "freed" ELSE dev_state[h]
    BY <2>1 DEF ChecksList, Freed
  <2>3. QED BY <2>1, <2>2 DEF ChecksList
<1>2. CASE ~PrefersRedundant
  <2> DEFINE deleted == {g \in SDevs : \/ dev_state[g] = "req_close"
                                       \/ fd_s[g] # INVALID_FD /\ Bad(fd_s[g], file, stale)}
  <2>1. Freed(deleted, m_fd_ptr)
    BY <1>2, Zenon DEF SHealth
  <2>2. h \in deleted => /\ ~Redundant(h)
                         /\ dev_state[h] # "req_close" => fd_s[h] # INVALID_FD /\ ~Works(fd_s[h])
    BY DEF SDevs, Bad, Works
  <2> HIDE DEF deleted
  <2>3. dev_state'[h] = IF h \in deleted THEN "freed" ELSE dev_state[h]
    BY <2>1 DEF Freed
  <2>4. QED BY <1>2, <2>2, <2>3 DEF LostCard, PrefersRedundant
<1>3. QED BY <1>1, <1>2

\* __mhealth_check frees only what was closed, __shealth_check what was closed or lost its
\* card, and nothing else frees a handle.
LEMMA FreedStep ==
  ASSUME IInv, [Next]_vars, NEW h \in Handles, dev_state[h] # "freed", dev_state'[h] = "freed"
  PROVE  dev_state[h] = "req_close" \/ LostCard(h)
<1>1. dev_state \in [Handles -> {"none", "have_fd", "req_close", "freed"}]
  BY DEF IInv, Types
<1>2. CASE Health
  BY <1>2, CheckFrees DEF Health
<1>3. CASE ExitFixup
  BY <1>3, CheckFrees DEF ExitFixup
<1>4. CASE CardStep \/ (\E c \in Cards : Notify(c)) \/ UNCHANGED vars
  BY <1>4 DEF CardStep, CardFails, CardGoes, CardReturns, Notify, vars, dev
<1>5. CASE ExitMark
  BY <1>1, <1>5 DEF ExitMark
<1>6. ASSUME NEW g \in Handles, HandleStep(g)
      PROVE  FALSE
  <2>1. CASE Close(g)
    BY <1>1, <2>1 DEF Close
  <2>2. CASE UseDescriptor(g) \/ Execute(g) \/ Completes(g) \/ GivesUp(g) \/ Retries(g)
    BY <2>2 DEF UseDescriptor, Execute, Completes, GivesUp, Retries, dev
  <2>3. ASSUME NEW app \in BOOLEAN, NEW c, OpenRedundant(g, app) \/ OpenSingle(g, c, app)
        PROVE  FALSE
    <3>1. \A good : Outcome(good) # "freed"
      BY DEF Outcome
    <3>2. \E s : s # "freed" /\ dev_state' = [dev_state EXCEPT ![g] = s]
      BY <2>3, <3>1, Zenon DEF OpenRedundant, OpenSingle, NewDev
    <3>3. QED BY <1>1, <3>2
  <2>4. QED BY <1>6, <2>1, <2>2, <2>3 DEF HandleStep
<1>7. QED BY <1>2, <1>3, <1>4, <1>5, <1>6 DEF Next, Exit

\* The health thread and the destructor free a handle only after its owner, or the
\* destructor, asked for it, or if it is a single one whose card failed while no redundant
\* handle was left.
THEOREM HandlesFreedForCause == Spec => FreedForCause
<1>1. IInv /\ [Next]_vars =>
        (\A h \in Handles : dev_state[h] # "freed" /\ dev_state'[h] = "freed" =>
           \/ dev_state[h] = "req_close"
           \/ ~Redundant(h) /\ fd_s[h] # INVALID_FD /\ ~Works(fd_s[h]) /\ MDevs = {})
  BY FreedStep DEF LostCard
<1>2. QED BY <1>1, InvHolds, PTL DEF Spec, FreedForCause

\* The last check of the destructor
LEMMA ExitStep ==
  ASSUME IInv, ExitFixup
  PROVE  fd_list' = <<>> /\ MDevs' = {} /\ (SDevs' # {} => MDevs # {})
<1>1. \A h \in Handles : Listed(h) => dev_state[h] = "req_close"
  BY DEF IInv, ExitHolds, ExitFixup, Listed
<1>2. CASE PrefersRedundant
  <2>1. MHealth({}) /\ MDevs # {}
    BY <1>2 DEF ExitFixup, PrefersRedundant
  <2>2. PICK m, deleted, closed :
          ListGrown(m) /\ PointersGood(m.ptr, m.list) /\ ChecksList(m, deleted, closed)
    BY <2>1, MHealthGives
  <2>3. /\ deleted = {h \in MDevs : dev_state[h] = "req_close"}
        /\ closed \in SUBSET NodesOf(m.list) /\ (deleted = MDevs => closed = NodesOf(m.list))
        /\ fd_list' = Without(m.list, closed)
        /\ dev_state' = [h \in Handles |-> IF h \in deleted THEN "freed" ELSE dev_state[h]]
        /\ card_no' = [h \in Handles |-> IF h \in deleted THEN None ELSE card_no[h]]
    BY <2>2 DEF ChecksList, Freed
  <2>4. deleted = MDevs
    BY <1>1, <2>3 DEF MDevs
  <2>5. /\ m.list \in Seq(Nodes)
        /\ \A i, j \in DOMAIN m.list : m.list[i].fd = m.list[j].fd => i = j
    BY <2>2 DEF ListGrown, Fits
  <2>6. fd_list' \in Seq(Nodes) /\ NodesOf(fd_list') = {}
    BY <2>3, <2>4, <2>5, WithoutGives
  <2>7. fd_list' = <<>>
    BY <2>6 DEF NodesOf
  <2>8. MDevs' = {}
    <3>1. \A h \in Handles : Listed(h)' => h \notin deleted /\ Listed(h)
      BY <2>3 DEF Listed
    <3>2. \A h \in Handles : h \notin deleted => card_no'[h] = card_no[h]
      BY <2>3
    <3>3. QED BY <2>4, <3>1, <3>2 DEF MDevs, Redundant
  <2>9. QED BY <2>1, <2>7, <2>8
<1>3. CASE ~PrefersRedundant
  <2> DEFINE deleted == {h \in SDevs : \/ dev_state[h] = "req_close"
                                       \/ fd_s[h] # INVALID_FD /\ Bad(fd_s[h], file, {})}
  <2>1. SHealth({}) /\ MDevs = {}
    BY <1>3 DEF ExitFixup, PrefersRedundant
  <2>2. Freed(deleted, m_fd_ptr) /\ fd_list' = fd_list
    BY <2>1, Zenon DEF SHealth
  <2>3. SDevs \subseteq deleted
    BY <1>1 DEF SDevs
  <2> HIDE DEF deleted
  <2>4. m_fd_ptr \in [Handles -> Fd]
    BY DEF IInv, Types
  <2>5. MDevs' = MDevs \ deleted /\ SDevs' = SDevs \ deleted
    BY <2>2, <2>4, FreedGives
  <2>6. fd_list = <<>>
    BY <2>1 DEF IInv, Shared, ListHeld
  <2>7. QED BY <2>1, <2>2, <2>3, <2>5, <2>6
<1>4. QED BY <1>2, <1>3

\* When the destructor is done no shared descriptor and no redundant handle is left, and
\* single handles only if there were redundant ones too.
THEOREM ExitClosesShared == Spec => ExitClosesCards
<1>1. IInv /\ [Next]_vars =>
        (exiting' = "done" /\ vars' # vars => ExitFixup)
  BY DEF Next, CardStep, CardFails, CardGoes, CardReturns, Fault, Notify, Health, HandleStep, OpenRedundant,
     OpenSingle, Close, UseDescriptor, Execute, Completes, GivesUp, Retries, Exit, ExitMark
<1>2. IInv /\ [Next]_vars =>
        [exiting' = "done" => fd_list' = <<>> /\ MDevs' = {} /\ (SDevs' # {} => MDevs # {})]_vars
  BY <1>1, ExitStep
<1>3. QED BY <1>2, InvHolds, PTL DEF Spec, ExitClosesCards
=============================================================================
