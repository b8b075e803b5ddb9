----------------------------- MODULE LoadProofs -----------------------------
(***************************************************************************)
(* What is proved about the loader, for any image, memory and number of    *)
(* processors: write protection comes back, and a program that was linked  *)
(* well sees what the file has.                                            *)
(***************************************************************************)
EXTENDS Integers, Sequences, WellFoundedInduction, TLAPS

-----------------------------------------------------------------------------
(* Numbers.                                                                *)

\* Quotient and remainder.
LEMMA Division ==
  ASSUME NEW n \in Nat \ {0}, NEW a \in Nat
  PROVE  a \div n \in Nat /\ a % n \in 0..n - 1 /\ a = (a \div n) * n + (a % n)
OBVIOUS

LEMMA Multiples ==
  ASSUME NEW n \in Nat \ {0}, NEW a \in Int, NEW b \in Int, a < b
  PROVE  a * n + n <= b * n
<1>1. b = a + 1 + (b - a - 1) /\ b - a - 1 \in Nat
  OBVIOUS
<1>2. \A m \in Nat : (a + 1 + m) * n = a * n + n + m * n /\ m * n \in Nat
  OBVIOUS
<1> QED BY <1>1, <1>2

\* A number has one quotient and one remainder.
LEMMA OneQuotient ==
  ASSUME NEW n \in Nat \ {0}, NEW a \in Int, NEW b \in Int, NEW x \in 0..n - 1, NEW y \in 0..n - 1,
         a * n + x = b * n + y
  PROVE  a = b /\ x = y
<1>1. ~(a < b)
  <2> SUFFICES ASSUME a < b PROVE FALSE
    OBVIOUS
  <2>1. a * n + n <= b * n
    BY Multiples
  <2>2. a * n \in Int /\ b * n \in Int
    OBVIOUS
  <2> QED BY <2>1, <2>2
<1>2. ~(b < a)
  <2> SUFFICES ASSUME b < a PROVE FALSE
    OBVIOUS
  <2>1. b * n + n <= a * n
    BY Multiples
  <2>2. a * n \in Int /\ b * n \in Int
    OBVIOUS
  <2> QED BY <2>1, <2>2
<1>3. a = b
  BY <1>1, <1>2
<1>4. a * n \in Int
  OBVIOUS
<1> QED BY <1>3, <1>4

LEMMA Cancel ==
  ASSUME NEW n \in Nat \ {0}, NEW a \in Int, NEW b \in Int, a * n < b * n
  PROVE  a < b
<1> SUFFICES ASSUME ~(a < b) PROVE FALSE
  OBVIOUS
<1>1. b = a \/ b < a
  OBVIOUS
<1>2. b < a => b * n + n <= a * n
  BY Multiples
<1>3. a * n \in Int /\ b * n \in Int
  OBVIOUS
<1> QED BY <1>1, <1>2, <1>3

LEMMA RoundUp ==
  ASSUME NEW n \in Nat \ {0}, NEW a \in Nat
  PROVE  LET q == (a + n - 1) \div n IN q \in Nat /\ a <= q * n /\ q * n < a + n
<1> DEFINE s == a + n - 1
           q == s \div n
<1>1. s \in Nat
  OBVIOUS
<1>2. q \in Nat /\ s % n \in 0..n - 1 /\ s = q * n + (s % n)
  BY <1>1, Division, Zenon
<1>3. q * n \in Nat
  BY <1>2
<1>4. a <= q * n /\ q * n < a + n
  BY <1>2, <1>3
<1> QED BY <1>2, <1>4, Zenon

\* A nonempty set of natural numbers has a least element.
LEMMA LeastNat ==
  ASSUME NEW T \in SUBSET Nat, T # {}
  PROVE  \E m \in T : \A n \in T : m <= n
<1>1. IsWellFoundedOn(OpToRel(<, Nat), Nat)
  BY NatLessThanWellFounded, Zenon
<1>2. \E m \in T : \A n \in T : ~(<<n, m>> \in OpToRel(<, Nat))
  BY <1>1, WFMin, Zenon
<1>3. \A n, m \in Nat : <<n, m>> \in OpToRel(<, Nat) <=> n < m
  BY Zenon DEF OpToRel
<1>4. PICK m \in T : \A n \in T : ~(n < m)
  BY <1>2, <1>3, Zenon
<1>5. \A n \in T : m <= n
  BY <1>4
<1> QED BY <1>5, Zenon

\* And, if it is bounded, a greatest.
LEMMA GreatestNat ==
  ASSUME NEW T \in SUBSET Nat, T # {}, NEW b \in Nat, \A n \in T : n <= b
  PROVE  \E m \in T : \A n \in T : n <= m
<1> DEFINE U == {b - n : n \in T}
<1>1. U \in SUBSET Nat /\ U # {}
  <2>1. \A n \in T : b - n \in Nat
    OBVIOUS
  <2> QED BY <2>1, Zenon
<1>2. PICK u \in U : \A v \in U : u <= v
  <2> HIDE DEF U
  <2> QED BY <1>1, LeastNat, Zenon
<1>3. PICK m \in T : u = b - m
  BY Zenon
<1>4. \A n \in T : b - m <= b - n
  BY <1>2, <1>3, Zenon
<1>5. \A n \in T : n <= m
  BY <1>4
<1> QED BY <1>5, Zenon

-----------------------------------------------------------------------------
(* The program loader.                                                     *)

CONSTANTS Processors, ProgramFrames, PageBytes, Pages, Images, KernelFrames
VARIABLES memory, image, code, tables, l_frames, shell, l_pc, l_i, l_first, processor, protected, kernel,
          moved, rejected

L == INSTANCE Program WITH Frames <- ProgramFrames, frames <- l_frames, pc <- l_pc, i <- l_i, first <- l_first

\* The shell starts no program before the last thread is gone.  As long as the
\* thread did not move with the protection off, its own processor is the one
\* without protection while it copies.
LoaderInv ==
  /\ protected \in [Processors -> BOOLEAN] /\ processor \in Processors
  /\ moved \in BOOLEAN /\ rejected \in BOOLEAN
  /\ shell = "ready" => l_pc = "none"
  /\ L!WriteProtectionRestored
  /\ ~moved /\ l_pc \in {"copy", "protect"} => ~protected[processor]

LEMMA LoaderStep == LoaderInv /\ [L!Next]_(L!vars) => LoaderInv'
<1> SUFFICES ASSUME LoaderInv, [L!Next]_(L!vars) PROVE LoaderInv'
  BY Zenon
<1>1. ASSUME UNCHANGED <<processor, protected, moved>>, rejected' \in {rejected, TRUE},
             l_pc \in {"copy", "protect"} /\ l_pc' \notin {"copy", "protect"} => rejected' \/ moved,
             l_pc' \in {"copy", "protect"} => l_pc \in {"copy", "protect"},
             l_pc' = "fault" => l_pc = "fault",
             shell' = "ready" => l_pc' = "none"
      PROVE  LoaderInv'
  <2>1. processor' = processor /\ protected' = protected /\ moved' = moved /\ rejected' \in BOOLEAN
    BY <1>1, Zenon DEF LoaderInv
  <2>2. rejected => rejected'
    BY <1>1, Zenon
  <2>3. L!WriteProtectionRestored'
    BY <1>1, <2>1, <2>2 DEF LoaderInv, L!WriteProtectionRestored
  <2> QED BY <1>1, <2>1, <2>3 DEF LoaderInv
<1>2. CASE \/ \E img \in Images : L!run(img)
           \/ L!load_elf_check \/ L!load_elf_map
           \/ L!elf_prepare_failed \/ L!elf_prepare \/ L!elf_prepare_stack
           \/ L!syscall_exit \/ L!exit_this_thread \/ L!wait_process
           \/ L!kernel_allocate \/ (\E f \in ProgramFrames : L!kernel_free(f)) \/ UNCHANGED L!vars
  <2>1. UNCHANGED <<processor, protected, moved, rejected>>
    BY <1>2, Zenon DEF L!run, L!load_elf_check, L!load_elf_map, L!elf_prepare_failed, L!elf_prepare,
         L!elf_prepare_stack, L!syscall_exit, L!exit_this_thread, L!wait_process, L!kernel_allocate,
         L!kernel_free, L!vars, L!history
  <2>2. \/ l_pc' = l_pc
        \/ l_pc \notin {"copy", "protect"} /\ l_pc' \notin {"copy", "protect", "fault"}
    <3>1. CASE \E img \in Images : L!run(img)
      BY <3>1, ZenonT(60) DEF LoaderInv, L!run
    <3>2. CASE L!load_elf_check \/ L!load_elf_map
      BY <3>2, Zenon DEF L!load_elf_check, L!load_elf_map, L!load_failed
    <3>3. CASE L!elf_prepare_failed \/ L!elf_prepare \/ L!elf_prepare_stack
      BY <3>3, Zenon DEF L!elf_prepare_failed, L!elf_prepare, L!elf_prepare_stack
    <3>4. CASE L!syscall_exit \/ L!exit_this_thread \/ L!wait_process
      BY <3>4, Zenon DEF L!syscall_exit, L!exit_this_thread, L!wait_process
    <3>5. CASE L!kernel_allocate \/ (\E f \in ProgramFrames : L!kernel_free(f)) \/ UNCHANGED L!vars
      BY <3>5, Zenon DEF L!kernel_allocate, L!kernel_free, L!vars, L!thread
    <3> QED BY <1>2, <3>1, <3>2, <3>3, <3>4, <3>5, ZenonT(60)
  <2>3. shell' = "ready" => l_pc' = "none"
    BY <1>2, Zenon DEF LoaderInv, L!run, L!load_elf_check, L!load_elf_map, L!elf_prepare_failed, L!elf_prepare,
         L!elf_prepare_stack, L!syscall_exit, L!exit_this_thread, L!wait_process, L!kernel_allocate,
         L!kernel_free, L!vars, L!thread
  <2> QED BY <1>1, <2>1, <2>2, <2>3, ZenonT(60)
<1>3. CASE L!load_elf_unprotect
  BY <1>3, ZenonT(60) DEF L!load_elf_unprotect, LoaderInv, L!WriteProtectionRestored, L!history
<1>4. CASE L!load_elf_copy
  <2>1. UNCHANGED <<shell, processor, protected, moved>> /\ l_pc = "copy"
    BY <1>4, Zenon DEF L!load_elf_copy
  <2>2. \/ l_pc' \in {"copy", "protect"} /\ rejected' = rejected
        \/ l_pc' = "failed" /\ rejected' = TRUE
        \/ l_pc' = "fault" /\ protected[processor] /\ rejected' = rejected
    BY <1>4, Zenon DEF L!load_elf_copy, L!load_failed
  <2> QED BY <2>1, <2>2, ZenonT(60) DEF LoaderInv, L!WriteProtectionRestored
<1>5. CASE L!load_elf_protect
  BY <1>5, Zenon DEF L!load_elf_protect, LoaderInv, L!WriteProtectionRestored, L!history
<1>6. ASSUME NEW p \in Processors, L!migrate(p) PROVE LoaderInv'
  BY <1>6, Zenon DEF L!migrate, L!thread, LoaderInv, L!WriteProtectionRestored
<1> QED BY <1>2, <1>3, <1>4, <1>5, <1>6, ZenonT(60) DEF L!Next, L!Step

\* For any programs and any number of processors: a copy of load_elf only
\* faults, and a processor only stays without write protection, when the thread
\* moved in between or a segment was refused after the protection was off.
THEOREM ProtectionComesBack == L!Spec => []L!WriteProtectionRestored
<1>1. L!Init => LoaderInv
  BY Zenon DEF L!Init, LoaderInv, L!WriteProtectionRestored
<1>2. LoaderInv => L!WriteProtectionRestored
  BY ZenonT(60) DEF LoaderInv
<1> QED BY <1>1, <1>2, LoaderStep, PTL DEF L!Spec

-----------------------------------------------------------------------------
(* What a program sees.                                                    *)

Header == [type : Nat, offset : Nat, address : Nat, filesize : Nat, memsize : Nat]

LoaderAssumption ==
  /\ ProgramFrames \subseteq Nat \ {0}
  /\ PageBytes \in Nat \ {0} /\ Pages \in Nat \ {0}
  /\ \A img \in Images : img.size \in Nat /\ img.headers \in Seq(Header)

\* An image as a linker makes it: there is something to load, every segment lies
\* below the stack, and what it has in the file is there.
Linked ==
  /\ L!Segments # {}
  /\ \A s \in L!Segments :
       LET h == image.headers[s]
       IN  /\ h.address + h.memsize <= L!stack_page * PageBytes
           /\ h.filesize <= h.memsize /\ h.offset + h.filesize <= image.size

\* The addresses of a segment, and the byte it has at one of them.
Span(s) == image.headers[s].address..image.headers[s].address + image.headers[s].memsize - 1

LinkedByte(s, a) ==
  LET h == image.headers[s] IN IF a < h.address + h.filesize THEN h.offset + a - h.address + 1 ELSE 0

Seen(a) == memory[tables[a \div PageBytes].frame][a % PageBytes]

\* Every frame has one owner, and load_elf and the process hold each once.
OwnersInv ==
  /\ code \in Seq(ProgramFrames) /\ l_frames \in Seq(ProgramFrames) /\ kernel \subseteq ProgramFrames
  /\ DOMAIN memory = ProgramFrames
  /\ \A x \in DOMAIN code, y \in DOMAIN l_frames : code[x] # l_frames[y]
  /\ \A x \in DOMAIN code : code[x] \notin kernel
  /\ \A y \in DOMAIN l_frames : l_frames[y] \notin kernel
  /\ \A x, y \in DOMAIN l_frames : l_frames[x] = l_frames[y] => x = y

Loading == {"check", "map", "unprotect", "copy", "protect", "loaded"}

\* The image keeps the file while it is loaded.
FileInv ==
  /\ image.size \in Nat /\ image.headers \in Seq(Header)
  /\ l_pc \in Loading /\ Linked =>
       /\ image.size <= Len(code) * PageBytes
       /\ \A x \in DOMAIN code, o \in L!Offsets : memory[code[x]][o] = L!Loaded(image, x, o)

Base == l_first \div PageBytes

\* The first n pages of the program are mapped, in order, and no other below the
\* stack.
Mapped(n) ==
  \A p \in 0..L!stack_page - 1 :
    tables[p] = IF p \in Base..Base + n - 1
                THEN [frame |-> l_frames[p - Base + 1], user |-> TRUE, write |-> FALSE] ELSE L!absent

\* The segments before n have been copied.
CopiedTo(n) ==
  \A s \in L!Segments, a \in Nat :
    /\ s < n /\ a \in Span(s)
    /\ \A u \in L!Segments : s < u /\ u < n => a \notin Span(u)
    => Seen(a) = LinkedByte(s, a)

LEMMA HeaderFacts ==
  ASSUME FileInv, NEW s \in L!Segments
  PROVE  /\ s \in 1..Len(image.headers) /\ Len(image.headers) \in Nat
         /\ image.headers[s].address \in Nat /\ image.headers[s].memsize \in Nat
         /\ image.headers[s].offset \in Nat /\ image.headers[s].filesize \in Nat
<1>1. image.headers \in Seq(Header)
  BY Zenon DEF FileInv
<1>2. s \in DOMAIN image.headers
  BY Zenon DEF L!Segments
<1>3. image.headers[s] \in Header /\ s \in 1..Len(image.headers) /\ Len(image.headers) \in Nat
  BY <1>1, <1>2, SMTT(30)
<1> QED BY <1>3, SMTT(30) DEF Header

\* The pages from segment_first on hold all segments, and end below the stack.
LEMMA LinkedPages ==
  ASSUME LoaderAssumption, FileInv, Linked, l_first = L!SegmentFirst
  PROVE  /\ Base \in Nat /\ L!NumFrames \in Nat /\ Base + L!NumFrames <= L!stack_page
         /\ \A s \in L!Segments : \A a \in Span(s) :
              a \in Nat /\ a \div PageBytes \in Base..Base + L!NumFrames - 1 /\ a % PageBytes \in L!Offsets
<1> DEFINE B == PageBytes
           starts == {image.headers[s].address : s \in L!Segments} \cup {L!AddressLimit - 1}
           ends == {image.headers[s].address + image.headers[s].memsize : s \in L!Segments} \cup {0}
           low == CHOOSE a \in starts : \A b \in starts : a <= b
           last == L!SegmentLast
           top == L!stack_page * PageBytes
<1>1. B \in Nat \ {0} /\ Pages \in Nat \ {0} /\ L!stack_page \in Nat /\ L!AddressLimit = top + B
      /\ top \in Nat /\ L!AddressLimit \in Nat \ {0} /\ L!stack_page = Pages - 1
  BY DEF LoaderAssumption, L!stack_page, L!AddressLimit
<1>2. starts \subseteq Nat /\ starts # {}
  <2>1. L!AddressLimit - 1 \in Nat
    BY <1>1
  <2>2. \A s \in L!Segments : image.headers[s].address \in Nat
    BY HeaderFacts, ZenonT(60)
  <2> QED BY <2>1, <2>2, ZenonT(60)
<1>3. low \in starts /\ \A b \in starts : low <= b
  <2> HIDE DEF starts
  <2>1. \E a \in starts : \A b \in starts : a <= b
    BY <1>2, LeastNat, Zenon
  <2> QED BY <2>1, Zenon
<1>4. ends \subseteq Nat /\ ends # {} /\ \A a \in ends : a <= top
  <2>1. \A s \in L!Segments : image.headers[s].address + image.headers[s].memsize \in Nat
    <3> TAKE s \in L!Segments
    <3>1. image.headers[s].address \in Nat /\ image.headers[s].memsize \in Nat
      BY HeaderFacts, Zenon
    <3> QED BY <3>1
  <2>2. \A s \in L!Segments : image.headers[s].address + image.headers[s].memsize <= top
    BY Zenon DEF Linked
  <2>3. 0 <= top
    BY <1>1
  <2>4. 0 \in Nat
    OBVIOUS
  <2> HIDE DEF top
  <2> QED BY <2>1, <2>2, <2>3, <2>4, ZenonT(60)
<1>5. last \in ends /\ \A b \in ends : b <= last
  <2>1. last = CHOOSE a \in ends : \A b \in ends : a >= b
    BY Zenon DEF L!SegmentLast
  <2> HIDE DEF ends, top
  <2>2. \E a \in ends : \A b \in ends : b <= a
    BY <1>1, <1>4, GreatestNat, ZenonT(60)
  <2>3. \E a \in ends : \A b \in ends : a >= b
    BY <1>4, <2>2
  <2>4. last \in ends /\ \A b \in ends : last >= b
    BY <2>1, <2>3, Zenon
  <2> HIDE DEF last
  <2> QED BY <1>4, <2>4
<1>6. l_first = (low \div B) * B
  BY Zenon DEF L!SegmentFirst
<1>7. low \in Nat /\ last \in Nat /\ last <= top
  <2> HIDE DEF starts, low, ends, last, top
  <2> QED BY <1>2, <1>3, <1>4, <1>5, ZenonT(60)
<1>8. \A s \in L!Segments :
        low <= image.headers[s].address /\ image.headers[s].address + image.headers[s].memsize <= last
  <2> HIDE DEF low, last
  <2> QED BY <1>3, <1>5, ZenonT(60)
<1>9. low <= last
  <2>1. PICK s \in L!Segments : TRUE
    BY Zenon DEF Linked
  <2>2. image.headers[s].address \in Nat /\ image.headers[s].memsize \in Nat
    BY HeaderFacts, Zenon
  <2> HIDE DEF low, last
  <2> QED BY <1>7, <1>8, <2>2
<1> HIDE DEF starts, ends, low, last, top, B
<1> DEFINE q == low \div B
<1>10. q \in Nat /\ q * B \in Nat /\ q * B <= low /\ low < q * B + B
  <2>1. q \in Nat /\ low % B \in 0..B - 1 /\ low = q * B + (low % B)
    BY <1>1, <1>7, Division, Zenon
  <2>2. q * B \in Nat
    BY <1>1, <2>1
  <2> QED BY <1>1, <1>7, <2>1, <2>2, SMTT(30)
<1> HIDE DEF q
<1>11. l_first = q * B
  BY <1>6, Zenon DEF q
<1>12. Base = q
  <2> DEFINE z == (q * B) \div B
  <2>1. z \in Nat /\ (q * B) % B \in 0..B - 1 /\ q * B = z * B + ((q * B) % B)
    BY <1>1, <1>10, Division, ZenonT(60)
  <2> DEFINE y == (q * B) % B
  <2> HIDE DEF z, y
  <2>2. y \in 0..B - 1 /\ q * B + 0 = z * B + y /\ 0 \in 0..B - 1 /\ q \in Int /\ z \in Int
    BY <1>1, <1>10, <2>1 DEF y
  <2>3. q = z
    BY <1>1, <2>2, OneQuotient
  <2> QED BY <1>11, <2>3, Zenon DEF Base, z, B
<1> DEFINE d == last - l_first
           n == (d + B - 1) \div B
<1>13. d \in Nat /\ d + B - 1 \in 0..L!AddressLimit - 1 /\ l_first + d = last
  BY <1>1, <1>7, <1>9, <1>10, <1>11
<1>14. L!NumFrames = n
  <2> DEFINE v == L!AddressLimit
             u == d + B - 1
  <2> HIDE DEF v, u
  <2>1. v \in Nat \ {0} /\ u \in 0..v - 1
    BY <1>1, <1>13, SMTT(30) DEF u, v
  <2>2. u % v = u
    BY <2>1
  <2>3. L!NumFrames = (u % v) \div B
    BY Zenon DEF L!NumFrames, u, v, d, last, B
  <2> QED BY <2>2, <2>3, ZenonT(60) DEF u
<1> HIDE DEF d
<1>15. n \in Nat /\ d <= n * B /\ n * B < d + B /\ n * B \in Nat
  <2>1. n \in Nat /\ d <= n * B /\ n * B < d + B
    BY <1>1, <1>13, RoundUp, ZenonT(60)
  <2> HIDE DEF n
  <2> QED BY <1>1, <2>1, SMTT(30)
<1> HIDE DEF n
<1>16. (q + n) * B = q * B + n * B
  BY <1>1, <1>10, <1>15
<1>17. q + n <= L!stack_page
  <2> DEFINE g == L!stack_page
             e == q + n
  <2>1. e \in Int /\ g \in Int
    BY <1>1, <1>10, <1>15
  <2>2. e * B < g * B + B
    <3>1. e * B < last + B
      BY <1>1, <1>7, <1>10, <1>11, <1>13, <1>15, <1>16, SMTT(30)
    <3> QED BY <1>1, <1>7, <1>10, <1>15, <1>16, <3>1, SMTT(30) DEF top, B
  <2> HIDE DEF e, g
  <2>3. ~(g < e)
    <3>1. g < e => g * B + B <= e * B
      BY <1>1, <2>1, Multiples, SMTT(30)
    <3>2. e * B \in Int /\ g * B \in Int
      BY <1>1, <2>1, SMTT(30)
    <3> QED BY <1>1, <2>2, <3>1, <3>2, SMTT(30)
  <2> QED BY <2>1, <2>3 DEF e, g
<1>18. ASSUME NEW s \in L!Segments, NEW a \in Span(s)
       PROVE  a \in Nat /\ a \div B \in q..q + n - 1 /\ a % B \in 0..B - 1
  <2>1. image.headers[s].address \in Nat /\ image.headers[s].memsize \in Nat
    BY HeaderFacts, ZenonT(60)
  <2>2. a \in Nat /\ q * B <= a /\ a < (q + n) * B
    BY <1>1, <1>7, <1>8, <1>10, <1>11, <1>13, <1>15, <1>16, <2>1, SMTT(30) DEF Span
  <2>3. a \div B \in Nat /\ a % B \in 0..B - 1 /\ a = (a \div B) * B + (a % B)
    BY <1>1, <2>2, Division, SMTT(30)
  <2> DEFINE z == a \div B
             y == a % B
             e == q + n
  <2>4. e \in Int /\ q \in Int
    BY <1>10, <1>15, SMTT(30)
  <2> HIDE DEF z, y, e
  <2>5. z \in Nat /\ y \in 0..B - 1 /\ a = z * B + y /\ z * B \in Int
    BY <1>1, <2>3, SMTT(30) DEF z, y
  <2>6. ~(z < q)
    <3>1. z < q => z * B + B <= q * B
      BY <1>1, <2>4, <2>5, Multiples, SMTT(30)
    <3> QED BY <1>1, <1>10, <2>2, <2>5, <3>1, SMTT(30)
  <2>7. z < e
    <3>1. z * B < e * B
      <4>1. e * B \in Int
        BY <1>1, <2>4, SMTT(30)
      <4> QED BY <1>1, <2>2, <2>5, <4>1, SMTT(30) DEF e
    <3> QED BY <1>1, <2>4, <2>5, <3>1, Cancel, SMTT(30)
  <2>8. z \in q..q + n - 1
    BY <1>10, <1>15, <2>5, <2>6, <2>7, SMTT(30) DEF e
  <2> QED BY <2>2, <2>3, <2>8, SMTT(30) DEF z
<1> QED BY <1>10, <1>12, <1>14, <1>15, <1>17, <1>18, SMTT(30) DEF B, L!Offsets

Placing == {"unprotect", "copy", "protect", "loaded", "stack"}

\* What holds for every image.
PhaseInv ==
  /\ DOMAIN tables = 0..Pages - 1
  /\ shell = "ready" => l_pc = "none"
  /\ l_pc \in {"none", "check", "failed"} => l_frames = <<>>
  /\ l_pc \in {"none", "check"} => tables = L!NewTables
  /\ l_pc \in {"none", "stack", "user", "exit", "exited"} => code = <<>>
  /\ l_pc = "map" => l_i \in Nat
  /\ l_pc = "copy" => l_i \in Nat \ {0}

\* What holds for one that is well linked: how far the pages have been mapped,
\* and the segments copied.
LinkedInv ==
  Linked =>
    /\ l_pc \in Placing \cup {"map", "user"} => l_first = L!SegmentFirst
    /\ l_pc \in Placing \cup {"map"} => tables[L!stack_page] = L!absent
    /\ l_pc = "map" => (l_i = 0 \/ l_i <= L!NumFrames) /\ Len(l_frames) = l_i /\ Mapped(l_i)
    /\ l_pc \in Placing \cup {"user"} => Mapped(L!NumFrames)
    /\ l_pc \in Placing => Len(l_frames) = L!NumFrames
    /\ l_pc = "copy" => CopiedTo(l_i)
    /\ l_pc \in {"protect", "loaded", "stack", "user"} => CopiedTo(Len(image.headers) + 1)
    /\ l_pc = "user" =>
         /\ Len(l_frames) = L!NumFrames + 1
         /\ tables[L!stack_page] = [frame |-> l_frames[L!NumFrames + 1], user |-> TRUE, write |-> TRUE]

LinkInv == OwnersInv /\ FileInv /\ PhaseInv /\ LinkedInv

LEMMA FreeFacts ==
  ASSUME OwnersInv, NEW f \in L!Free
  PROVE  /\ f \in ProgramFrames /\ f \notin kernel
         /\ \A x \in DOMAIN code : code[x] # f
         /\ \A x \in DOMAIN l_frames : l_frames[x] # f
BY Zenon DEF L!Free, L!Range

LEMMA SingleFacts ==
  ASSUME LoaderAssumption, L!Free # {}
  PROVE  L!allocate_single \in L!Free
<1>1. L!Free \in SUBSET Nat
  BY Zenon DEF L!Free, LoaderAssumption
<1>2. \E f \in L!Free : \A g \in L!Free : f <= g
  BY <1>1, LeastNat, Zenon
<1> QED BY <1>2, ZenonT(60) DEF L!allocate_single

\* allocate returns consecutive free frames, as many as were asked for.
LEMMA RunFacts ==
  ASSUME LoaderAssumption, NEW n \in Nat, L!allocate(n) # <<>>
  PROVE  LET got == L!allocate(n)
         IN  /\ got \in Seq(L!Free) /\ Len(got) = n /\ n > 0
             /\ \A x \in 1..n : got[x] - got[1] + 1 = x
<1> DEFINE runs == {f \in L!Free : f..f + n - 1 \subseteq L!Free}
           f == CHOOSE g \in runs : \A h \in runs : g <= h
           got == L!allocate(n)
<1>1. runs # {} /\ got = [x \in 1..n |-> f + x - 1]
  BY Zenon DEF L!allocate
<1>2. runs \in SUBSET Nat
  BY Zenon DEF L!Free, LoaderAssumption
<1>3. f \in runs
  <2> HIDE DEF runs
  <2>1. \E g \in runs : \A h \in runs : g <= h
    BY <1>1, <1>2, LeastNat, Zenon
  <2> QED BY <2>1, Zenon
<1>4. f \in Nat /\ f..f + n - 1 \subseteq L!Free
  BY <1>2, <1>3, Zenon
<1> HIDE DEF f, runs
<1>5. \A x \in 1..n : f + x - 1 \in f..f + n - 1
  BY <1>4
<1>6. \A x \in 1..n : f + x - 1 \in L!Free
  BY <1>4, <1>5, ZenonT(60)
<1> HIDE DEF got
<1>7. n > 0
  <2> SUFFICES ASSUME n = 0 PROVE FALSE
    OBVIOUS
  <2>1. got = [x \in 1..0 |-> f + x - 1]
    BY <1>1, ZenonT(60)
  <2>2. got = <<>>
    BY <2>1
  <2> QED BY <2>2, ZenonT(60) DEF got
<1>8. got \in Seq(L!Free) /\ Len(got) = n
  BY <1>1, <1>6
<1>9. \A x \in 1..n : got[x] = f + x - 1
  BY <1>1, Zenon
<1>10. got[1] = f
  <2>1. 1 \in 1..n
    BY <1>7
  <2>2. got[1] = f + 1 - 1
    BY <1>9, <2>1, ZenonT(60)
  <2> QED BY <1>4, <2>2
<1>11. \A x \in 1..n : got[x] - got[1] + 1 = x
  BY <1>4, <1>9, <1>10, SMTT(30)
<1> QED BY <1>7, <1>8, <1>11, Zenon DEF got

LEMMA ImageByteRight ==
  ASSUME LoaderAssumption, OwnersInv, FileInv, Linked, l_pc \in Loading, NEW n \in Nat, n < image.size
  PROVE  L!ImageByte(n) = n + 1
<1> DEFINE B == PageBytes
           z == n \div B
           y == n % B
           m == Len(code)
<1>1. B \in Nat \ {0} /\ image.size \in Nat /\ image.size <= m * B
  BY ZenonT(60) DEF LoaderAssumption, FileInv
<1>2. m \in Nat /\ DOMAIN code = 1..m
  BY DEF OwnersInv
<1>3. \A x \in DOMAIN code, o \in L!Offsets : memory[code[x]][o] = L!Loaded(image, x, o)
  BY Zenon DEF FileInv
<1>4. L!ImageByte(n) = memory[code[z + 1]][y]
  BY Zenon DEF L!ImageByte
<1>5. L!Offsets = 0..B - 1
  BY ZenonT(60) DEF L!Offsets
<1>6. z \in Nat /\ y \in 0..B - 1 /\ n = z * B + y
  BY <1>1, Division, ZenonT(60)
<1>7. L!Loaded(image, z + 1, y) = IF ((z + 1) - 1) * B + y < image.size THEN ((z + 1) - 1) * B + y + 1 ELSE L!stale
  BY Zenon DEF L!Loaded
<1> HIDE DEF B, z, y, m
<1>8. (z + 1) - 1 = z
  BY <1>6
<1>9. z + 1 \in 1..m
  <2>1. z * B \in Int /\ m * B \in Int
    BY <1>1, <1>2, <1>6
  <2>2. z * B < m * B
    BY <1>1, <1>6, <2>1, SMTT(30)
  <2>3. z < m
    BY <1>1, <1>2, <1>6, <2>2, Cancel, SMTT(30)
  <2> QED BY <1>2, <1>6, <2>3
<1>10. memory[code[z + 1]][y] = L!Loaded(image, z + 1, y)
  BY <1>2, <1>3, <1>5, <1>6, <1>9, ZenonT(60)
<1>11. L!Loaded(image, z + 1, y) = n + 1
  BY <1>6, <1>7, <1>8, SMTT(30)
<1> QED BY <1>4, <1>10, <1>11, ZenonT(60)

\* Every address of a segment is mapped to a byte of its own.
LEMMA OwnBytes ==
  ASSUME LoaderAssumption, OwnersInv, FileInv, Linked, l_first = L!SegmentFirst, Mapped(L!NumFrames),
         L!NumFrames <= Len(l_frames)
  PROVE  /\ \A s \in L!Segments : \A a \in Span(s) :
              /\ a % PageBytes \in L!Offsets
              /\ \E x \in DOMAIN l_frames : tables[a \div PageBytes].frame = l_frames[x]
         /\ \A s, u \in L!Segments : \A a \in Span(s), b \in Span(u) :
              /\ tables[a \div PageBytes].frame = tables[b \div PageBytes].frame
              /\ a % PageBytes = b % PageBytes
              => a = b
<1> DEFINE B == PageBytes
           N == L!NumFrames
<1>1. B \in Nat \ {0} /\ Pages \in Nat /\ L!stack_page = Pages - 1
  BY DEF LoaderAssumption, L!stack_page
<1>2. /\ Base \in Nat /\ N \in Nat /\ Base + N <= L!stack_page
      /\ \A s \in L!Segments : \A a \in Span(s) :
           a \in Nat /\ a \div B \in Base..Base + N - 1 /\ a % B \in L!Offsets
  BY LinkedPages, ZenonT(60)
<1>3. DOMAIN l_frames = 1..Len(l_frames) /\ Len(l_frames) \in Nat /\ N <= Len(l_frames)
  BY SMTT(30) DEF OwnersInv
<1> HIDE DEF N
<1>4. ASSUME NEW p \in Base..Base + N - 1
      PROVE  tables[p].frame = l_frames[p - Base + 1] /\ p - Base + 1 \in DOMAIN l_frames
  <2>1. p \in 0..L!stack_page - 1 /\ p - Base + 1 \in 1..Len(l_frames)
    BY <1>1, <1>2, <1>3, SMTT(30)
  <2>2. tables[p] = [frame |-> l_frames[p - Base + 1], user |-> TRUE, write |-> FALSE]
    BY <2>1, ZenonT(60) DEF Mapped, N
  <2> QED BY <1>3, <2>1, <2>2, SMTT(30)
<1>5. \A s \in L!Segments : \A a \in Span(s) :
        /\ a % PageBytes \in L!Offsets
        /\ \E x \in DOMAIN l_frames : tables[a \div PageBytes].frame = l_frames[x]
  BY <1>2, <1>4, ZenonT(60)
<1>6. ASSUME NEW s \in L!Segments, NEW u \in L!Segments, NEW a \in Span(s), NEW b \in Span(u),
             tables[a \div B].frame = tables[b \div B].frame, a % B = b % B
      PROVE  a = b
  <2>1. a \in Nat /\ b \in Nat /\ a \div B \in Base..Base + N - 1 /\ b \div B \in Base..Base + N - 1
    BY <1>2, Zenon
  <2>2. (a \div B) - Base + 1 = (b \div B) - Base + 1
    <3>1. l_frames[(a \div B) - Base + 1] = l_frames[(b \div B) - Base + 1]
      BY <1>4, <1>6, <2>1, ZenonT(60)
    <3> QED BY <1>4, <2>1, <3>1, ZenonT(60) DEF OwnersInv
  <2>3. a = (a \div B) * B + (a % B) /\ b = (b \div B) * B + (b % B)
    BY <1>1, <2>1, Division, SMTT(30)
  <2> DEFINE v == a \div B
             w == b \div B
  <2> HIDE DEF v, w
  <2>4. v = w
    <3>1. v \in Int /\ w \in Int /\ v - Base + 1 = w - Base + 1
      BY <1>2, <2>1, <2>2, SMTT(30) DEF v, w
    <3> QED BY <1>2, <3>1, SMTT(30)
  <2> QED BY <1>6, <2>3, <2>4, ZenonT(60) DEF v, w
<1> QED BY <1>5, <1>6, ZenonT(60)

\* The copy of a segment puts its bytes where the program sees them, and
\* changes nothing else that it sees, nor the image.
LEMMA StoreRight ==
  ASSUME LoaderAssumption, OwnersInv, FileInv, Linked, l_pc \in Loading, l_first = L!SegmentFirst,
         Mapped(L!NumFrames), L!NumFrames <= Len(l_frames),
         NEW s \in L!Segments, memory' = L!Copied(image.headers[s])
  PROVE  /\ \A u \in L!Segments : \A a \in Span(u) :
              memory'[tables[a \div PageBytes].frame][a % PageBytes] =
                IF a \in Span(s) THEN LinkedByte(s, a) ELSE Seen(a)
         /\ \A x \in DOMAIN code, o \in L!Offsets : memory'[code[x]][o] = memory[code[x]][o]
<1> DEFINE h == image.headers[s]
           at(f, o) == {a \in Span(s) : tables[a \div PageBytes].frame = f /\ a % PageBytes = o}
           value(a) == IF a < h.address + h.filesize THEN L!ImageByte(h.offset + a - h.address) ELSE 0
<1>1. memory' = [f \in ProgramFrames |-> [o \in L!Offsets |->
                   IF at(f, o) = {} THEN memory[f][o] ELSE value(CHOOSE a \in at(f, o) : TRUE)]]
  BY Zenon DEF L!Copied, L!Stored, Span
<1>2. \A a \in Span(s) : value(a) = LinkedByte(s, a)
  <2> SUFFICES ASSUME NEW a \in Span(s), a < h.address + h.filesize
               PROVE  L!ImageByte(h.offset + a - h.address) = h.offset + a - h.address + 1
    BY Zenon DEF LinkedByte
  <2>1. h.address \in Nat /\ h.memsize \in Nat /\ h.offset \in Nat /\ h.filesize \in Nat
    BY HeaderFacts, Zenon
  <2>2. h.offset + h.filesize <= image.size /\ image.size \in Nat
    BY ZenonT(60) DEF Linked, FileInv
  <2> DEFINE n == h.offset + a - h.address
  <2>3. n \in Nat /\ n < image.size /\ n + 1 = h.offset + a - h.address + 1
    <3>1. a \in h.address..h.address + h.memsize - 1 /\ a < h.address + h.filesize
      BY Zenon DEF Span
    <3> HIDE DEF h
    <3>2. a \in Nat /\ h.address <= a /\ a - h.address < h.filesize
      BY <2>1, <3>1
    <3> QED BY <2>1, <2>2, <3>2, SMTT(30)
  <2> HIDE DEF n
  <2>5. L!ImageByte(n) = n + 1
    BY <2>3, ImageByteRight, ZenonT(60)
  <2> QED BY <2>3, <2>5, ZenonT(60) DEF n
<1> HIDE DEF value
<1>3. ASSUME NEW u \in L!Segments, NEW a \in Span(u)
      PROVE  memory'[tables[a \div PageBytes].frame][a % PageBytes] =
               IF a \in Span(s) THEN LinkedByte(s, a) ELSE Seen(a)
  <2> DEFINE f == tables[a \div PageBytes].frame
             o == a % PageBytes
  <2>1. f \in ProgramFrames /\ o \in L!Offsets
    <3>1. o \in L!Offsets /\ \E x \in DOMAIN l_frames : f = l_frames[x]
      BY OwnBytes, ZenonT(60)
    <3>2. \A x \in DOMAIN l_frames : l_frames[x] \in ProgramFrames
      BY DEF OwnersInv
    <3> QED BY <3>1, <3>2, ZenonT(60)
  <2>2. \A b \in at(f, o) : b = a
    BY OwnBytes, Zenon
  <2>3. a \in Span(s) => at(f, o) = {a}
    BY <2>2, Zenon
  <2>4. a \notin Span(s) => at(f, o) = {}
    BY <2>2, Zenon
  <2> HIDE DEF at
  <2>5. memory'[f][o] = IF at(f, o) = {} THEN memory[f][o] ELSE value(CHOOSE b \in at(f, o) : TRUE)
    <3> HIDE DEF f, o
    <3>1. memory'[f] = [z \in L!Offsets |->
                          IF at(f, z) = {} THEN memory[f][z] ELSE value(CHOOSE b \in at(f, z) : TRUE)]
      BY <1>1, <2>1, ZenonT(60)
    <3> QED BY <2>1, <3>1, ZenonT(60)
  <2>6. (CHOOSE b \in {a} : TRUE) = a
    BY Zenon
  <2>7. CASE a \in Span(s)
    <3>1. at(f, o) # {} /\ (CHOOSE b \in at(f, o) : TRUE) = a
      BY <2>3, <2>6, <2>7, ZenonT(60)
    <3>2. memory'[f][o] = value(a)
      BY <2>5, <3>1, ZenonT(60)
    <3> QED BY <1>2, <2>7, <3>2, ZenonT(60)
  <2>8. CASE a \notin Span(s)
    BY <2>4, <2>5, <2>8, ZenonT(60) DEF Seen
  <2> QED BY <2>7, <2>8, ZenonT(60)
<1>4. ASSUME NEW x \in DOMAIN code, NEW o \in L!Offsets
      PROVE  memory'[code[x]][o] = memory[code[x]][o]
  <2>1. code[x] \in ProgramFrames
    BY DEF OwnersInv
  <2>2. at(code[x], o) = {}
    <3>1. \A a \in Span(s) : tables[a \div PageBytes].frame # code[x]
      BY OwnBytes, Zenon DEF OwnersInv
    <3> QED BY <3>1, Zenon
  <2> HIDE DEF at
  <2> QED BY <1>1, <2>1, <2>2, ZenonT(60)
<1> QED BY <1>3, <1>4, ZenonT(60)

LEMMA SameImage ==
  ASSUME image' = image
  PROVE  /\ L!Segments' = L!Segments /\ (Linked' <=> Linked) /\ L!SegmentFirst' = L!SegmentFirst
         /\ \A s : Span(s)' = Span(s)
         /\ \A s, a : LinkedByte(s, a)' = LinkedByte(s, a)
         /\ l_first' = l_first => Base' = Base /\ L!NumFrames' = L!NumFrames
<1>1. L!Segments' = L!Segments
  BY Zenon DEF L!Segments
<1>2. L!SegmentFirst' = L!SegmentFirst /\ L!SegmentLast' = L!SegmentLast
  <2>1. L!SegmentFirst' = L!SegmentFirst
    BY <1>1 DEF L!SegmentFirst
  <2>2. L!SegmentLast' = L!SegmentLast
    BY <1>1 DEF L!SegmentLast
  <2> QED BY <2>1, <2>2, ZenonT(60)
<1>3. Linked' <=> Linked
  BY <1>1, Zenon DEF Linked
<1>4. \A s : Span(s)' = Span(s)
  BY Zenon DEF Span
<1>5. \A s, a : LinkedByte(s, a)' = LinkedByte(s, a)
  BY Zenon DEF LinkedByte
<1>6. l_first' = l_first => Base' = Base /\ L!NumFrames' = L!NumFrames
  BY <1>2, Zenon DEF Base, L!NumFrames
<1> QED BY <1>1, <1>2, <1>3, <1>4, <1>5, <1>6, ZenonT(60)

\* What was copied stays while its frames are left alone.
LEMMA SeenSame ==
  ASSUME LoaderAssumption, OwnersInv, FileInv, Linked, l_first = L!SegmentFirst, Mapped(L!NumFrames),
         L!NumFrames <= Len(l_frames), image' = image,
         \A p \in 0..L!stack_page - 1 : tables'[p] = tables[p],
         \A x \in DOMAIN l_frames : memory'[l_frames[x]] = memory[l_frames[x]],
         NEW n, CopiedTo(n)
  PROVE  CopiedTo(n)'
<1>1. \A s \in L!Segments : \A a \in Span(s) : Seen(a)' = Seen(a)
  <2> SUFFICES ASSUME NEW s \in L!Segments, NEW a \in Span(s) PROVE Seen(a)' = Seen(a)
    BY Zenon
  <2>1. \E x \in DOMAIN l_frames : tables[a \div PageBytes].frame = l_frames[x]
    BY OwnBytes, Zenon
  <2>2. a \div PageBytes \in 0..L!stack_page - 1
    <3>1. /\ Base \in Nat /\ L!NumFrames \in Nat /\ Base + L!NumFrames <= L!stack_page
          /\ a \div PageBytes \in Base..Base + L!NumFrames - 1
      BY LinkedPages, Zenon
    <3>2. L!stack_page \in Int
      BY DEF LoaderAssumption, L!stack_page
    <3> QED BY <3>1, <3>2
  <2> QED BY <2>1, <2>2, ZenonT(60) DEF Seen
<1>2. L!Segments' = L!Segments
  BY SameImage, Zenon
<1>3. \A s : Span(s)' = Span(s)
  BY SameImage, Zenon
<1>4. \A s, a : LinkedByte(s, a)' = LinkedByte(s, a)
  BY SameImage, ZenonT(60)
<1> SUFFICES ASSUME NEW s \in L!Segments, NEW a \in Nat, s < n, a \in Span(s),
                    \A u \in L!Segments : s < u /\ u < n => a \notin Span(u)
             PROVE  Seen(a)' = LinkedByte(s, a)
  BY <1>2, <1>3, <1>4, ZenonT(60) DEF CopiedTo
<1> QED BY <1>1, ZenonT(60) DEF CopiedTo

LEMMA OwnersKept ==
  ASSUME OwnersInv, code' \in {code, <<>>}, l_frames' \in {l_frames, <<>>}, kernel' \subseteq kernel,
         DOMAIN memory' = ProgramFrames
  PROVE  OwnersInv'
<1>1. <<>> \in Seq(ProgramFrames) /\ DOMAIN <<>> = {}
  OBVIOUS
<1>2. code' \in Seq(ProgramFrames) /\ (code' = code \/ DOMAIN code' = {})
  BY <1>1, ZenonT(60) DEF OwnersInv
<1>3. l_frames' \in Seq(ProgramFrames) /\ (l_frames' = l_frames \/ DOMAIN l_frames' = {})
  BY <1>1, ZenonT(60) DEF OwnersInv
<1> QED BY <1>2, <1>3, ZenonT(60) DEF OwnersInv

LEMMA AppendFacts ==
  ASSUME OwnersInv, NEW f \in ProgramFrames
  PROVE  LET g == Append(l_frames, f)
         IN  /\ g \in Seq(ProgramFrames) /\ Len(g) = Len(l_frames) + 1 /\ Len(l_frames) \in Nat
             /\ DOMAIN l_frames = 1..Len(l_frames) /\ DOMAIN g = 1..Len(l_frames) + 1
             /\ \A x \in 1..Len(l_frames) : g[x] = l_frames[x]
             /\ g[Len(l_frames) + 1] = f
<1>1. l_frames \in Seq(ProgramFrames)
  BY Zenon DEF OwnersInv
<1> QED BY <1>1, SMTT(30)

LEMMA OwnersAppend ==
  ASSUME LoaderAssumption, OwnersInv, NEW f \in L!Free, l_frames' = Append(l_frames, f),
         UNCHANGED <<code, kernel, memory>>
  PROVE  OwnersInv'
<1> DEFINE n == Len(l_frames)
<1>1. /\ f \in ProgramFrames /\ f \notin kernel
      /\ \A x \in DOMAIN code : code[x] # f
      /\ \A x \in DOMAIN l_frames : l_frames[x] # f
  BY FreeFacts, ZenonT(60)
<1>2. /\ l_frames' \in Seq(ProgramFrames) /\ n \in Nat
      /\ DOMAIN l_frames = 1..n /\ DOMAIN l_frames' = 1..n + 1
      /\ \A x \in 1..n : l_frames'[x] = l_frames[x]
      /\ l_frames'[n + 1] = f
  BY <1>1, AppendFacts, ZenonT(60)
<1> HIDE DEF n
<1>3. \A x \in 1..n + 1 : x \in 1..n \/ x = n + 1
  BY <1>2, SMTT(30)
<1>4. ASSUME NEW x \in DOMAIN l_frames' PROVE l_frames'[x] \notin kernel /\ \A y \in DOMAIN code : code[y] # l_frames'[x]
  <2>1. CASE x = n + 1
    BY <1>1, <1>2, <2>1, ZenonT(60)
  <2>2. CASE x \in 1..n
    <3>1. l_frames'[x] = l_frames[x] /\ x \in DOMAIN l_frames
      BY <1>2, <2>2, ZenonT(60)
    <3> QED BY <3>1, Zenon DEF OwnersInv
  <2> QED BY <1>2, <1>3, <2>1, <2>2, ZenonT(60)
<1>5. ASSUME NEW x \in DOMAIN l_frames', NEW y \in DOMAIN l_frames', l_frames'[x] = l_frames'[y] PROVE x = y
  <2>1. \A u \in 1..n : l_frames'[u] # f
    BY <1>1, <1>2, ZenonT(60)
  <2>2. CASE x = n + 1 \/ y = n + 1
    BY <1>2, <1>3, <1>5, <2>1, <2>2, ZenonT(60)
  <2>3. CASE x \in 1..n /\ y \in 1..n
    BY <1>2, <1>5, <2>3, ZenonT(60) DEF OwnersInv
  <2> QED BY <1>2, <1>3, <2>2, <2>3, ZenonT(60)
<1> QED BY <1>2, <1>4, <1>5, ZenonT(60) DEF OwnersInv

LEMMA FileKept ==
  ASSUME FileInv, UNCHANGED <<image, code>>, l_pc' \in Loading => l_pc \in Loading,
         \A x \in DOMAIN code, o \in L!Offsets : l_pc' \in Loading /\ Linked => memory'[code[x]][o] = memory[code[x]][o]
  PROVE  FileInv'
BY SameImage, ZenonT(60) DEF FileInv, L!Loaded, L!Offsets

LEMMA FileLeft ==
  ASSUME FileInv, image' = image, l_pc' \notin Loading
  PROVE  FileInv'
BY Zenon DEF FileInv

\* A step that leaves the pages and what they hold alone.
LEMMA LinkedKept ==
  ASSUME LoaderAssumption, LinkInv, UNCHANGED <<image, l_first, tables, l_frames>>,
         \A x \in DOMAIN l_frames : memory'[l_frames[x]] = memory[l_frames[x]],
         l_pc' \in Placing => l_pc \in Placing,
         l_pc' = "map" => l_pc = "map" /\ l_i' = l_i,
         l_pc' = "user" => l_pc = "user",
         Linked /\ l_pc' = "copy" => CopiedTo(l_i'),
         Linked /\ l_pc' \in {"protect", "loaded", "stack", "user"} => CopiedTo(Len(image.headers) + 1)
  PROVE  LinkedInv'
<1>1. Linked' <=> Linked
  BY SameImage, Zenon
<1>2. L!SegmentFirst' = L!SegmentFirst /\ L!NumFrames' = L!NumFrames
  BY SameImage, Zenon
<1>3. \A n : Mapped(n)' <=> Mapped(n)
  BY SameImage, Zenon DEF Mapped
<1> SUFFICES ASSUME Linked PROVE LinkedInv'
  BY <1>1, Zenon DEF LinkedInv
<1>4. ASSUME l_pc' \in Placing \cup {"user"}, NEW n, CopiedTo(n) PROVE CopiedTo(n)'
  <2>1. l_pc \in Placing \cup {"user"}
    BY <1>4, Zenon
  <2>2. l_first = L!SegmentFirst /\ Mapped(L!NumFrames)
    BY <2>1, Zenon DEF LinkInv, LinkedInv
  <2>3. L!NumFrames \in Nat
    BY <2>2, LinkedPages, ZenonT(60) DEF LinkInv
  <2>4. Len(l_frames) = L!NumFrames \/ Len(l_frames) = L!NumFrames + 1
    BY <2>1, ZenonT(60) DEF LinkInv, LinkedInv
  <2>5. L!NumFrames <= Len(l_frames)
    BY <2>3, <2>4
  <2> QED BY <1>4, <2>2, <2>5, SeenSame, ZenonT(60) DEF LinkInv
<1>5. l_pc' \in Placing \cup {"map", "user"} => l_first' = L!SegmentFirst'
  BY <1>2, Zenon DEF LinkInv, LinkedInv
<1>6. l_pc' \in Placing \cup {"map"} => tables'[L!stack_page] = L!absent
  BY Zenon DEF LinkInv, LinkedInv
<1>7. l_pc' = "map" => (l_i' = 0 \/ l_i' <= L!NumFrames') /\ Len(l_frames') = l_i' /\ Mapped(l_i)'
  BY <1>2, <1>3, ZenonT(60) DEF LinkInv, LinkedInv
<1>8. l_pc' \in Placing \cup {"user"} => Mapped(L!NumFrames)'
  BY <1>2, <1>3, ZenonT(60) DEF LinkInv, LinkedInv
<1>9. l_pc' \in Placing => Len(l_frames') = L!NumFrames'
  BY <1>2, ZenonT(60) DEF LinkInv, LinkedInv
<1>10. l_pc' = "copy" => CopiedTo(l_i)'
  BY <1>4, ZenonT(60) DEF Placing
<1>11. l_pc' \in {"protect", "loaded", "stack", "user"} => CopiedTo(Len(image.headers) + 1)'
  BY <1>4, ZenonT(60) DEF Placing
<1>12. l_pc' = "user" =>
         /\ Len(l_frames') = L!NumFrames' + 1
         /\ tables'[L!stack_page] = [frame |-> l_frames'[L!NumFrames' + 1], user |-> TRUE, write |-> TRUE]
  BY <1>2, ZenonT(60) DEF LinkInv, LinkedInv
<1> QED BY <1>5, <1>6, <1>7, <1>8, <1>9, <1>10, <1>11, <1>12, Zenon DEF LinkedInv

\* Frames given back are stale, the others hold what they did.
LEMMA GivenBack ==
  ASSUME NEW S, L!given_back(S)
  PROVE  DOMAIN memory' = ProgramFrames /\ \A f \in ProgramFrames \ S : memory'[f] = memory[f]
BY Zenon DEF L!given_back

LEMMA RunLinks ==
  ASSUME LoaderAssumption, LinkInv, NEW img \in Images, L!run(img)
  PROVE  LinkInv'
<1> DEFINE n == L!FramesFor(img.size)
           got == L!allocate(n)
<1>1. /\ shell = "ready" /\ got # <<>> /\ code' = got /\ image' = img /\ tables' = L!NewTables
      /\ memory' = [f \in ProgramFrames |-> IF f \in L!Range(got)
            THEN [o \in L!Offsets |-> L!Loaded(img, f - got[1] + 1, o)] ELSE memory[f]]
      /\ shell' = "wait" /\ l_pc' = "check" /\ UNCHANGED <<l_frames, kernel>>
  BY Zenon DEF L!run
<1>2. img.size \in Nat /\ img.headers \in Seq(Header) /\ PageBytes \in Nat \ {0}
  BY Zenon DEF LoaderAssumption
<1>3. n \in Nat /\ img.size <= n * PageBytes
  BY <1>2, RoundUp, ZenonT(60) DEF L!FramesFor
<1>4. /\ got \in Seq(L!Free) /\ Len(got) = n /\ n > 0
      /\ \A x \in 1..n : got[x] - got[1] + 1 = x
  <2> HIDE DEF n
  <2> QED BY <1>1, <1>3, RunFacts, ZenonT(60)
<1> HIDE DEF got, n
<1>5. DOMAIN got = 1..n /\ \A x \in 1..n : got[x] \in L!Free
  BY <1>4
<1>6. \A x \in 1..n : got[x] \in ProgramFrames /\ got[x] \notin kernel
  BY <1>5, FreeFacts, ZenonT(60) DEF LinkInv
<1>7. l_pc = "none" /\ l_frames = <<>>
  BY <1>1, Zenon DEF LinkInv, PhaseInv
<1>8. DOMAIN l_frames = {}
  BY <1>7
<1>9. OwnersInv'
  <2>1. got \in Seq(ProgramFrames)
    BY <1>4, <1>5, <1>6, SMTT(30)
  <2>2. DOMAIN memory' = ProgramFrames
    BY <1>1, ZenonT(60)
  <2> QED BY <1>1, <1>5, <1>6, <1>8, <2>1, <2>2, ZenonT(60) DEF LinkInv, OwnersInv
<1>10. FileInv'
  <2>1. \A x \in 1..n, o \in L!Offsets : memory'[got[x]][o] = L!Loaded(img, x, o)
    <3> TAKE x \in 1..n, o \in L!Offsets
    <3>1. got[x] \in L!Range(got)
      BY <1>5, ZenonT(60) DEF L!Range
    <3>2. memory'[got[x]] = [z \in L!Offsets |-> L!Loaded(img, got[x] - got[1] + 1, z)]
      BY <1>1, <1>6, <3>1, ZenonT(60)
    <3> QED BY <1>4, <3>2, Zenon
  <2>2. \A x, o : L!Loaded(image, x, o)' = L!Loaded(img, x, o)
    BY <1>1, Zenon DEF L!Loaded
  <2>3. Len(code') * PageBytes = n * PageBytes
    BY <1>1, <1>4, ZenonT(60)
  <2> QED BY <1>1, <1>2, <1>3, <1>5, <2>1, <2>2, <2>3, ZenonT(60) DEF FileInv, L!Offsets
<1>11. PhaseInv'
  <2>1. DOMAIN tables' = 0..Pages - 1
    BY <1>1, Zenon DEF L!NewTables
  <2> QED BY <1>1, <1>7, <2>1, ZenonT(60) DEF PhaseInv, L!NewTables, L!absent
<1>12. LinkedInv'
  BY <1>1, Zenon DEF LinkedInv, Placing
<1> QED BY <1>9, <1>10, <1>11, <1>12, ZenonT(60) DEF LinkInv

LEMMA BaseNumber == LoaderAssumption /\ FileInv /\ Linked /\ l_first = L!SegmentFirst => Base \in Int
<1>1. LoaderAssumption /\ FileInv /\ Linked /\ l_first = L!SegmentFirst => Base \in Nat
  BY LinkedPages, Zenon
<1> QED BY <1>1

LEMMA CheckLinks ==
  ASSUME LoaderAssumption, LinkInv, L!load_elf_check
  PROVE  LinkInv'
<1>1. /\ l_pc = "check" /\ UNCHANGED <<memory, image, code, tables, l_frames, shell, kernel>>
      /\ l_pc' \in {"map", "failed"}
      /\ l_pc' = "map" => l_i' = 0 /\ l_first' = L!SegmentFirst
  BY Zenon DEF L!load_elf_check, L!file, L!process
<1>2. OwnersInv'
  BY <1>1, Zenon DEF LinkInv, OwnersInv
<1>3. FileInv'
  BY <1>1, FileKept, ZenonT(60) DEF LinkInv, Loading
<1>4. l_frames = <<>> /\ tables = L!NewTables
  BY <1>1, ZenonT(60) DEF LinkInv, PhaseInv
<1>5. Len(l_frames) = 0 /\ 0 \in Nat
  BY <1>4
<1>6. PhaseInv'
  BY <1>1, <1>4, <1>5, ZenonT(60) DEF LinkInv, PhaseInv
<1>7. LinkedInv'
  <2>1. L!SegmentFirst' = L!SegmentFirst
    BY <1>1, SameImage, ZenonT(60)
  <2>2. \A p \in 0..Pages - 1 : tables'[p] = L!absent
    BY <1>1, <1>4, ZenonT(60) DEF L!NewTables
  <2>3. L!stack_page \in 0..Pages - 1 /\ \A p \in 0..L!stack_page - 1 : p \in 0..Pages - 1
    BY DEF LoaderAssumption, L!stack_page
  <2>4. l_pc' = "map" /\ Linked' => Base' \in Int
    <3>1. (LoaderAssumption /\ FileInv /\ Linked /\ l_first = L!SegmentFirst => Base \in Int)'
      BY BaseNumber, PTL
    <3> QED BY <1>1, <1>3, <2>1, <3>1, ZenonT(60)
  <2> QED BY <1>1, <1>5, <2>1, <2>2, <2>3, <2>4, SMTT(30) DEF LinkedInv, Mapped, Placing
<1> QED BY <1>2, <1>3, <1>6, <1>7, ZenonT(60) DEF LinkInv

LEMMA MapLinks ==
  ASSUME LoaderAssumption, LinkInv, L!load_elf_map
  PROVE  LinkInv'
<1> DEFINE f == L!allocate_single
<1>1. l_pc = "map" /\ UNCHANGED <<image, code, l_first, shell, kernel>> /\ l_i \in Nat
  BY Zenon DEF L!load_elf_map, L!file, LinkInv, PhaseInv
<1>2. \/ /\ l_i = L!NumFrames /\ l_pc' = "unprotect" /\ UNCHANGED <<memory, tables, l_frames>>
      \/ L!load_failed
      \/ /\ l_i # L!NumFrames /\ L!Free # {} /\ l_frames' = Append(l_frames, f)
         /\ tables' = [tables EXCEPT ![Base + l_i] = [frame |-> f, user |-> TRUE, write |-> FALSE]]
         /\ l_i' = l_i + 1 /\ UNCHANGED <<memory, l_pc>>
  BY Zenon DEF L!load_elf_map, L!process, L!map_virtual_to_physical, Base
<1>3. CASE l_i = L!NumFrames /\ l_pc' = "unprotect" /\ UNCHANGED <<memory, tables, l_frames>>
  <2>1. OwnersInv'
    BY <1>1, <1>3, ZenonT(60) DEF LinkInv, OwnersInv
  <2>2. FileInv'
    BY <1>1, <1>3, FileKept, ZenonT(60) DEF LinkInv, Loading
  <2>3. PhaseInv'
    BY <1>1, <1>3, ZenonT(60) DEF LinkInv, PhaseInv
  <2>4. L!SegmentFirst' = L!SegmentFirst /\ L!NumFrames' = L!NumFrames /\ (Linked' <=> Linked)
    BY <1>1, SameImage, ZenonT(60)
  <2>5. \A n : Mapped(n)' <=> Mapped(n)
    BY <1>1, <1>3, SameImage, ZenonT(60) DEF Mapped
  <2>6. LinkedInv'
    BY <1>1, <1>3, <2>4, <2>5, ZenonT(60) DEF LinkInv, LinkedInv
  <2> QED BY <2>1, <2>2, <2>3, <2>6, ZenonT(60) DEF LinkInv
<1>4. CASE L!load_failed
  <2>1. l_pc' = "failed" /\ l_frames' = <<>> /\ L!given_back(L!Range(l_frames)) /\ UNCHANGED tables
    BY <1>4, Zenon DEF L!load_failed
  <2>2. OwnersInv'
    BY <1>1, <2>1, GivenBack, OwnersKept, ZenonT(60) DEF LinkInv
  <2>3. FileInv'
    BY <1>1, <2>1, FileLeft, ZenonT(60) DEF LinkInv, Loading
  <2>4. PhaseInv'
    BY <1>1, <2>1, ZenonT(60) DEF LinkInv, PhaseInv
  <2>5. LinkedInv'
    BY <2>1, Zenon DEF LinkedInv, Placing
  <2> QED BY <2>2, <2>3, <2>4, <2>5, ZenonT(60) DEF LinkInv
<1>5. CASE /\ l_i # L!NumFrames /\ L!Free # {} /\ l_frames' = Append(l_frames, f)
           /\ tables' = [tables EXCEPT ![Base + l_i] = [frame |-> f, user |-> TRUE, write |-> FALSE]]
           /\ l_i' = l_i + 1 /\ UNCHANGED <<memory, l_pc>>
  <2>1. f \in L!Free
    BY <1>5, SingleFacts, ZenonT(60)
  <2> HIDE DEF f
  <2>2. f \in ProgramFrames
    BY <2>1, FreeFacts, ZenonT(60) DEF LinkInv
  <2>3. OwnersInv'
    BY <1>1, <1>5, <2>1, OwnersAppend, ZenonT(60) DEF LinkInv
  <2>4. FileInv'
    BY <1>1, <1>5, FileKept, ZenonT(60) DEF LinkInv
  <2>5. l_i + 1 \in Nat
    BY <1>1
  <2>6. PhaseInv'
    BY <1>1, <1>5, <2>5, ZenonT(60) DEF LinkInv, PhaseInv
  <2>7. LinkedInv'
    <3>1. L!SegmentFirst' = L!SegmentFirst /\ L!NumFrames' = L!NumFrames /\ (Linked' <=> Linked) /\ Base' = Base
      BY <1>1, SameImage, ZenonT(60)
    <3> SUFFICES ASSUME Linked PROVE LinkedInv'
      BY <3>1, Zenon DEF LinkedInv
    <3>2. /\ l_first = L!SegmentFirst /\ tables[L!stack_page] = L!absent
          /\ (l_i = 0 \/ l_i <= L!NumFrames) /\ Len(l_frames) = l_i /\ Mapped(l_i)
      BY <1>1, Zenon DEF LinkInv, LinkedInv
    <3>3. Base \in Nat /\ L!NumFrames \in Nat /\ Base + L!NumFrames <= L!stack_page
      BY <3>2, LinkedPages, ZenonT(60) DEF LinkInv
    <3>4. Pages \in Nat /\ L!stack_page = Pages - 1
      BY ZenonT(60) DEF LoaderAssumption, L!stack_page
    <3> DEFINE b == Base
               N == L!NumFrames
               top == L!stack_page
               pg == b + l_i
    <3>5. l_i + 1 <= N /\ pg \in 0..top - 1 /\ pg \in 0..Pages - 1 /\ pg # top
      <4> HIDE DEF b, N, top
      <4> QED BY <1>1, <1>5, <3>2, <3>3, <3>4, SMTT(30) DEF b, N, top
    <3>6. DOMAIN tables = 0..Pages - 1
      BY Zenon DEF LinkInv, PhaseInv
    <3>7. /\ tables'[pg] = [frame |-> f, user |-> TRUE, write |-> FALSE]
          /\ \A p \in 0..top : p # pg => tables'[p] = tables[p]
      <4>1. \A p \in 0..top : p \in 0..Pages - 1
        BY <3>4
      <4> QED BY <1>5, <3>5, <3>6, <4>1, ZenonT(60)
    <3>8. /\ Len(l_frames') = l_i + 1 /\ l_frames'[l_i + 1] = f
          /\ \A x \in 1..l_i : l_frames'[x] = l_frames[x]
      BY <1>5, <2>2, <3>2, AppendFacts, ZenonT(60) DEF LinkInv
    <3>9. Mapped(l_i)'
      <4> SUFFICES ASSUME NEW p \in 0..top - 1
                   PROVE  tables'[p] = IF p \in b..b + (l_i + 1) - 1
                            THEN [frame |-> l_frames'[p - b + 1], user |-> TRUE, write |-> FALSE] ELSE L!absent
        BY <1>5, <3>1, ZenonT(60) DEF Mapped, L!absent, L!stack_page
      <4>1. tables[p] = IF p \in b..b + l_i - 1
                          THEN [frame |-> l_frames[p - b + 1], user |-> TRUE, write |-> FALSE] ELSE L!absent
        BY <3>2, ZenonT(60) DEF Mapped
      <4> HIDE DEF b, top, pg
      <4>2. b \in Nat /\ pg = b + l_i /\ top \in Int
        BY <3>3, <3>4 DEF b, pg, top
      <4>3. CASE p = pg
        <5>1. p \in b..b + (l_i + 1) - 1 /\ p - b + 1 = l_i + 1
          BY <1>1, <4>2, <4>3, SMTT(30)
        <5> QED BY <3>7, <3>8, <4>3, <5>1, ZenonT(60)
      <4>4. CASE p # pg
        <5>1. p \in 0..top /\ (p \in b..b + (l_i + 1) - 1 <=> p \in b..b + l_i - 1)
              /\ (p \in b..b + l_i - 1 => p - b + 1 \in 1..l_i)
          BY <1>1, <4>2, <4>4, SMTT(30)
        <5>2. tables'[p] = tables[p]
          BY <3>7, <4>4, <5>1, ZenonT(60)
        <5> QED BY <3>8, <4>1, <5>1, <5>2, ZenonT(60)
      <4> QED BY <4>3, <4>4, ZenonT(60)
    <3>10. tables'[L!stack_page] = L!absent
      <4>1. top \in 0..top
        BY <3>3, <3>4, SMTT(30)
      <4> QED BY <3>2, <3>5, <3>7, <4>1, ZenonT(60)
    <3> QED BY <1>1, <1>5, <3>1, <3>2, <3>5, <3>8, <3>9, <3>10, ZenonT(60) DEF LinkedInv, Placing, L!stack_page, L!absent
  <2> QED BY <2>3, <2>4, <2>6, <2>7, ZenonT(60) DEF LinkInv
<1> QED BY <1>2, <1>3, <1>4, <1>5, ZenonT(60)

LEMMA CopyLinks ==
  ASSUME LoaderAssumption, LinkInv, L!load_elf_copy
  PROVE  LinkInv'
<1> DEFINE h == image.headers[l_i]
           m == Len(image.headers)
<1>1. l_pc = "copy" /\ UNCHANGED <<image, code, l_first, shell, kernel>> /\ l_i \in Nat \ {0}
  BY Zenon DEF L!load_elf_copy, L!file, LinkInv, PhaseInv
<1>2. \/ l_i > m /\ l_pc' = "protect" /\ UNCHANGED <<l_i, memory, tables, l_frames>>
      \/ ~(l_i > m) /\ ~L!Loadable(h) /\ l_i' = l_i + 1 /\ UNCHANGED <<l_pc, memory, tables, l_frames>>
      \/ L!load_failed
      \/ l_pc' = "fault" /\ UNCHANGED <<l_i, memory, tables, l_frames>>
      \/ /\ ~(l_i > m) /\ L!Loadable(h) /\ memory' = L!Copied(h) /\ l_i' = l_i + 1
         /\ UNCHANGED <<l_pc, tables, l_frames>>
  BY Zenon DEF L!load_elf_copy, L!process
<1>3. m \in Nat /\ DOMAIN image.headers = 1..m /\ \A s \in L!Segments : s \in 1..m
  <2>1. image.headers \in Seq(Header)
    BY Zenon DEF LinkInv, FileInv
  <2>2. m \in Nat /\ DOMAIN image.headers = 1..m
    BY <2>1
  <2> QED BY <2>2, Zenon DEF L!Segments
<1>4. l_i + 1 \in Nat \ {0}
  BY <1>1
<1>5. Linked => CopiedTo(l_i) /\ l_first = L!SegmentFirst /\ Mapped(L!NumFrames) /\ Len(l_frames) = L!NumFrames
  BY <1>1, Zenon DEF LinkInv, LinkedInv, Placing
<1>6. CASE l_i > m /\ l_pc' = "protect" /\ UNCHANGED <<l_i, memory, tables, l_frames>>
  <2>1. OwnersInv'
    BY <1>1, <1>6, Zenon DEF LinkInv, OwnersInv
  <2>2. FileInv'
    BY <1>1, <1>6, FileKept, ZenonT(60) DEF LinkInv, Loading
  <2>3. PhaseInv'
    BY <1>1, <1>6, Zenon DEF LinkInv, PhaseInv
  <2>4. Linked => CopiedTo(m + 1)
    <3>1. \A s \in L!Segments : s < l_i /\ s < m + 1
      BY <1>1, <1>3, <1>6, SMTT(30)
    <3> QED BY <1>5, <3>1, ZenonT(60) DEF CopiedTo
  <2>5. LinkedInv'
    BY <1>1, <1>6, <2>4, LinkedKept, ZenonT(60) DEF Placing
  <2> QED BY <2>1, <2>2, <2>3, <2>5, ZenonT(60) DEF LinkInv
<1>7. CASE ~(l_i > m) /\ ~L!Loadable(h) /\ l_i' = l_i + 1 /\ UNCHANGED <<l_pc, memory, tables, l_frames>>
  <2>1. OwnersInv'
    BY <1>1, <1>7, ZenonT(60) DEF LinkInv, OwnersInv
  <2>2. FileInv'
    BY <1>1, <1>7, FileKept, ZenonT(60) DEF LinkInv
  <2>3. PhaseInv'
    BY <1>1, <1>4, <1>7, ZenonT(60) DEF LinkInv, PhaseInv
  <2>4. Linked => CopiedTo(l_i + 1)
    <3>1. l_i \notin L!Segments
      BY <1>7, ZenonT(60) DEF L!Segments
    <3>2. \A s \in L!Segments : s < l_i <=> s < l_i + 1
      BY <1>1, <1>3, <3>1, SMTT(30)
    <3> QED BY <1>5, <3>2, ZenonT(60) DEF CopiedTo
  <2>5. LinkedInv'
    BY <1>1, <1>7, <2>4, LinkedKept, ZenonT(60) DEF Placing
  <2> QED BY <2>1, <2>2, <2>3, <2>5, ZenonT(60) DEF LinkInv
<1>8. CASE L!load_failed
  <2>1. l_pc' = "failed" /\ l_frames' = <<>> /\ L!given_back(L!Range(l_frames)) /\ UNCHANGED tables
    BY <1>8, ZenonT(60) DEF L!load_failed
  <2>2. OwnersInv'
    BY <1>1, <2>1, GivenBack, OwnersKept, ZenonT(60) DEF LinkInv
  <2>3. FileInv'
    BY <1>1, <2>1, FileLeft, ZenonT(60) DEF LinkInv, Loading
  <2>4. PhaseInv'
    BY <1>1, <2>1, ZenonT(60) DEF LinkInv, PhaseInv
  <2>5. LinkedInv'
    BY <2>1, Zenon DEF LinkedInv, Placing
  <2> QED BY <2>2, <2>3, <2>4, <2>5, ZenonT(60) DEF LinkInv
<1>9. CASE l_pc' = "fault" /\ UNCHANGED <<l_i, memory, tables, l_frames>>
  <2>1. OwnersInv'
    BY <1>1, <1>9, ZenonT(60) DEF LinkInv, OwnersInv
  <2>2. FileInv'
    BY <1>1, <1>9, FileLeft, ZenonT(60) DEF LinkInv, Loading
  <2>3. PhaseInv'
    BY <1>1, <1>9, ZenonT(60) DEF LinkInv, PhaseInv
  <2>4. LinkedInv'
    BY <1>9, Zenon DEF LinkedInv, Placing
  <2> QED BY <2>1, <2>2, <2>3, <2>4, ZenonT(60) DEF LinkInv
<1>10. CASE /\ ~(l_i > m) /\ L!Loadable(h) /\ memory' = L!Copied(h) /\ l_i' = l_i + 1
            /\ UNCHANGED <<l_pc, tables, l_frames>>
  <2>1. l_i \in L!Segments
    <3>1. l_i \in 1..m
      BY <1>1, <1>3, <1>10, SMTT(30)
    <3> QED BY <1>3, <1>10, <3>1, ZenonT(60) DEF L!Segments
  <2>2. Linked => L!NumFrames <= Len(l_frames)
    <3>1. Linked => L!NumFrames \in Nat
      BY <1>5, LinkedPages, ZenonT(60) DEF LinkInv
    <3> QED BY <1>5, <3>1
  <2>3. Linked =>
          /\ \A u \in L!Segments : \A a \in Span(u) :
              memory'[tables[a \div PageBytes].frame][a % PageBytes] =
                IF a \in Span(l_i) THEN LinkedByte(l_i, a) ELSE Seen(a)
          /\ \A x \in DOMAIN code, o \in L!Offsets : memory'[code[x]][o] = memory[code[x]][o]
    BY <1>1, <1>5, <1>10, <2>1, <2>2, StoreRight, ZenonT(60) DEF LinkInv, Loading
  <2>4. OwnersInv'
    <3>1. DOMAIN memory' = ProgramFrames
      BY <1>10, Zenon DEF L!Copied, L!Stored
    <3> QED BY <1>1, <1>10, <3>1, ZenonT(60) DEF LinkInv, OwnersInv
  <2>5. FileInv'
    BY <1>1, <1>10, <2>3, FileKept, ZenonT(60) DEF LinkInv
  <2>6. PhaseInv'
    BY <1>1, <1>4, <1>10, ZenonT(60) DEF LinkInv, PhaseInv
  <2>7. LinkedInv'
    <3>1. (Linked' <=> Linked) /\ L!SegmentFirst' = L!SegmentFirst /\ L!NumFrames' = L!NumFrames
      BY <1>1, SameImage, ZenonT(60)
    <3>2. L!Segments' = L!Segments /\ (\A s : Span(s)' = Span(s)) /\ (\A s, a : LinkedByte(s, a)' = LinkedByte(s, a))
      BY <1>1, SameImage, ZenonT(60)
    <3>3. \A n : Mapped(n)' <=> Mapped(n)
      BY <1>1, <1>10, SameImage, ZenonT(60) DEF Mapped
    <3> SUFFICES ASSUME Linked PROVE LinkedInv'
      BY <3>1, ZenonT(60) DEF LinkedInv
    <3>4. CopiedTo(l_i)'
      <4>1. ASSUME NEW s \in L!Segments, NEW a \in Nat, s < l_i + 1, a \in Span(s),
                   \A u \in L!Segments : s < u /\ u < l_i + 1 => a \notin Span(u)
            PROVE  Seen(a)' = LinkedByte(s, a)
        <5>1. s < l_i \/ s = l_i
          BY <1>1, <1>3, <4>1, SMTT(30)
        <5>2. \A u \in L!Segments : u < l_i => u < l_i + 1
          BY <1>1, <1>3, SMTT(30)
        <5>3. l_i < l_i + 1
          BY <1>1
        <5>4. Seen(a)' = IF a \in Span(l_i) THEN LinkedByte(l_i, a) ELSE Seen(a)
          BY <1>10, <2>3, <4>1, ZenonT(60) DEF Seen
        <5>5. CASE s = l_i
          BY <4>1, <5>4, <5>5, ZenonT(60)
        <5>6. CASE s < l_i
          <6>1. a \notin Span(l_i)
            BY <2>1, <4>1, <5>3, <5>6, ZenonT(60)
          <6>2. Seen(a) = LinkedByte(s, a)
            BY <1>5, <4>1, <5>2, <5>6, ZenonT(60) DEF CopiedTo
          <6> QED BY <5>4, <6>1, <6>2, ZenonT(60)
        <5> QED BY <5>1, <5>5, <5>6, ZenonT(60)
      <4> QED BY <1>10, <3>2, <4>1, ZenonT(60) DEF CopiedTo
    <3> QED BY <1>1, <1>5, <1>10, <3>1, <3>3, <3>4, ZenonT(60) DEF LinkInv, LinkedInv, Placing
  <2> QED BY <2>4, <2>5, <2>6, <2>7, ZenonT(60) DEF LinkInv
<1> QED BY <1>2, <1>6, <1>7, <1>8, <1>9, <1>10, ZenonT(60)

LEMMA StackLinks ==
  ASSUME LoaderAssumption, LinkInv, L!elf_prepare_stack
  PROVE  LinkInv'
<1> DEFINE f == L!allocate_single
<1>1. l_pc = "stack" /\ UNCHANGED <<memory, image, code, l_i, l_first, shell, kernel>>
  BY Zenon DEF L!elf_prepare_stack, L!file
<1>2. \/ l_pc' = "exit" /\ UNCHANGED <<tables, l_frames>>
      \/ /\ L!Free # {} /\ l_frames' = Append(l_frames, f)
         /\ tables' = [tables EXCEPT ![L!stack_page] = [frame |-> f, user |-> TRUE, write |-> TRUE]]
         /\ l_pc' = "user"
  BY Zenon DEF L!elf_prepare_stack, L!process, L!map_virtual_to_physical
<1>3. FileInv'
  BY <1>1, <1>2, FileLeft, ZenonT(60) DEF LinkInv, Loading
<1>4. CASE l_pc' = "exit" /\ UNCHANGED <<tables, l_frames>>
  <2>1. OwnersInv'
    BY <1>1, <1>4, ZenonT(60) DEF LinkInv, OwnersInv
  <2>2. PhaseInv'
    BY <1>1, <1>4, ZenonT(60) DEF LinkInv, PhaseInv
  <2>3. LinkedInv'
    BY <1>4, Zenon DEF LinkedInv, Placing
  <2> QED BY <1>3, <2>1, <2>2, <2>3, ZenonT(60) DEF LinkInv
<1>5. CASE /\ L!Free # {} /\ l_frames' = Append(l_frames, f)
           /\ tables' = [tables EXCEPT ![L!stack_page] = [frame |-> f, user |-> TRUE, write |-> TRUE]]
           /\ l_pc' = "user"
  <2>1. f \in L!Free
    BY <1>5, SingleFacts, Zenon
  <2> HIDE DEF f
  <2>2. f \in ProgramFrames
    BY <2>1, FreeFacts, ZenonT(60) DEF LinkInv
  <2>3. OwnersInv'
    BY <1>1, <1>5, <2>1, OwnersAppend, ZenonT(60) DEF LinkInv
  <2>4. PhaseInv'
    BY <1>1, <1>5, Zenon DEF LinkInv, PhaseInv
  <2>5. LinkedInv'
    <3>1. L!SegmentFirst' = L!SegmentFirst /\ L!NumFrames' = L!NumFrames /\ (Linked' <=> Linked) /\ Base' = Base
      BY <1>1, SameImage, Zenon
    <3> SUFFICES ASSUME Linked PROVE LinkedInv'
      BY <3>1, Zenon DEF LinkedInv
    <3> DEFINE N == L!NumFrames
               top == L!stack_page
    <3>2. /\ l_first = L!SegmentFirst /\ Len(l_frames) = N /\ Mapped(N) /\ CopiedTo(Len(image.headers) + 1)
      BY <1>1, Zenon DEF LinkInv, LinkedInv, Placing
    <3>3. Base \in Nat /\ N \in Nat /\ Base + N <= top
      BY <3>2, LinkedPages, Zenon DEF LinkInv
    <3>4. Pages \in Nat \ {0} /\ top = Pages - 1
      BY Zenon DEF LoaderAssumption, L!stack_page
    <3>5. DOMAIN tables = 0..Pages - 1
      BY Zenon DEF LinkInv, PhaseInv
    <3>6. /\ tables'[top] = [frame |-> f, user |-> TRUE, write |-> TRUE]
          /\ \A p \in 0..top - 1 : tables'[p] = tables[p]
      <4>1. top \in 0..Pages - 1 /\ \A p \in 0..top - 1 : p \in 0..Pages - 1 /\ p # top
        BY <3>4
      <4> HIDE DEF top
      <4>2. tables' = [tables EXCEPT ![top] = [frame |-> f, user |-> TRUE, write |-> TRUE]]
        BY <1>5, Zenon DEF top
      <4> QED BY <3>5, <4>1, <4>2, ZenonT(60)
    <3>7. /\ Len(l_frames') = N + 1 /\ l_frames'[N + 1] = f
          /\ \A x \in 1..N : l_frames'[x] = l_frames[x]
      BY <1>5, <2>2, <3>2, AppendFacts, ZenonT(60) DEF LinkInv
    <3>8. Mapped(L!NumFrames)'
      <4> SUFFICES ASSUME NEW p \in 0..top - 1
                   PROVE  tables'[p] = IF p \in Base..Base + N - 1
                            THEN [frame |-> l_frames'[p - Base + 1], user |-> TRUE, write |-> FALSE] ELSE L!absent
        BY <3>1, Zenon DEF Mapped, L!absent, L!stack_page
      <4>1. tables[p] = IF p \in Base..Base + N - 1
                          THEN [frame |-> l_frames[p - Base + 1], user |-> TRUE, write |-> FALSE] ELSE L!absent
        BY <3>2, Zenon DEF Mapped
      <4>2. p \in Base..Base + N - 1 => p - Base + 1 \in 1..N
        <5> HIDE DEF N
        <5> QED BY <3>3
      <4> QED BY <3>6, <3>7, <4>1, <4>2, ZenonT(60)
    <3>9. N <= Len(l_frames)
      BY <3>2, <3>3
    <3>10. CopiedTo(Len(image.headers) + 1)'
      <4>1. \A n : CopiedTo(n) => CopiedTo(n)'
        BY <1>1, <3>2, <3>6, <3>9, SeenSame, ZenonT(60) DEF LinkInv
      <4> QED BY <1>1, <3>2, <4>1, ZenonT(60)
    <3> QED BY <1>1, <1>5, <3>1, <3>2, <3>6, <3>7, <3>8, <3>10, ZenonT(60) DEF LinkedInv, Placing, L!stack_page
  <2> QED BY <1>3, <2>3, <2>4, <2>5, ZenonT(60) DEF LinkInv
<1> QED BY <1>2, <1>4, <1>5, ZenonT(60)

LEMMA LinkStep == LoaderAssumption /\ LinkInv /\ [L!Next]_(L!vars) => LinkInv'
<1> SUFFICES ASSUME LoaderAssumption, LinkInv, [L!Next]_(L!vars) PROVE LinkInv'
  OBVIOUS
<1>0. OwnersInv /\ FileInv /\ PhaseInv /\ LinkedInv
  BY Zenon DEF LinkInv
<1>1. ASSUME NEW img \in Images, L!run(img) PROVE LinkInv'
  BY <1>1, RunLinks, Zenon
<1>2. CASE L!load_elf_check
  BY <1>2, CheckLinks, Zenon
<1>3. CASE L!load_elf_map
  BY <1>3, MapLinks, Zenon
<1>4. CASE L!load_elf_unprotect
  <2>1. /\ l_pc = "unprotect" /\ l_pc' = "copy" /\ l_i' = 1
        /\ UNCHANGED <<memory, image, code, tables, l_frames, l_first, shell, kernel>>
    BY <1>4, Zenon DEF L!load_elf_unprotect, L!file, L!process
  <2>2. OwnersInv'
    BY <1>0, <2>1, Zenon DEF OwnersInv
  <2>3. FileInv'
    BY <1>0, <2>1, FileKept, ZenonT(60) DEF Loading
  <2>4. 1 \in Nat \ {0}
    OBVIOUS
  <2>5. PhaseInv'
    BY <1>0, <2>1, <2>4, ZenonT(60) DEF PhaseInv
  <2>6. CopiedTo(1)
    <3>1. ASSUME NEW s \in L!Segments PROVE ~(s < 1)
      <4>1. s \in 1..Len(image.headers) /\ Len(image.headers) \in Nat
        BY <1>0, HeaderFacts, ZenonT(60)
      <4> QED BY <4>1
    <3> QED BY <3>1, ZenonT(60) DEF CopiedTo
  <2>7. LinkedInv'
    BY <2>1, <2>6, LinkedKept, ZenonT(60) DEF Placing
  <2> QED BY <2>2, <2>3, <2>5, <2>7, ZenonT(60) DEF LinkInv
<1>5. CASE L!load_elf_copy
  BY <1>5, CopyLinks, ZenonT(60)
<1>6. CASE L!load_elf_protect
  <2>1. /\ l_pc = "protect" /\ l_pc' = "loaded"
        /\ UNCHANGED <<memory, image, code, tables, l_frames, l_i, l_first, shell, kernel>>
    BY <1>6, Zenon DEF L!load_elf_protect, L!file, L!process
  <2>2. OwnersInv'
    BY <1>0, <2>1, ZenonT(60) DEF OwnersInv
  <2>3. FileInv'
    BY <1>0, <2>1, FileKept, ZenonT(60) DEF Loading
  <2>4. PhaseInv'
    BY <1>0, <2>1, ZenonT(60) DEF PhaseInv
  <2>5. LinkedInv'
    <3>1. Linked => CopiedTo(Len(image.headers) + 1)
      BY <1>0, <2>1, ZenonT(60) DEF LinkedInv
    <3> QED BY <2>1, <3>1, LinkedKept, ZenonT(60) DEF Placing
  <2> QED BY <2>2, <2>3, <2>4, <2>5, ZenonT(60) DEF LinkInv
<1>7. CASE L!elf_prepare_failed
  <2>1. /\ l_pc = "failed" /\ l_pc' = "exit" /\ code' = <<>> /\ L!given_back(L!Range(code))
        /\ UNCHANGED <<image, tables, l_frames, l_i, l_first, shell, kernel>>
    BY <1>7, ZenonT(60) DEF L!elf_prepare_failed, L!process
  <2>2. OwnersInv'
    BY <1>0, <2>1, GivenBack, OwnersKept, ZenonT(60)
  <2>3. FileInv'
    BY <1>0, <2>1, FileLeft, ZenonT(60) DEF Loading
  <2>4. PhaseInv'
    BY <1>0, <2>1, ZenonT(60) DEF PhaseInv
  <2>5. LinkedInv'
    BY <2>1, Zenon DEF LinkedInv, Placing
  <2> QED BY <2>2, <2>3, <2>4, <2>5, ZenonT(60) DEF LinkInv
<1>8. CASE L!elf_prepare
  <2>1. /\ l_pc = "loaded" /\ l_pc' = "stack" /\ code' = <<>> /\ L!given_back(L!Range(code))
        /\ UNCHANGED <<image, tables, l_frames, l_i, l_first, shell, kernel>>
    BY <1>8, ZenonT(60) DEF L!elf_prepare, L!process
  <2>2. OwnersInv'
    BY <1>0, <2>1, GivenBack, OwnersKept, ZenonT(60)
  <2>3. FileInv'
    BY <1>0, <2>1, FileLeft, ZenonT(60) DEF Loading
  <2>4. PhaseInv'
    BY <1>0, <2>1, ZenonT(60) DEF PhaseInv
  <2>5. LinkedInv'
    <3>1. \A x \in DOMAIN l_frames : memory'[l_frames[x]] = memory[l_frames[x]]
      <4>1. \A x \in DOMAIN l_frames : l_frames[x] \in ProgramFrames
        BY <1>0 DEF OwnersInv
      <4>2. \A x \in DOMAIN l_frames : l_frames[x] \notin L!Range(code)
        BY <1>0, Zenon DEF OwnersInv, L!Range
      <4> QED BY <2>1, <4>1, <4>2, GivenBack, ZenonT(60)
    <3>2. Linked => CopiedTo(Len(image.headers) + 1)
      BY <1>0, <2>1, ZenonT(60) DEF LinkedInv
    <3> QED BY <2>1, <3>1, <3>2, LinkedKept, ZenonT(60) DEF Placing
  <2> QED BY <2>2, <2>3, <2>4, <2>5, ZenonT(60) DEF LinkInv
<1>9. CASE L!elf_prepare_stack
  BY <1>9, StackLinks, ZenonT(60)
<1>10. CASE L!syscall_exit
  <2>1. /\ l_pc = "user" /\ l_pc' = "exit" /\ DOMAIN memory' = ProgramFrames
        /\ UNCHANGED <<image, code, tables, l_frames, l_i, l_first, shell, kernel>>
    BY <1>10, Zenon DEF L!syscall_exit, L!file, L!process
  <2>2. OwnersInv'
    BY <1>0, <2>1, ZenonT(60) DEF OwnersInv
  <2>3. FileInv'
    BY <1>0, <2>1, FileLeft, ZenonT(60) DEF Loading
  <2>4. PhaseInv'
    BY <1>0, <2>1, ZenonT(60) DEF PhaseInv
  <2>5. LinkedInv'
    BY <2>1, ZenonT(60) DEF LinkedInv, Placing
  <2> QED BY <2>2, <2>3, <2>4, <2>5, ZenonT(60) DEF LinkInv
<1>11. CASE L!exit_this_thread
  <2>1. /\ l_pc = "exit" /\ l_pc' = "exited"
        /\ UNCHANGED <<memory, image, code, tables, l_frames, l_i, l_first, shell, kernel>>
    BY <1>11, Zenon DEF L!exit_this_thread, L!file, L!process
  <2>2. OwnersInv'
    BY <1>0, <2>1, ZenonT(60) DEF OwnersInv
  <2>3. FileInv'
    BY <1>0, <2>1, FileLeft, ZenonT(60) DEF Loading
  <2>4. PhaseInv'
    BY <1>0, <2>1, ZenonT(60) DEF PhaseInv
  <2>5. LinkedInv'
    BY <2>1, ZenonT(60) DEF LinkedInv, Placing
  <2> QED BY <2>2, <2>3, <2>4, <2>5, ZenonT(60) DEF LinkInv
<1>12. CASE L!wait_process
  <2>1. /\ l_pc = "exited" /\ l_pc' = "none" /\ image' = L!Empty /\ l_frames' = <<>>
        /\ L!given_back(L!Range(l_frames)) /\ tables' = L!NewTables
        /\ UNCHANGED <<code, kernel>>
    BY <1>12, ZenonT(60) DEF L!wait_process
  <2>2. OwnersInv'
    BY <1>0, <2>1, GivenBack, OwnersKept, ZenonT(60)
  <2>3. FileInv'
    <3>1. image'.size = 0 /\ image'.headers = <<>>
      BY <2>1 DEF L!Empty
    <3>2. 0 \in Nat /\ <<>> \in Seq(Header)
      OBVIOUS
    <3> QED BY <2>1, <3>1, <3>2, ZenonT(60) DEF FileInv, Loading
  <2>4. PhaseInv'
    <3>1. DOMAIN tables' = 0..Pages - 1
      BY <2>1, ZenonT(60) DEF L!NewTables
    <3>2. L!NewTables' = L!NewTables
      BY Zenon DEF L!NewTables, L!absent
    <3>3. code = <<>>
      BY <1>0, <2>1, ZenonT(60) DEF PhaseInv
    <3> QED BY <2>1, <3>1, <3>2, <3>3, ZenonT(60) DEF PhaseInv
  <2>5. LinkedInv'
    BY <2>1, ZenonT(60) DEF LinkedInv, Placing
  <2> QED BY <2>2, <2>3, <2>4, <2>5, ZenonT(60) DEF LinkInv
<1>13. ASSUME UNCHANGED <<image, code, tables, l_frames, shell, l_pc, l_i, l_first>>, OwnersInv',
              \A x \in DOMAIN code : memory'[code[x]] = memory[code[x]],
              \A x \in DOMAIN l_frames : memory'[l_frames[x]] = memory[l_frames[x]]
       PROVE  LinkInv'
  <2>1. FileInv'
    BY <1>0, <1>13, FileKept, ZenonT(60)
  <2>2. PhaseInv'
    BY <1>0, <1>13, ZenonT(60) DEF PhaseInv
  <2>3. LinkedInv'
    <3>1. Linked /\ l_pc' = "copy" => CopiedTo(l_i')
      BY <1>0, <1>13, ZenonT(60) DEF LinkedInv
    <3>2. Linked /\ l_pc' \in {"protect", "loaded", "stack", "user"} => CopiedTo(Len(image.headers) + 1)
      BY <1>0, <1>13, ZenonT(60) DEF LinkedInv
    <3> QED BY <1>13, <3>1, <3>2, LinkedKept, ZenonT(60)
  <2> QED BY <1>13, <2>1, <2>2, <2>3, ZenonT(60) DEF LinkInv
<1>14. ASSUME UNCHANGED <<memory, image, code, tables, l_frames, shell, l_pc, l_i, l_first>>,
              kernel' \subseteq kernel
       PROVE  LinkInv'
  <2>1. OwnersInv'
    BY <1>0, <1>14, ZenonT(60) DEF OwnersInv
  <2> QED BY <1>13, <1>14, <2>1, ZenonT(60)
<1>15. ASSUME NEW p \in Processors, L!migrate(p) PROVE LinkInv'
  BY <1>14, <1>15, ZenonT(60) DEF L!migrate, L!file, L!process, L!thread
<1>16. CASE L!kernel_allocate
  <2> DEFINE f == L!allocate_single
  <2>1. /\ L!Free # {} /\ kernel' = kernel \cup {f}
        /\ memory' = [memory EXCEPT ![f] = [o \in L!Offsets |-> L!stale]]
        /\ UNCHANGED <<image, code, tables, l_frames, shell, l_pc, l_i, l_first>>
    BY <1>16, Zenon DEF L!kernel_allocate, L!file, L!process, L!thread
  <2>2. f \in L!Free
    BY <2>1, SingleFacts, ZenonT(60)
  <2> HIDE DEF f
  <2>3. /\ f \in ProgramFrames
        /\ \A x \in DOMAIN code : code[x] # f
        /\ \A x \in DOMAIN l_frames : l_frames[x] # f
    BY <1>0, <2>2, FreeFacts, ZenonT(60)
  <2>4. DOMAIN memory' = ProgramFrames /\ \A g \in ProgramFrames : g # f => memory'[g] = memory[g]
    BY <1>0, <2>1, ZenonT(60) DEF OwnersInv
  <2>5. /\ \A x \in DOMAIN code : code[x] \in ProgramFrames
        /\ \A x \in DOMAIN l_frames : l_frames[x] \in ProgramFrames
    BY <1>0 DEF OwnersInv
  <2>6. OwnersInv'
    BY <1>0, <2>1, <2>3, <2>4, ZenonT(60) DEF OwnersInv
  <2> QED BY <1>13, <2>1, <2>3, <2>4, <2>5, <2>6, ZenonT(60)
<1>17. ASSUME NEW f \in ProgramFrames, L!kernel_free(f) PROVE LinkInv'
  <2>1. kernel' \subseteq kernel
    BY <1>17, Zenon DEF L!kernel_free
  <2> QED BY <1>14, <1>17, <2>1, ZenonT(60) DEF L!kernel_free, L!file, L!process, L!thread
<1>18. CASE UNCHANGED L!vars
  <2>1. kernel' \subseteq kernel
    BY <1>18, Zenon DEF L!vars
  <2> QED BY <1>14, <1>18, <2>1, ZenonT(60) DEF L!vars, L!file, L!process, L!thread
<1> QED BY <1>1, <1>2, <1>3, <1>4, <1>5, <1>6, <1>7, <1>8, <1>9, <1>10, <1>11, <1>12, <1>15, <1>16, <1>17, <1>18,
           ZenonT(60) DEF L!Next, L!Step

LEMMA LinkedInit == LoaderAssumption /\ L!Init => LinkInv
<1> SUFFICES ASSUME LoaderAssumption, L!Init PROVE LinkInv
  OBVIOUS
<1>1. /\ memory = [f \in ProgramFrames |-> [o \in L!Offsets |-> L!stale]]
      /\ image = L!Empty /\ code = <<>> /\ tables = L!NewTables /\ l_frames = <<>>
      /\ l_pc = "none" /\ kernel = {}
  BY Zenon DEF L!Init
<1>2. <<>> \in Seq(ProgramFrames) /\ <<>> \in Seq(Header) /\ DOMAIN <<>> = {} /\ 0 \in Nat
  OBVIOUS
<1>3. image.size = 0 /\ image.headers = <<>>
  BY <1>1 DEF L!Empty
<1>4. OwnersInv
  BY <1>1, <1>2, Zenon DEF OwnersInv
<1>5. FileInv
  BY <1>1, <1>2, <1>3, ZenonT(60) DEF FileInv, Loading
<1>6. PhaseInv
  BY <1>1, Zenon DEF PhaseInv, L!NewTables
<1>7. LinkedInv
  BY <1>1, Zenon DEF LinkedInv, Placing
<1> QED BY <1>4, <1>5, <1>6, <1>7, ZenonT(60) DEF LinkInv

LEMMA SeesItsImage == LoaderAssumption /\ LinkInv => (Linked => L!ProgramAsLinked)
<1> SUFFICES ASSUME LoaderAssumption, LinkInv, Linked, l_pc = "user" PROVE L!ProgramAsLinked
  BY Zenon DEF L!ProgramAsLinked
<1> DEFINE N == L!NumFrames
           top == L!stack_page
<1>1. /\ OwnersInv /\ FileInv /\ l_first = L!SegmentFirst /\ Mapped(N) /\ CopiedTo(Len(image.headers) + 1)
      /\ Len(l_frames) = N + 1
      /\ tables[top] = [frame |-> l_frames[N + 1], user |-> TRUE, write |-> TRUE]
  BY Zenon DEF LinkInv, LinkedInv
<1>2. Base \in Nat /\ N \in Nat /\ Base + N <= top
  BY <1>1, LinkedPages, ZenonT(60)
<1>3. N <= Len(l_frames)
  BY <1>1, <1>2
<1>4. ASSUME NEW a \in 0..L!AddressLimit - 1
      PROVE  L!Wanted(a) \subseteq {memory[f][a % PageBytes] : f \in {tables[a \div PageBytes].frame} \cap ProgramFrames}
  <2> DEFINE at == {s \in L!Segments : a \in Span(s)}
             s == CHOOSE u \in at : \A n \in at : n <= u
  <2>1. L!Wanted(a) = IF at = {} THEN {} ELSE {LinkedByte(s, a)}
    BY Zenon DEF L!Wanted, Span, LinkedByte
  <2> SUFFICES ASSUME at # {}
               PROVE  /\ tables[a \div PageBytes].frame \in ProgramFrames
                      /\ Seen(a) = LinkedByte(s, a)
    BY <2>1, Zenon DEF Seen
  <2>2. at \in SUBSET Nat /\ Len(image.headers) \in Nat /\ \A n \in at : n <= Len(image.headers)
    <3>1. \A n \in at : n \in 1..Len(image.headers) /\ Len(image.headers) \in Nat
      BY <1>1, HeaderFacts, ZenonT(60)
    <3> HIDE DEF at
    <3> QED BY <3>1
  <2>3. s \in at /\ \A n \in at : n <= s
    <3> HIDE DEF at
    <3>1. \E u \in at : \A n \in at : n <= u
      BY <2>2, GreatestNat, ZenonT(60)
    <3> QED BY <3>1, ZenonT(60)
  <2> HIDE DEF s
  <2>4. s \in L!Segments /\ a \in Span(s)
    BY <2>3, ZenonT(60)
  <2>5. \A u \in L!Segments : s < u => a \notin Span(u)
    <3> SUFFICES ASSUME NEW u \in at, s < u PROVE FALSE
      BY Zenon
    <3> HIDE DEF at
    <3> QED BY <2>2, <2>3
  <2>6. s < Len(image.headers) + 1
    <3> HIDE DEF at
    <3> QED BY <2>2, <2>3
  <2>7. a \in Nat
    BY <1>1, <1>2, <2>4, LinkedPages, ZenonT(60)
  <2>8. Seen(a) = LinkedByte(s, a)
    BY <1>1, <2>4, <2>5, <2>6, <2>7, ZenonT(60) DEF CopiedTo
  <2>9. \E x \in DOMAIN l_frames : tables[a \div PageBytes].frame = l_frames[x]
    BY <1>1, <1>3, <2>4, OwnBytes, ZenonT(60)
  <2>10. \A x \in DOMAIN l_frames : l_frames[x] \in ProgramFrames
    BY <1>1, SMTT(30) DEF OwnersInv
  <2> QED BY <2>8, <2>9, <2>10, ZenonT(60)
<1>5. tables[top].write
  BY <1>1
<1>6. DOMAIN l_frames = 1..N + 1 /\ \A x \in DOMAIN l_frames : l_frames[x] \in ProgramFrames /\ l_frames[x] # 0
  <2>1. l_frames \in Seq(ProgramFrames)
    BY <1>1, ZenonT(60) DEF OwnersInv
  <2>2. DOMAIN l_frames = 1..N + 1 /\ \A x \in DOMAIN l_frames : l_frames[x] \in ProgramFrames
    BY <1>1, <2>1
  <2>3. \A f \in ProgramFrames : f # 0
    BY Zenon DEF LoaderAssumption
  <2> QED BY <2>2, <2>3, Zenon
<1> DEFINE idx(p) == IF p = top THEN N + 1 ELSE p - Base + 1
<1>7. ASSUME NEW p \in 0..Pages - 1
      PROVE  \/ tables[p] = L!absent /\ tables[p].frame = 0
             \/ /\ idx(p) \in 1..N + 1 /\ tables[p].frame = l_frames[idx(p)]
                /\ p = top \/ p \in Base..Base + N - 1
  <2>1. CASE p = top
    <3>1. N + 1 \in 1..N + 1
      BY <1>2
    <3> QED BY <1>1, <2>1, <3>1, SMTT(30)
  <2>2. CASE p # top
    <3>1. p \in 0..top - 1
      <4>1. Pages \in Nat /\ top = Pages - 1
        BY Zenon DEF LoaderAssumption, L!stack_page
      <4> HIDE DEF top
      <4> QED BY <2>2, <4>1
    <3>2. tables[p] = IF p \in Base..Base + N - 1
                      THEN [frame |-> l_frames[p - Base + 1], user |-> TRUE, write |-> FALSE] ELSE L!absent
      BY <1>1, <3>1, ZenonT(60) DEF Mapped
    <3>3. p \in Base..Base + N - 1 => p - Base + 1 \in 1..N + 1
      <4> HIDE DEF N, top
      <4> QED BY <1>2
    <3>4. L!absent.frame = 0
      BY DEF L!absent
    <3>5. CASE p \in Base..Base + N - 1
      <4>1. tables[p].frame = l_frames[p - Base + 1]
        BY <3>2, <3>5, SMTT(30)
      <4> QED BY <2>2, <3>3, <3>5, <4>1, ZenonT(60)
    <3>6. CASE p \notin Base..Base + N - 1
      BY <3>2, <3>4, <3>6, ZenonT(60)
    <3> QED BY <3>5, <3>6, ZenonT(60)
  <2> QED BY <2>1, <2>2, ZenonT(60)
<1>8. ASSUME NEW p \in 0..Pages - 1, NEW q \in 0..Pages - 1, tables[p] # L!absent
      PROVE  /\ tables[p].frame \in L!Range(l_frames)
             /\ tables[q].frame = tables[p].frame => q = p
  <2>1. idx(p) \in DOMAIN l_frames /\ tables[p].frame = l_frames[idx(p)] /\ (p = top \/ p \in Base..Base + N - 1)
    BY <1>6, <1>7, <1>8, ZenonT(60)
  <2>2. tables[p].frame \in L!Range(l_frames)
    BY <2>1, ZenonT(60) DEF L!Range
  <2>3. ASSUME tables[q].frame = tables[p].frame PROVE q = p
    <3>1. idx(q) \in DOMAIN l_frames /\ tables[q].frame = l_frames[idx(q)] /\ (q = top \/ q \in Base..Base + N - 1)
      BY <1>6, <1>7, <2>1, <2>3, ZenonT(60)
    <3>2. idx(q) = idx(p)
      BY <1>1, <2>1, <2>3, <3>1, ZenonT(60) DEF OwnersInv
    <3> HIDE DEF N, top
    <3> QED BY <1>2, <2>1, <3>1, <3>2, SMTT(30)
  <2> QED BY <2>2, <2>3, ZenonT(60)
<1> QED BY <1>4, <1>5, <1>8, ZenonT(60) DEF L!ProgramAsLinked

\* For any image that is well linked, any number of frames and processors, and
\* whatever the other threads do with the frames: a program that is given control
\* sees its segments as the file has them, and its pages are its own.
THEOREM ProgramSeesItsImage == ASSUME LoaderAssumption PROVE L!Spec => [](Linked => L!ProgramAsLinked)
<1>1. L!Init => LinkInv
  BY LinkedInit, Zenon
<1>2. LinkInv /\ [L!Next]_(L!vars) => LinkInv'
  BY LinkStep, Zenon
<1>3. LinkInv => (Linked => L!ProgramAsLinked)
  BY SeesItsImage, Zenon
<1> QED BY <1>1, <1>2, <1>3, PTL DEF L!Spec
=============================================================================
