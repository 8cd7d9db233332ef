--------------------------- MODULE SpiFlashProofs ---------------------------
(***************************************************************************)
(* SpiFlash, for every chip whose pages, sectors and blocks fit into each  *)
(* other and which is ready before the driver gives up: no command is lost *)
(* on the chip, and what a function asks for is what flash holds after it. *)
(*                                                                         *)
(* The argument has two halves.  The lists of commands, as they are built, *)
(* program or erase the bytes of the call and no others (WriteCovers,      *)
(* BlockErased).  And at every moment (SpiInv) each of these bytes is      *)
(* written, or will be when the chip is ready, or its command is still to  *)
(* be sent; so none is left when the list is empty.                        *)
(***************************************************************************)
EXTENDS SpiFlash, TLAPS

-----------------------------------------------------------------------------
(* Division: pages and sectors *)

LEMMA Division ==
  ASSUME NEW m \in Nat \ {0}, NEW x \in Nat
  PROVE  /\ x \div m \in Nat /\ (x % m) \in 0 .. (m - 1)
         /\ x = (x \div m) * m + (x % m)
  OBVIOUS

LEMMA Multiple ==
  ASSUME NEW m \in Nat \ {0}, NEW j \in Int, j >= 1
  PROVE  j * m >= m
  OBVIOUS

\* Quotient and remainder are determined.
LEMMA DivisionUnique ==
  ASSUME NEW m \in Nat \ {0}, NEW q \in Nat, NEW r \in 0 .. (m - 1)
  PROVE  /\ (q * m + r) % m = r
         /\ (q * m + r) \div m = q
  <1> DEFINE x == q * m + r
  <1>1. x \in Nat
    OBVIOUS
  <1>2. /\ x \div m \in Nat /\ (x % m) \in 0 .. (m - 1)
        /\ x = (x \div m) * m + (x % m)
    BY <1>1, Division
  <1> HIDE DEF x
  <1>3. x = q * m + r
    BY DEF x
  <1> DEFINE d == x \div m
             s == x % m
  <1>4. d \in Nat /\ s \in 0 .. (m - 1) /\ d * m + s = q * m + r
    BY <1>2, <1>3
  <1> HIDE DEF d, s
  <1>5. (d - q) * m = r - s
    BY <1>4
  <1>6. ~(d - q >= 1)
    BY <1>4, <1>5, Multiple
  <1>7. (q - d) * m = s - r
    BY <1>4
  <1>8. ~(q - d >= 1)
    BY <1>4, <1>7, Multiple
  <1>9. d = q
    BY <1>4, <1>6, <1>8
  <1>10. s = r
    BY <1>4, <1>9
  <1> QED BY <1>9, <1>10 DEF d, s, x

LEMMA Aligned ==
  ASSUME NEW m \in Nat \ {0}, NEW q \in Nat, NEW k \in Nat, NEW a, a = q * m
  PROVE  (a + k * m) % m = 0
  <1> DEFINE j == q + k
  <1>1. a + k * m = j * m /\ j \in Nat
    OBVIOUS
  <1> HIDE DEF j
  <1>2. 0 \in 0 .. (m - 1) /\ j * m + 0 = j * m
    BY <1>1
  <1>3. (j * m + 0) % m = 0
    BY <1>1, <1>2, DivisionUnique
  <1> QED BY <1>1, <1>2, <1>3

LEMMA ModuloAdds ==
  ASSUME NEW x \in Int, NEW y \in Int, NEW z \in Int, z = x + y
  PROVE  /\ y % 3 = 0 => z % 3 = x % 3
         /\ y % 4 = 0 => z % 4 = x % 4
  OBVIOUS

-----------------------------------------------------------------------------
(* Lists of commands.  A function's commands are told apart by how many are  *)
(* still to be sent.                                                         *)

CommandType ==
    [cmd : {"enable", "program", "erase", "wait", "poll", "read"}, addr : Nat, len : Nat]

Left(s, i) == Len(s) - i

WriteList(s) ==
    /\ s \in Seq(CommandType)
    /\ \A i \in 1 .. Len(s) :
         /\ Left(s, i) % 3 = 2 => s[i].cmd = "enable"
         /\ Left(s, i) % 3 = 1 => s[i].cmd = "program"
         /\ Left(s, i) % 3 = 0 => s[i].cmd = "wait"

EraseList(s) ==
    /\ s \in Seq(CommandType)
    /\ \A i \in 1 .. Len(s) :
         /\ Left(s, i) % 4 = 3 => s[i].cmd = "enable"
         /\ Left(s, i) % 4 = 1 => s[i].cmd = "erase"
         /\ Left(s, i) % 4 \in {0, 2} => s[i].cmd = "poll"

\* The bytes that are programmed by list s.
Covers(s, a) == \E i \in 1 .. Len(s) :
    s[i].cmd = "program" /\ a \in s[i].addr .. (s[i].addr + s[i].len - 1)
\* Its program commands stay within a page and within the bytes from lo to hi.
InPages(s, lo, hi) == \A i \in 1 .. Len(s) : s[i].cmd = "program" =>
    (s[i].addr % P) + s[i].len <= P /\ lo <= s[i].addr /\ s[i].addr + s[i].len <= hi

\* List s programs the n bytes from addr on.
Writes(s, addr, n) ==
    /\ WriteList(s) /\ Len(s) % 3 = 0
    /\ InPages(s, addr, addr + n)
    /\ \A a \in addr .. (addr + n - 1) : Covers(s, a)

\* SPI_FLASH_PageWrite within a page.
LEMMA PageWritten ==
  ASSUME NEW addr \in Nat, NEW n \in Nat, (addr % P) + n <= P
  PROVE  Writes(PageWrite(addr, n), addr, n)
  <1> DEFINE s == PageWrite(addr, n)
  <1>1. n <= P /\ P \in Nat \ {0} /\ (addr % P) \in Nat
    BY Geometry, Division
  <1>2. s = << Command("enable", 0, 0), Command("program", addr, n), Command("wait", 0, 0) >>
    BY <1>1 DEF PageWrite
  <1>3. /\ Len(s) = 3 /\ s \in Seq(CommandType)
        /\ s[1].cmd = "enable" /\ s[2].cmd = "program" /\ s[3].cmd = "wait"
        /\ s[2].addr = addr /\ s[2].len = n
    BY <1>2 DEF Command, CommandType
  <1> HIDE DEF s
  <1>4. WriteList(s)
    BY <1>3 DEF WriteList, Left
  <1>5. InPages(s, addr, addr + n)
    BY <1>3 DEF InPages
  <1>6. ASSUME NEW a \in addr .. (addr + n - 1) PROVE Covers(s, a)
    BY <1>3 DEF Covers
  <1> QED BY <1>3, <1>4, <1>5, <1>6 DEF Writes, s

\* One list after the other.
LEMMA Joined ==
  ASSUME NEW addr \in Nat, NEW m \in Nat, NEW n \in Nat, NEW s, NEW t,
         Writes(s, addr, m), Writes(t, addr + m, n)
  PROVE  Writes(s \o t, addr, m + n)
  <1> DEFINE u == s \o t
  <1>1. s \in Seq(CommandType) /\ t \in Seq(CommandType)
    BY DEF Writes, WriteList
  <1>2. /\ u \in Seq(CommandType) /\ Len(u) = Len(s) + Len(t)
        /\ Len(s) \in Nat /\ Len(t) \in Nat
        /\ \A i \in 1 .. Len(s) : u[i] = s[i]
        /\ \A i \in 1 .. Len(t) : u[Len(s) + i] = t[i]
    BY <1>1
  <1> HIDE DEF u
  <1>3. ASSUME NEW i \in 1 .. Len(u)
        PROVE  \/ i \in 1 .. Len(s) /\ u[i] = s[i]
               \/ \E j \in 1 .. Len(t) : i = Len(s) + j /\ u[i] = t[j]
    <2>1. CASE i <= Len(s)
      BY <2>1, <1>2
    <2>2. CASE ~(i <= Len(s))
      <3> DEFINE j == i - Len(s)
      <3>1. j \in 1 .. Len(t) /\ i = Len(s) + j
        BY <2>2, <1>2
      <3> QED BY <3>1, <1>2
    <2> QED BY <2>1, <2>2
  <1>4. WriteList(u)
    <2> SUFFICES ASSUME NEW i \in 1 .. Len(u)
                 PROVE  /\ Left(u, i) % 3 = 2 => u[i].cmd = "enable"
                        /\ Left(u, i) % 3 = 1 => u[i].cmd = "program"
                        /\ Left(u, i) % 3 = 0 => u[i].cmd = "wait"
      BY <1>2 DEF WriteList
    <2>1. CASE i \in 1 .. Len(s) /\ u[i] = s[i]
      <3>1. Left(u, i) = Left(s, i) + Len(t) /\ Left(s, i) \in Int /\ Left(u, i) \in Int
            /\ Len(t) \in Int /\ Len(t) % 3 = 0
        BY <1>2, <2>1 DEF Left, Writes
      <3>2. Left(u, i) % 3 = Left(s, i) % 3
        BY <3>1, ModuloAdds
      <3> QED BY <3>2, <2>1 DEF Writes, WriteList
    <2>2. ASSUME NEW j \in 1 .. Len(t), i = Len(s) + j, u[i] = t[j]
          PROVE  /\ Left(u, i) % 3 = 2 => u[i].cmd = "enable"
                 /\ Left(u, i) % 3 = 1 => u[i].cmd = "program"
                 /\ Left(u, i) % 3 = 0 => u[i].cmd = "wait"
      <3>1. Left(u, i) = Left(t, j)
        BY <1>2, <2>2 DEF Left
      <3> QED BY <3>1, <2>2 DEF Writes, WriteList
    <2> QED BY <1>3, <2>1, <2>2
  <1>5. InPages(u, addr, addr + (m + n))
    <2> SUFFICES ASSUME NEW i \in 1 .. Len(u), u[i].cmd = "program"
                 PROVE  /\ (u[i].addr % P) + u[i].len <= P
                        /\ addr <= u[i].addr /\ u[i].addr + u[i].len <= addr + (m + n)
      BY DEF InPages
    <2>0. u[i].addr \in Nat /\ u[i].len \in Nat
      <3>1. u[i] \in CommandType
        BY <1>2
      <3> QED BY <3>1 DEF CommandType
    <2>1. CASE i \in 1 .. Len(s) /\ u[i] = s[i]
      BY <2>0, <2>1 DEF Writes, InPages
    <2>2. CASE \E j \in 1 .. Len(t) : i = Len(s) + j /\ u[i] = t[j]
      BY <2>0, <2>2 DEF Writes, InPages
    <2> QED BY <1>3, <2>1, <2>2
  <1>6. ASSUME NEW a \in addr .. (addr + (m + n) - 1) PROVE Covers(u, a)
    <2>1. CASE a < addr + m
      <3>0. Covers(s, a)
        <4>1. a \in addr .. (addr + m - 1)
          BY <2>1
        <4> QED BY Zenon, <4>1 DEF Writes
      <3>1. PICK i \in 1 .. Len(s) :
              s[i].cmd = "program" /\ a \in s[i].addr .. (s[i].addr + s[i].len - 1)
        BY Zenon, <3>0 DEF Covers
      <3>2. i \in 1 .. Len(u) /\ u[i] = s[i]
        BY <1>2
      <3> QED BY <3>1, <3>2 DEF Covers
    <2>2. CASE ~(a < addr + m)
      <3>0. Covers(t, a)
        <4>1. a \in addr + m .. (addr + m + n - 1)
          BY <2>2
        <4> QED BY Zenon, <4>1 DEF Writes
      <3>1. PICK i \in 1 .. Len(t) :
              t[i].cmd = "program" /\ a \in t[i].addr .. (t[i].addr + t[i].len - 1)
        BY Zenon, <3>0 DEF Covers
      <3>2. Len(s) + i \in 1 .. Len(u) /\ u[Len(s) + i] = t[i]
        BY <1>2
      <3> QED BY <3>1, <3>2 DEF Covers
    <2> QED BY <2>1, <2>2
  <1>7. Len(u) % 3 = 0
    <2>1. Len(s) % 3 = 0 /\ Len(t) % 3 = 0
      BY Zenon DEF Writes
    <2>2. Len(s) \in Int /\ Len(t) \in Int
      BY <1>2
    <2>3. \A x, y, z \in Int : z = x + y /\ y % 3 = 0 => z % 3 = x % 3
      BY Zenon, ModuloAdds
    <2>4. Len(u) \in Int /\ Len(u) = Len(s) + Len(t)
      BY <1>2
    <2> QED BY Zenon, <2>1, <2>2, <2>3, <2>4
  <1> QED BY <1>4, <1>5, <1>6, <1>7 DEF Writes, u

\* Whole pages from the beginning of one.
LEMMA PagesWritten ==
  ASSUME NEW addr \in Nat, NEW n \in Nat, addr % P = 0
  PROVE  Writes(WholePages(addr, n), addr, n * P)
  <1> DEFINE s == WholePages(addr, n)
             k(i) == (i - 1) \div 3
             part(i) == PageWrite(addr + k(i) * P, P)[((i - 1) % 3) + 1]
             q == addr \div P
  <1>0. P \in Nat \ {0} /\ q \in Nat /\ addr = q * P
    <2>1. P \in Nat \ {0}
      BY Geometry
    <2>2. q \in Nat /\ addr = q * P + (addr % P)
      BY <2>1, Division
    <2> HIDE DEF q
    <2> QED BY <2>1, <2>2
  <1>1. s = [i \in 1 .. 3 * n |-> part(i)] /\ 3 * n \in Nat
    BY DEF WholePages
  <1>2. ASSUME NEW i \in 1 .. 3 * n
        PROVE  /\ k(i) \in Nat /\ k(i) <= n - 1
               /\ (i - 1) % 3 \in 0 .. 2 /\ i - 1 = 3 * k(i) + ((i - 1) % 3)
    OBVIOUS
  <1>3. ASSUME NEW i \in 1 .. 3 * n
        PROVE  /\ part(i) \in CommandType
               /\ (i - 1) % 3 = 0 => part(i).cmd = "enable"
               /\ (i - 1) % 3 = 1 => /\ part(i).cmd = "program"
                                     /\ part(i).addr = addr + k(i) * P /\ part(i).len = P
               /\ (i - 1) % 3 = 2 => part(i).cmd = "wait"
    <2> DEFINE a == addr + k(i) * P
    <2>1. a \in Nat
      BY <1>0, <1>2
    <2> HIDE DEF a
    <2>2. PageWrite(a, P) =
            << Command("enable", 0, 0), Command("program", a, P), Command("wait", 0, 0) >>
      BY <1>0 DEF PageWrite
    <2>3. \A j \in 0 .. 2 :
            /\ PageWrite(a, P)[j + 1] \in CommandType
            /\ j = 0 => PageWrite(a, P)[j + 1].cmd = "enable"
            /\ j = 1 => /\ PageWrite(a, P)[j + 1].cmd = "program"
                        /\ PageWrite(a, P)[j + 1].addr = a /\ PageWrite(a, P)[j + 1].len = P
            /\ j = 2 => PageWrite(a, P)[j + 1].cmd = "wait"
      <3> SUFFICES ASSUME NEW j \in 0 .. 2
                   PROVE  /\ PageWrite(a, P)[j + 1] \in CommandType
                          /\ j = 0 => PageWrite(a, P)[j + 1].cmd = "enable"
                          /\ j = 1 => /\ PageWrite(a, P)[j + 1].cmd = "program"
                                      /\ PageWrite(a, P)[j + 1].addr = a
                                      /\ PageWrite(a, P)[j + 1].len = P
                          /\ j = 2 => PageWrite(a, P)[j + 1].cmd = "wait"
        OBVIOUS
      <3>1. CASE j = 0 BY <3>1, <2>2 DEF Command, CommandType
      <3>2. CASE j = 1 BY <3>2, <2>1, <2>2, <1>0 DEF Command, CommandType
      <3>3. CASE j = 2 BY <3>3, <2>2 DEF Command, CommandType
      <3> QED BY <3>1, <3>2, <3>3
    <2> DEFINE j == (i - 1) % 3
    <2>4. j \in 0 .. 2
      BY <1>2
    <2>5. part(i) = PageWrite(a, P)[j + 1]
      BY DEF a
    <2> HIDE DEF j
    <2>6. /\ part(i) \in CommandType
          /\ j = 0 => part(i).cmd = "enable"
          /\ j = 1 => /\ part(i).cmd = "program"
                      /\ part(i).addr = a /\ part(i).len = P
          /\ j = 2 => part(i).cmd = "wait"
      BY <2>3, <2>4, <2>5
    <2> QED BY <2>6 DEF j, a
  <1>4. s \in Seq(CommandType) /\ Len(s) = 3 * n /\ \A i \in 1 .. 3 * n : s[i] = part(i)
    BY <1>1, <1>3
  <1> HIDE DEF s, part
  <1>5. WriteList(s)
    <2> SUFFICES ASSUME NEW i \in 1 .. Len(s)
                 PROVE  /\ Left(s, i) % 3 = 2 => s[i].cmd = "enable"
                        /\ Left(s, i) % 3 = 1 => s[i].cmd = "program"
                        /\ Left(s, i) % 3 = 0 => s[i].cmd = "wait"
      BY <1>4 DEF WriteList
    <2> DEFINE j == (i - 1) % 3
    <2>1. i \in 1 .. 3 * n /\ s[i] = part(i) /\ j \in 0 .. 2
      BY <1>4
    <2>2. Left(s, i) % 3 = 2 - j
      BY <1>4 DEF Left
    <2>3. /\ j = 0 => s[i].cmd = "enable"
          /\ j = 1 => s[i].cmd = "program"
          /\ j = 2 => s[i].cmd = "wait"
      BY <2>1, <1>3
    <2> HIDE DEF j
    <2> QED BY <2>1, <2>2, <2>3
  <1>6. InPages(s, addr, addr + n * P)
    <2> SUFFICES ASSUME NEW i \in 1 .. 3 * n, s[i].cmd = "program"
                 PROVE  /\ (s[i].addr % P) + s[i].len <= P
                        /\ addr <= s[i].addr /\ s[i].addr + s[i].len <= addr + n * P
      BY <1>4 DEF InPages
    <2>1. s[i].addr = addr + k(i) * P /\ s[i].len = P
      BY <1>2, <1>3, <1>4
    <2> DEFINE j == k(i)
    <2>2. j \in Nat /\ j <= n - 1
      BY <1>2
    <2> HIDE DEF j
    <2>4. (addr + j * P) % P = 0
      BY <1>0, <2>2, Aligned
    <2>5. j * P \in Nat /\ j * P + P <= n * P
      BY <1>0, <2>2
    <2> QED BY <2>1, <2>4, <2>5, <1>0 DEF j
  <1>7. ASSUME NEW a \in addr .. (addr + n * P - 1) PROVE Covers(s, a)
    <2> DEFINE x == a - addr
               d == x \div P
               i == 3 * d + 2
    <2>0. n * P \in Nat
      BY <1>0
    <2>1. x \in Nat /\ x < n * P /\ a = addr + x
      BY <2>0
    <2>2. d \in Nat /\ x % P \in 0 .. (P - 1) /\ x = d * P + (x % P)
      BY <2>1, <1>0, Division
    <2>3. d <= n - 1
      <3>1. (n - d) * P = n * P - d * P /\ d * P < n * P
        BY <2>0, <2>1, <2>2, <1>0
      <3>2. ~(d - n >= 0)
        BY <3>1, <2>2, <1>0
      <3> QED BY <3>2, <2>2
    <2> HIDE DEF d, x
    <2>4. i \in 1 .. 3 * n /\ k(i) = d /\ (i - 1) % 3 = 1
      BY <2>2, <2>3
    <2>5. s[i].cmd = "program" /\ s[i].addr = addr + d * P /\ s[i].len = P
      BY <2>4, <1>3, <1>4
    <2>6. a \in (addr + d * P) .. (addr + d * P + P - 1)
      BY <2>1, <2>2, <1>0
    <2> HIDE DEF i
    <2> QED BY <2>4, <2>5, <2>6, <1>4 DEF Covers
  <1>8. Len(s) % 3 = 0
    BY <1>4
  <1> QED BY <1>5, <1>6, <1>7, <1>8 DEF Writes, s

\* SPI_FLASH_BufferWrite: whatever page it begins and ends in, each byte is
\* programmed and none beside them.
LEMMA WriteCovers ==
  ASSUME NEW addr \in Nat, NEW n \in Nat \ {0}
  PROVE  Writes(BufferWrite(addr, n), addr, n)
  <1> DEFINE r == addr % P
             q == addr \div P
             count == P - r
  <1>1. /\ P \in Nat \ {0} /\ q \in Nat /\ r \in 0 .. (P - 1) /\ addr = q * P + r
        /\ count \in 1 .. P
    <2>1. P \in Nat \ {0}
      BY Geometry
    <2>2. q \in Nat /\ r \in 0 .. (P - 1) /\ addr = q * P + r
      BY <2>1, Division
    <2> HIDE DEF q, r
    <2> QED BY <2>1, <2>2
  <1>2. \A x \in Nat : x \div P \in Nat /\ (x % P) \in 0 .. (P - 1) /\ x = (x \div P) * P + (x % P)
    BY <1>1, Division
  <1>3. \A k \in Nat : /\ addr + count + k * P \in Nat /\ k * P \in Nat
                       /\ (addr + count + k * P) % P = 0
    <2> SUFFICES ASSUME NEW k \in Nat
                 PROVE  /\ addr + count + k * P \in Nat /\ k * P \in Nat
                        /\ (addr + count + k * P) % P = 0
      OBVIOUS
    <2> HIDE DEF q, r
    <2>1. addr + count = (q + 1) * P /\ q + 1 \in Nat /\ addr + count \in Nat
      BY <1>1
    <2>2. (addr + count + k * P) % P = 0
      BY <2>1, <1>1, Aligned
    <2>3. k * P \in Nat
      BY <1>1
    <2> QED BY <2>1, <2>2, <2>3
  <1>4. r = 0 => \A k \in Nat : (addr + k * P) % P = 0 /\ addr + k * P \in Nat /\ k * P \in Nat
    <2> SUFFICES ASSUME r = 0, NEW k \in Nat
                 PROVE  (addr + k * P) % P = 0 /\ addr + k * P \in Nat /\ k * P \in Nat
      OBVIOUS
    <2> HIDE DEF q, r
    <2>1. addr = q * P /\ k * P \in Nat
      BY <1>1
    <2> QED BY <2>1, <1>1, Aligned
  <1>5. BufferWrite(addr, n) =
          IF r = 0
          THEN IF n < P THEN PageWrite(addr, n)
               ELSE WholePages(addr, n \div P) \o PageWrite(addr + (n \div P) * P, n % P)
          ELSE IF n < P
               THEN IF n > count
                    THEN PageWrite(addr, count) \o PageWrite(addr + count, n - count)
                    ELSE PageWrite(addr, n)
               ELSE PageWrite(addr, count) \o WholePages(addr + count, (n - count) \div P)
                      \o (IF (n - count) % P # 0
                          THEN PageWrite(addr + count + ((n - count) \div P) * P, (n - count) % P)
                          ELSE << >>)
    BY DEF BufferWrite
  <1> HIDE DEF r, q, count
  <1>6. CASE r = 0 /\ n < P
    BY <1>1, <1>5, <1>6, PageWritten DEF r
  <1>7. CASE r = 0 /\ ~(n < P)
    <2> DEFINE k == n \div P
               l == n % P
    <2>1. k \in Nat /\ l \in 0 .. (P - 1) /\ n = k * P + l
      BY <1>2
    <2> HIDE DEF k, l
    <2>2. Writes(WholePages(addr, k), addr, k * P)
      BY <1>7, <2>1, PagesWritten DEF r
    <2>3. addr + k * P \in Nat /\ (addr + k * P) % P = 0 /\ k * P \in Nat
      BY <1>4, <1>7, <2>1
    <2>4. Writes(PageWrite(addr + k * P, l), addr + k * P, l)
      BY <2>1, <2>3, <1>1, PageWritten
    <2>5. Writes(WholePages(addr, k) \o PageWrite(addr + k * P, l), addr, k * P + l)
      BY <2>1, <2>2, <2>3, <2>4, Joined
    <2> QED BY <2>1, <2>5, <1>5, <1>7 DEF k, l
  <1>8. CASE r # 0 /\ n < P /\ ~(n > count)
    <2>1. r + n <= P
      BY <1>1, <1>8 DEF count
    <2> QED BY <2>1, <1>5, <1>8, PageWritten DEF r
  <1>9. Writes(PageWrite(addr, count), addr, count)
    <2>1. r + count <= P /\ count \in Nat
      BY <1>1 DEF count
    <2> QED BY <2>1, PageWritten DEF r
  <1>10. addr + count \in Nat /\ (addr + count) % P = 0
    <2>1. addr + count + 0 * P = addr + count
      BY <1>1
    <2> QED BY <2>1, <1>3
  <1>11. CASE r # 0 /\ n < P /\ n > count
    <2>1. n - count \in Nat /\ 0 + (n - count) <= P /\ count + (n - count) = n /\ count \in Nat
      BY <1>1, <1>11
    <2>2. Writes(PageWrite(addr + count, n - count), addr + count, n - count)
      BY <2>1, <1>10, PageWritten
    <2>3. Writes(PageWrite(addr, count) \o PageWrite(addr + count, n - count), addr, count + (n - count))
      BY <2>1, <2>2, <1>9, Joined
    <2> QED BY <2>1, <2>3, <1>5, <1>11
  <1>12. CASE r # 0 /\ ~(n < P)
    <2> DEFINE rest == n - count
               k == rest \div P
               l == rest % P
               last == addr + count + k * P
               head == PageWrite(addr, count) \o WholePages(addr + count, k)
    <2>1. rest \in Nat /\ n = count + rest /\ count \in Nat
      BY <1>1, <1>12
    <2> HIDE DEF rest
    <2>2. k \in Nat /\ l \in 0 .. (P - 1) /\ rest = k * P + l
      BY <1>2, <2>1
    <2> HIDE DEF k, l
    <2>3. Writes(WholePages(addr + count, k), addr + count, k * P)
      BY <1>10, <2>2, PagesWritten
    <2>4. last \in Nat /\ last % P = 0 /\ k * P \in Nat
      BY <1>3, <2>2
    <2>5. Writes(head, addr, count + k * P)
      BY <1>9, <2>1, <2>3, <2>4, Joined
    <2>6. CASE l # 0
      <3>1. Writes(PageWrite(last, l), last, l)
        BY <2>2, <2>4, <1>1, PageWritten
      <3>2. last = addr + (count + k * P) /\ count + k * P \in Nat /\ (count + k * P) + l = n
        BY <2>1, <2>2, <2>4, <1>1
      <3> HIDE DEF last, head
      <3>3. Writes(head \o PageWrite(last, l), addr, (count + k * P) + l)
        BY <2>2, <2>5, <3>1, <3>2, Joined
      <3>4. BufferWrite(addr, n) = head \o PageWrite(last, l)
        BY <1>5, <1>12, <2>6 DEF rest, k, l, last, head
      <3> QED BY <3>2, <3>3, <3>4
    <2>7. CASE l = 0
      <3>1. head \in Seq(CommandType)
        BY <2>5 DEF Writes, WriteList
      <3>2. count + k * P = n
        BY <2>1, <2>2, <2>4, <2>7
      <3>3. BufferWrite(addr, n) = head \o << >>
        BY <1>5, <1>12, <2>7 DEF rest, k, l, head
      <3> HIDE DEF head
      <3>4. head \o << >> = head
        BY <3>1
      <3> QED BY <2>5, <3>2, <3>3, <3>4
    <2> QED BY <2>6, <2>7
  <1> QED BY <1>6, <1>7, <1>8, <1>11, <1>12

\* List s erases sectors only within the bytes from lo to hi.
InSectors(s, lo, hi) == \A i \in 1 .. Len(s) : s[i].cmd = "erase" =>
    Sector(s[i].addr) \subseteq lo .. (hi - 1)
Clears(s, a) == \E i \in 1 .. Len(s) : s[i].cmd = "erase" /\ a \in Sector(s[i].addr)

\* SPI_Flash_Erase: the sectors from that of addr on.
LEMMA SectorsErased ==
  ASSUME NEW addr \in Nat, NEW num \in Nat
  PROVE  /\ EraseList(Erase(addr, num)) /\ Len(Erase(addr, num)) = 4 * num
         /\ \A i \in 1 .. 4 * num :
              /\ Erase(addr, num)[i].cmd = "erase" => (i - 1) % 4 = 2
              /\ (i - 1) % 4 = 2 =>
                   /\ Erase(addr, num)[i].cmd = "erase"
                   /\ Erase(addr, num)[i].addr = ((addr \div SectorSize) + ((i - 1) \div 4)) * SectorSize
  <1> DEFINE s == Erase(addr, num)
             k(i) == (i - 1) \div 4
             sector(i) == ((addr \div SectorSize) + k(i)) * SectorSize
             part(i) == << Command("enable", 0, 0), Command("poll", 0, 0),
                           Command("erase", sector(i), 0), Command("poll", 0, 0) >>[((i - 1) % 4) + 1]
  <1>0. SectorSize \in Nat \ {0} /\ addr \div SectorSize \in Nat
    <2>1. SectorSize \in Nat \ {0}
      BY Geometry
    <2> QED BY <2>1, Division
  <1>1. s = [i \in 1 .. 4 * num |-> part(i)] /\ 4 * num \in Nat
    BY DEF Erase
  <1>2. ASSUME NEW i \in 1 .. 4 * num
        PROVE  /\ part(i) \in CommandType
               /\ (i - 1) % 4 = 0 => part(i).cmd = "enable"
               /\ (i - 1) % 4 \in {1, 3} => part(i).cmd = "poll"
               /\ (i - 1) % 4 = 2 => part(i).cmd = "erase" /\ part(i).addr = sector(i)
    <2> DEFINE a == sector(i)
    <2>1. a \in Nat
      <3>1. k(i) \in Nat
        OBVIOUS
      <3> HIDE DEF k
      <3> QED BY <3>1, <1>0
    <2> HIDE DEF a
    <2> DEFINE four == << Command("enable", 0, 0), Command("poll", 0, 0),
                          Command("erase", a, 0), Command("poll", 0, 0) >>
               j == (i - 1) % 4
    <2>2. j \in 0 .. 3
      OBVIOUS
    <2>3. part(i) = four[j + 1]
      BY DEF a
    <2> HIDE DEF j, part
    <2>4. CASE j = 0 BY <2>3, <2>4 DEF Command, CommandType, j
    <2>5. CASE j = 1 BY <2>3, <2>5 DEF Command, CommandType, j
    <2>6. CASE j = 2
      <3>1. part(i) = Command("erase", a, 0)
        BY <2>3, <2>6
      <3>2. part(i) \in CommandType /\ part(i).cmd = "erase" /\ part(i).addr = a
        BY <3>1, <2>1 DEF Command, CommandType
      <3> QED BY <3>2, <2>6 DEF a, j
    <2>7. CASE j = 3 BY <2>3, <2>7 DEF Command, CommandType, j
    <2> QED BY <2>2, <2>4, <2>5, <2>6, <2>7
  <1>3. s \in Seq(CommandType) /\ Len(s) = 4 * num /\ \A i \in 1 .. 4 * num : s[i] = part(i)
    BY <1>1, <1>2
  <1> HIDE DEF s, part, sector
  <1>4. ASSUME NEW i \in 1 .. 4 * num
        PROVE  /\ Left(s, i) % 4 = 3 => s[i].cmd = "enable"
               /\ Left(s, i) % 4 = 1 => s[i].cmd = "erase"
               /\ Left(s, i) % 4 \in {0, 2} => s[i].cmd = "poll"
               /\ s[i].cmd = "erase" => (i - 1) % 4 = 2
               /\ (i - 1) % 4 = 2 => s[i].cmd = "erase" /\ s[i].addr = sector(i)
    <2> DEFINE j == (i - 1) % 4
    <2>1. s[i] = part(i) /\ j \in 0 .. 3
      BY <1>3
    <2>2. Left(s, i) % 4 = 3 - j
      BY <1>3 DEF Left
    <2>3. /\ j = 0 => s[i].cmd = "enable"
          /\ j \in {1, 3} => s[i].cmd = "poll"
          /\ j = 2 => s[i].cmd = "erase" /\ s[i].addr = sector(i)
      BY <2>1, <1>2
    <2> HIDE DEF j
    <2>4. s[i].cmd = "erase" => j = 2
      BY <2>1, <2>3
    <2> QED BY <2>1, <2>2, <2>3, <2>4 DEF j
  <1>5. EraseList(s)
    BY <1>3, <1>4 DEF EraseList
  <1> QED BY <1>3, <1>4, <1>5 DEF s, sector

\* A block is made of sectors that lie in it, none left out.
LEMMA BlockErased ==
  ASSUME ~ByteCount, NEW addr \in Nat, addr % BlockSize = 0, addr + BlockSize <= Size
  PROVE  /\ EraseCount(BlockSize) \in Nat
         /\ InSectors(Erase(addr, EraseCount(BlockSize)), addr, addr + BlockSize)
         /\ \A a \in addr .. (addr + BlockSize - 1) : Clears(Erase(addr, EraseCount(BlockSize)), a)
  <1> DEFINE num == BlockSize \div SectorSize
             q == addr \div SectorSize
             s == Erase(addr, num)
  <1>1. SectorSize \in Nat \ {0} /\ BlockSize \in Nat \ {0} /\ Size \in Nat
    BY Geometry DEF Size
  <1>2. num \in Nat /\ BlockSize = num * SectorSize
    <2>1. num \in Nat /\ BlockSize = num * SectorSize + (BlockSize % SectorSize)
      BY <1>1, Division
    <2> HIDE DEF num
    <2> QED BY <2>1, <1>1, Geometry
  <1> HIDE DEF num
  <1>3. q \in Nat /\ addr = q * SectorSize
    <2> DEFINE b == addr \div BlockSize
               c == b * num
    <2>1. b \in Nat /\ addr = b * BlockSize + (addr % BlockSize)
      BY <1>1, Division
    <2> HIDE DEF b
    <2>2. addr = b * BlockSize
      BY <2>1, <1>1
    <2>3. addr = c * SectorSize /\ c \in Nat
      BY <2>1, <2>2, <1>1, <1>2
    <2> HIDE DEF c
    <2>4. addr \div SectorSize = c
      <3>1. addr = c * SectorSize + 0 /\ 0 \in 0 .. (SectorSize - 1)
        BY <2>3, <1>1
      <3> QED BY <3>1, <2>3, <1>1, DivisionUnique
    <2> QED BY <2>3, <2>4
  <1> HIDE DEF q
  <1>4. EraseCount(BlockSize) = num
    BY DEF EraseCount, num
  <1>5. /\ Len(s) = 4 * num
        /\ \A i \in 1 .. 4 * num :
             /\ s[i].cmd = "erase" => (i - 1) % 4 = 2
             /\ (i - 1) % 4 = 2 => /\ s[i].cmd = "erase"
                                   /\ s[i].addr = (q + ((i - 1) \div 4)) * SectorSize
    BY <1>2, SectorsErased DEF q
  <1> HIDE DEF s
  <1>6. ASSUME NEW k \in Nat, k <= num - 1
        PROVE  /\ k * SectorSize \in Nat /\ k * SectorSize + SectorSize <= BlockSize
               /\ Sector((q + k) * SectorSize) =
                    (addr + k * SectorSize) .. (addr + k * SectorSize + SectorSize - 1)
    <2>1. k * SectorSize \in Nat /\ k * SectorSize + SectorSize <= num * SectorSize
      <3> DEFINE j == num - k
      <3>0. j \in Int /\ j >= 1 /\ num = k + j
        BY <1>2, <1>6
      <3> HIDE DEF j
      <3>1. j * SectorSize >= SectorSize
        BY <3>0, <1>1, Multiple
      <3>2. j * SectorSize = num * SectorSize - k * SectorSize
        BY <3>0, <1>1, <1>2
      <3>3. k * SectorSize \in Nat /\ num * SectorSize \in Nat
        BY <1>1, <1>2
      <3> QED BY <3>1, <3>2, <3>3, <1>1
    <2> DEFINE a == addr + k * SectorSize
    <2>2. a = (q + k) * SectorSize /\ a \in Nat /\ a < Size
      BY <2>1, <1>1, <1>2, <1>3
    <2>3. a % SectorSize = 0
      BY <1>1, <1>3, Aligned
    <2> HIDE DEF a
    <2>4. (a - (a % SectorSize)) % Size = a
      <3>1. a - (a % SectorSize) = a
        BY <2>2, <2>3
      <3>2. a = 0 * Size + a /\ Size \in Nat \ {0} /\ a \in 0 .. (Size - 1)
        BY <2>2, <1>1
      <3>3. (0 * Size + a) % Size = a
        BY <3>2, DivisionUnique
      <3> QED BY <3>1, <3>2, <3>3
    <2>5. Sector(a) = a .. (a + SectorSize - 1)
      BY <2>4 DEF Sector
    <2> QED BY <2>1, <2>2, <2>5, <1>2 DEF a
  <1>7. InSectors(s, addr, addr + BlockSize)
    <2> SUFFICES ASSUME NEW i \in 1 .. 4 * num, s[i].cmd = "erase"
                 PROVE  Sector(s[i].addr) \subseteq addr .. ((addr + BlockSize) - 1)
      <3>1. Len(s) = 4 * num
        BY <1>5
      <3> QED BY <3>1 DEF InSectors
    <2> DEFINE k == (i - 1) \div 4
    <2>1. k \in Nat /\ k <= num - 1
      BY <1>2
    <2>2. s[i].addr = (q + k) * SectorSize
      BY <1>5
    <2> HIDE DEF k
    <2>3. Sector(s[i].addr) = (addr + k * SectorSize) .. (addr + k * SectorSize + SectorSize - 1)
      BY <2>1, <2>2, <1>6
    <2>4. k * SectorSize \in Nat /\ k * SectorSize + SectorSize <= BlockSize
      BY <2>1, <1>6
    <2> QED BY <2>3, <2>4, <1>1
  <1>8. ASSUME NEW a \in addr .. (addr + BlockSize - 1) PROVE Clears(s, a)
    <2> DEFINE x == a - addr
               k == x \div SectorSize
               i == 4 * k + 3
    <2>1. x \in Nat /\ x < BlockSize /\ a = addr + x
      BY <1>1
    <2>2. k \in Nat /\ x % SectorSize \in 0 .. (SectorSize - 1) /\ x = k * SectorSize + (x % SectorSize)
      BY <2>1, <1>1, Division
    <2> HIDE DEF k, x
    <2>3. k <= num - 1
      <3>1. k * SectorSize < num * SectorSize
        BY <2>1, <2>2, <1>1, <1>2
      <3>2. (num - k) * SectorSize = num * SectorSize - k * SectorSize
        BY <1>1, <1>2, <2>2
      <3>3. ~(k - num >= 0)
        BY <3>1, <2>2, <1>1, <1>2
      <3> QED BY <3>3, <2>2, <1>2
    <2>4. i \in 1 .. 4 * num /\ (i - 1) % 4 = 2 /\ (i - 1) \div 4 = k
      BY <2>2, <2>3, <1>2
    <2>5. s[i].cmd = "erase" /\ s[i].addr = (q + k) * SectorSize
      BY <2>4, <1>5
    <2> HIDE DEF i
    <2>6. a \in (addr + k * SectorSize) .. (addr + k * SectorSize + SectorSize - 1)
      BY <2>1, <2>2, <1>1
    <2>7. a \in Sector(s[i].addr)
      BY <2>2, <2>3, <2>5, <2>6, <1>6
    <2> QED BY <2>4, <2>5, <2>7, <1>5 DEF Clears
  <1> QED BY <1>2, <1>4, <1>7, <1>8 DEF s

-----------------------------------------------------------------------------
(* The inductive invariant *)

HalCalls == Hal!WriteCalls \cup Hal!EraseCalls(BlockSize) \cup Hal!ReadCalls

\* What is still to be sent is the rest of a list of the function called.
Shape ==
    /\ todo \in Seq(CommandType)
    /\ call = Hal!NoCall \/ call \in HalCalls
    /\ call = Hal!NoCall => todo = << >>
    /\ call.op = "write" => WriteList(todo)
    /\ call.op = "erase" => EraseList(todo)
    /\ call.op = "read" => \A i \in 1 .. Len(todo) : todo[i].cmd = "read"

\* The chip is busy only in the loop that waits for it, which then polls no
\* longer than the chip may be busy, and enabled when a command needs it.
Timing ==
    /\ mem \subseteq 0 .. (Size - 1) /\ effect \subseteq 0 .. (Size - 1)
    /\ latch \in BOOLEAN /\ busy \in 0 .. MaxBusy /\ polls \in 0 .. MaxBusy
    /\ busy > 0 => polls + busy <= MaxBusy
    /\ busy > 0 \/ polls > 0 =>
         \/ call.op = "write" /\ Len(todo) % 3 = 1
         \/ call.op = "erase" /\ Len(todo) % 4 = 1
    /\ call.op = "write" /\ Len(todo) % 3 = 2 => latch
    /\ call.op = "erase" /\ Len(todo) % 4 \in {2, 3} => latch

\* The bytes to be programmed are, or will be when the chip is ready, or their
\* command is still to be sent; and no others are programmed.
WriteGoesOn ==
    /\ InPages(todo, call.addr, call.addr + call.len)
    /\ busy > 0 => mem \subseteq effect /\ effect \subseteq mem \cup call.zeros
    /\ \A a \in call.zeros : a \in mem \/ (busy > 0 /\ a \in effect) \/ Covers(todo, a)

\* The same for the bytes to be erased.
EraseGoesOn ==
    /\ InSectors(todo, call.addr, call.addr + call.len)
    /\ busy > 0 => effect \subseteq mem /\ mem \ Hal!Asked(call) \subseteq effect
    /\ \A a \in Hal!Asked(call) : a \notin mem \/ (busy > 0 /\ a \notin effect) \/ Clears(todo, a)

Memory ==
    /\ call.op = "write" => WriteGoesOn
    /\ call.op = "erase" /\ ~ByteCount => EraseGoesOn

SpiInv == Shape /\ Timing /\ Memory

-----------------------------------------------------------------------------
(* What the steps of the driver do to a list *)

\* What a call of spiffs may be.
LEMMA CallTypes ==
  ASSUME NEW c \in HalCalls
  PROVE  /\ c.op \in {"write", "erase", "read"} /\ c # Hal!NoCall
         /\ c.addr \in Nat /\ c.len \in Nat \ {0} /\ c.addr + c.len <= Size
         /\ c.op = "write" => c.zeros \subseteq Hal!Asked(c)
         /\ c.op = "erase" => c.len = BlockSize /\ c.addr % BlockSize = 0
  <1>0. Size \in Nat /\ BlockSize \in Nat \ {0} /\ MaxLen \in Nat
    BY Geometry DEF Size
  <1>1. /\ c.op \in {"write", "erase", "read"} /\ c # Hal!NoCall
        /\ c.addr \in Nat /\ c.len \in Nat \ {0}
        /\ Hal!Asked(c) \subseteq 0 .. (Size - 1)
        /\ c.op = "write" => c.zeros \subseteq Hal!Asked(c)
        /\ c.op = "erase" => c.len = BlockSize /\ c.addr % BlockSize = 0
    <2>1. CASE c \in Hal!WriteCalls
      BY <2>1, <1>0 DEF Hal!WriteCalls, Hal!NoCall, Hal!Addresses
    <2>2. CASE c \in Hal!EraseCalls(BlockSize)
      BY <2>2, <1>0 DEF Hal!EraseCalls, Hal!NoCall, Hal!Addresses
    <2>3. CASE c \in Hal!ReadCalls
      BY <2>3, <1>0 DEF Hal!ReadCalls, Hal!NoCall, Hal!Addresses
    <2> QED BY <2>1, <2>2, <2>3 DEF HalCalls
  <1>2. c.addr + c.len - 1 \in c.addr .. (c.addr + c.len - 1)
    BY <1>1
  <1>3. c.addr + c.len - 1 \in 0 .. (Size - 1)
    BY <1>1, <1>2 DEF Hal!Asked
  <1> QED BY <1>0, <1>1, <1>3

\* What is left of a list when its first command is sent.
LEMMA Rest ==
  ASSUME NEW s \in Seq(CommandType), s # << >>
  PROVE  /\ Tail(s) \in Seq(CommandType) /\ Len(Tail(s)) = Len(s) - 1 /\ Len(s) \in Nat \ {0}
         /\ \A i \in 1 .. Len(Tail(s)) : /\ i + 1 \in 1 .. Len(s) /\ Tail(s)[i] = s[i + 1]
                                         /\ Left(Tail(s), i) = Left(s, i + 1)
         /\ \A i \in 1 .. Len(s) : i = 1 \/ (i - 1 \in 1 .. Len(Tail(s)) /\ Tail(s)[i - 1] = s[i])
         /\ s[1] \in CommandType
  BY DEF Left

\* The first command of a write, by how many are left.
LEMMA WriteHead ==
  ASSUME NEW s, WriteList(s), s # << >>
  PROVE  /\ Len(s) % 3 = 0 => s[1].cmd = "enable"
         /\ Len(s) % 3 = 2 => s[1].cmd = "program"
         /\ Len(s) % 3 = 1 => s[1].cmd = "wait"
         /\ Len(s) % 3 \in 0 .. 2
  <1>1. Len(s) \in Nat \ {0} /\ 1 \in 1 .. Len(s)
    BY Rest DEF WriteList
  <1>2. /\ Len(s) % 3 = 0 => Left(s, 1) % 3 = 2
        /\ Len(s) % 3 = 2 => Left(s, 1) % 3 = 1
        /\ Len(s) % 3 = 1 => Left(s, 1) % 3 = 0
        /\ Len(s) % 3 \in 0 .. 2
    BY <1>1 DEF Left
  <1> QED BY <1>1, <1>2 DEF WriteList

\* The first command of an erase, by how many are left.
LEMMA EraseHead ==
  ASSUME NEW s, EraseList(s), s # << >>
  PROVE  /\ Len(s) % 4 = 0 => s[1].cmd = "enable"
         /\ Len(s) % 4 = 2 => s[1].cmd = "erase"
         /\ Len(s) % 4 \in {1, 3} => s[1].cmd = "poll"
         /\ Len(s) % 4 \in 0 .. 3
  <1>1. Len(s) \in Nat \ {0} /\ 1 \in 1 .. Len(s)
    BY Rest DEF EraseList
  <1>2. /\ Len(s) % 4 = 0 => Left(s, 1) % 4 = 3
        /\ Len(s) % 4 = 2 => Left(s, 1) % 4 = 1
        /\ Len(s) % 4 = 1 => Left(s, 1) % 4 = 0
        /\ Len(s) % 4 = 3 => Left(s, 1) % 4 = 2
        /\ Len(s) % 4 \in 0 .. 3
    BY <1>1 DEF Left
  <1> QED BY <1>1, <1>2 DEF EraseList

\* The bytes that the rest of a write programs.
LEMMA RestWrites ==
  ASSUME NEW s, WriteList(s), s # << >>
  PROVE  /\ WriteList(Tail(s))
         /\ Len(Tail(s)) % 3 = (Len(s) + 2) % 3
         /\ \A lo, hi : InPages(s, lo, hi) => InPages(Tail(s), lo, hi)
         /\ \A a : Covers(s, a) =>
              \/ Covers(Tail(s), a)
              \/ s[1].cmd = "program" /\ a \in s[1].addr .. (s[1].addr + s[1].len - 1)
  <1> DEFINE t == Tail(s)
  <1>1. s \in Seq(CommandType)
    BY DEF WriteList
  <1>2. /\ t \in Seq(CommandType) /\ Len(t) = Len(s) - 1 /\ Len(s) \in Nat \ {0}
        /\ \A i \in 1 .. Len(t) : /\ i + 1 \in 1 .. Len(s) /\ t[i] = s[i + 1]
                                  /\ Left(t, i) = Left(s, i + 1)
        /\ \A i \in 1 .. Len(s) : i = 1 \/ (i - 1 \in 1 .. Len(t) /\ t[i - 1] = s[i])
    BY <1>1, Rest
  <1> HIDE DEF t
  <1>3. WriteList(t)
    BY <1>2 DEF WriteList
  <1>4. Len(t) % 3 = (Len(s) + 2) % 3
    BY <1>2
  <1>5. ASSUME NEW lo, NEW hi, InPages(s, lo, hi) PROVE InPages(t, lo, hi)
    BY <1>2, <1>5 DEF InPages
  <1>6. ASSUME NEW a, Covers(s, a)
        PROVE  \/ Covers(t, a)
               \/ s[1].cmd = "program" /\ a \in s[1].addr .. (s[1].addr + s[1].len - 1)
    BY <1>2, <1>6 DEF Covers
  <1> QED BY <1>3, <1>4, <1>5, <1>6 DEF t

\* The bytes that the rest of an erase clears.
LEMMA RestErases ==
  ASSUME NEW s, EraseList(s), s # << >>
  PROVE  /\ EraseList(Tail(s))
         /\ Len(Tail(s)) % 4 = (Len(s) + 3) % 4
         /\ \A lo, hi : InSectors(s, lo, hi) => InSectors(Tail(s), lo, hi)
         /\ \A a : Clears(s, a) => Clears(Tail(s), a) \/ (s[1].cmd = "erase" /\ a \in Sector(s[1].addr))
  <1> DEFINE t == Tail(s)
  <1>1. s \in Seq(CommandType)
    BY DEF EraseList
  <1>2. /\ t \in Seq(CommandType) /\ Len(t) = Len(s) - 1 /\ Len(s) \in Nat \ {0}
        /\ \A i \in 1 .. Len(t) : /\ i + 1 \in 1 .. Len(s) /\ t[i] = s[i + 1]
                                  /\ Left(t, i) = Left(s, i + 1)
        /\ \A i \in 1 .. Len(s) : i = 1 \/ (i - 1 \in 1 .. Len(t) /\ t[i - 1] = s[i])
    BY <1>1, Rest
  <1> HIDE DEF t
  <1>3. EraseList(t)
    BY <1>2 DEF EraseList
  <1>4. Len(t) % 4 = (Len(s) + 3) % 4
    BY <1>2
  <1>5. ASSUME NEW lo, NEW hi, InSectors(s, lo, hi) PROVE InSectors(t, lo, hi)
    BY <1>2, <1>5 DEF InSectors
  <1>6. ASSUME NEW a, Clears(s, a)
        PROVE  Clears(t, a) \/ (s[1].cmd = "erase" /\ a \in Sector(s[1].addr))
    BY <1>2, <1>6 DEF Clears
  <1> QED BY <1>3, <1>4, <1>5, <1>6 DEF t

\* A program command within a page programs its bytes and none beside them.
LEMMA ProgramsAsked ==
  ASSUME NEW addr \in Nat, NEW n \in Nat, (addr % P) + n <= P, addr + n <= Size,
         NEW zeros \in SUBSET Nat
  PROVE  Programmed(addr, n, zeros) = zeros \cap (addr .. (addr + n - 1))
  <1> DEFINE r == addr % P
             q == addr \div P
             base == addr - r
             to(a) == (base + (a % P)) % Size
  <1>1. P \in Nat \ {0} /\ Size \in Nat
    BY Geometry DEF Size
  <1>2. q \in Nat /\ r \in 0 .. (P - 1) /\ addr = q * P + r
    BY <1>1, Division
  <1>3. ASSUME NEW a \in addr .. (addr + n - 1) PROVE to(a) = a
    <2> DEFINE s == r + (a - addr)
    <2> HIDE DEF q, r
    <2>1. s \in 0 .. (P - 1) /\ a = q * P + s /\ a = base + s /\ a \in Nat
      BY <1>1, <1>2 DEF r
    <2> HIDE DEF s, base
    <2>2. a % P = s
      BY <2>1, <1>1, <1>2, DivisionUnique
    <2>3. base + (a % P) = a
      BY <2>1, <2>2
    <2>4. a % Size = a
      <3>1. a = 0 * Size + a /\ Size \in Nat \ {0} /\ a \in 0 .. (Size - 1)
        BY <1>1, <2>1
      <3>2. (0 * Size + a) % Size = a
        BY <3>1, DivisionUnique
      <3> QED BY <3>1, <3>2
    <2> QED BY <2>3, <2>4
  <1>4. Programmed(addr, n, zeros) = {to(a) : a \in zeros \cap (addr .. (addr + n - 1))}
    BY DEF Programmed
  <1> HIDE DEF to
  <1> QED BY <1>3, <1>4

-----------------------------------------------------------------------------
(* The invariant is kept *)

LEMMA InitInv == Init => SpiInv
  <1> SUFFICES ASSUME Init PROVE SpiInv
    OBVIOUS
  <1>1. call.op = "none" /\ todo = << >> /\ call = Hal!NoCall
    BY DEF Init, Hal!NoCall
  <1>2. Shape
    BY <1>1 DEF Shape
  <1>4. /\ mem = {} /\ effect = {} /\ latch = FALSE /\ busy = 0 /\ polls = 0
         /\ MaxBusy \in Nat
    BY PollsSuffice DEF Init
  <1>3. Timing
    <2>1. mem \subseteq 0 .. (Size - 1) /\ effect \subseteq 0 .. (Size - 1)
      BY <1>4
    <2>2. busy \in 0 .. MaxBusy /\ polls \in 0 .. MaxBusy
      BY <1>4
    <2>3. latch \in BOOLEAN
      BY <1>4
    <2>4. ~(busy > 0) /\ ~(polls > 0) /\ call.op \notin {"write", "erase"}
      BY <1>1, <1>4
    <2> QED BY <2>1, <2>2, <2>3, <2>4 DEF Timing
  <1> QED BY <1>1, <1>2, <1>3 DEF SpiInv, Memory

\* Which command is next, by the function called.
LEMMA NextCommand ==
  ASSUME SpiInv, todo # << >>
  PROVE  /\ call \in HalCalls /\ call.op \in {"write", "erase", "read"}
         /\ call.op = "write" =>
              /\ WriteList(todo) /\ Len(todo) % 3 \in 0 .. 2
              /\ todo[1].cmd = "enable" <=> Len(todo) % 3 = 0
              /\ todo[1].cmd = "program" <=> Len(todo) % 3 = 2
              /\ todo[1].cmd = "wait" <=> Len(todo) % 3 = 1
              /\ todo[1].cmd \in {"enable", "program", "wait"}
         /\ call.op = "erase" =>
              /\ EraseList(todo) /\ Len(todo) % 4 \in 0 .. 3
              /\ todo[1].cmd = "enable" <=> Len(todo) % 4 = 0
              /\ todo[1].cmd = "erase" <=> Len(todo) % 4 = 2
              /\ todo[1].cmd = "poll" <=> Len(todo) % 4 \in {1, 3}
              /\ todo[1].cmd \in {"enable", "erase", "poll"}
         /\ call.op = "read" => todo[1].cmd = "read"
  <1>1. call \in HalCalls /\ todo \in Seq(CommandType)
    BY DEF SpiInv, Shape
  <1>2. call.op \in {"write", "erase", "read"}
    BY <1>1, CallTypes
  <1>3. ASSUME call.op = "write"
        PROVE  /\ WriteList(todo) /\ Len(todo) % 3 \in 0 .. 2
               /\ todo[1].cmd = "enable" <=> Len(todo) % 3 = 0
               /\ todo[1].cmd = "program" <=> Len(todo) % 3 = 2
               /\ todo[1].cmd = "wait" <=> Len(todo) % 3 = 1
               /\ todo[1].cmd \in {"enable", "program", "wait"}
    <2>1. WriteList(todo)
      BY <1>3 DEF SpiInv, Shape
    <2> QED BY <2>1, WriteHead
  <1>4. ASSUME call.op = "erase"
        PROVE  /\ EraseList(todo) /\ Len(todo) % 4 \in 0 .. 3
               /\ todo[1].cmd = "enable" <=> Len(todo) % 4 = 0
               /\ todo[1].cmd = "erase" <=> Len(todo) % 4 = 2
               /\ todo[1].cmd = "poll" <=> Len(todo) % 4 \in {1, 3}
               /\ todo[1].cmd \in {"enable", "erase", "poll"}
    <2>1. EraseList(todo)
      BY <1>4 DEF SpiInv, Shape
    <2> QED BY <2>1, EraseHead
  <1>5. call.op = "read" => todo[1].cmd = "read"
    <2>1. 1 \in 1 .. Len(todo)
      BY <1>1, Rest
    <2> QED BY <2>1 DEF SpiInv, Shape
  <1> QED BY <1>1, <1>2, <1>3, <1>4, <1>5

\* What taking a command from the list does to it.
LEMMA Taken ==
  ASSUME SpiInv, todo # << >>, todo' = Tail(todo), UNCHANGED call
  PROVE  /\ Shape'
         /\ call.op = "write" => /\ Len(todo') % 3 = (Len(todo) + 2) % 3
                                 /\ InPages(todo', call.addr, call.addr + call.len)
                                 /\ \A a : Covers(todo, a) =>
                                      \/ Covers(todo', a)
                                      \/ /\ todo[1].cmd = "program"
                                         /\ a \in todo[1].addr .. (todo[1].addr + todo[1].len - 1)
         /\ call.op = "erase" => /\ Len(todo') % 4 = (Len(todo) + 3) % 4
                                 /\ ~ByteCount => InSectors(todo', call.addr, call.addr + call.len)
                                 /\ \A a : Clears(todo, a) =>
                                      \/ Clears(todo', a)
                                      \/ todo[1].cmd = "erase" /\ a \in Sector(todo[1].addr)
  <1>1. /\ todo \in Seq(CommandType) /\ call \in HalCalls /\ call # Hal!NoCall
        /\ call.op \in {"write", "erase", "read"}
    BY CallTypes DEF SpiInv, Shape
  <1>2. /\ todo' \in Seq(CommandType)
        /\ \A i \in 1 .. Len(todo') : i + 1 \in 1 .. Len(todo) /\ todo'[i] = todo[i + 1]
    BY <1>1, Rest
  <1>3. ASSUME call.op = "write"
        PROVE  /\ WriteList(todo')
               /\ Len(todo') % 3 = (Len(todo) + 2) % 3
               /\ InPages(todo', call.addr, call.addr + call.len)
               /\ \A a : Covers(todo, a) =>
                    \/ Covers(todo', a)
                    \/ /\ todo[1].cmd = "program"
                       /\ a \in todo[1].addr .. (todo[1].addr + todo[1].len - 1)
    <2>1. WriteList(todo) /\ InPages(todo, call.addr, call.addr + call.len)
      BY <1>3 DEF SpiInv, Shape, Memory, WriteGoesOn
    <2> QED BY <2>1, RestWrites
  <1>4. ASSUME call.op = "erase"
        PROVE  /\ EraseList(todo')
               /\ Len(todo') % 4 = (Len(todo) + 3) % 4
               /\ ~ByteCount => InSectors(todo', call.addr, call.addr + call.len)
               /\ \A a : Clears(todo, a) =>
                    Clears(todo', a) \/ (todo[1].cmd = "erase" /\ a \in Sector(todo[1].addr))
    <2>1. EraseList(todo) /\ (~ByteCount => InSectors(todo, call.addr, call.addr + call.len))
      BY <1>4 DEF SpiInv, Shape, Memory, EraseGoesOn
    <2> QED BY <2>1, RestErases
  <1>5. call.op = "read" => \A i \in 1 .. Len(todo') : todo'[i].cmd = "read"
    BY <1>2 DEF SpiInv, Shape
  <1>6. Shape'
    BY <1>1, <1>2, <1>3, <1>4, <1>5 DEF Shape
  <1> QED BY <1>3, <1>4, <1>6

LEMMA BeginInv ==
  ASSUME SpiInv, NEW c \in HalCalls, Begin(c)
  PROVE  SpiInv'
  <1>1. /\ c.op \in {"write", "erase", "read"} /\ c # Hal!NoCall
        /\ c.addr \in Nat /\ c.len \in Nat \ {0} /\ c.addr + c.len <= Size
        /\ c.op = "write" => c.zeros \subseteq Hal!Asked(c)
        /\ c.op = "erase" => c.len = BlockSize /\ c.addr % BlockSize = 0
    BY CallTypes
  <1>2. busy = 0 /\ polls = 0
    BY DEF SpiInv, Timing, Begin, Hal!NoCall
  <1>3. call' = c /\ todo' = Commands(c) /\ polls' = 0 /\ UNCHANGED <<mem, latch, busy, effect>>
    BY DEF Begin
  <1>4. CASE c.op = "write"
    <2>1. Writes(todo', c.addr, c.len)
      BY <1>1, <1>3, <1>4, WriteCovers DEF Commands
    <2>2. Shape'
      BY <1>3, <1>4, <2>1, <1>1 DEF Shape, Writes, WriteList
    <2>3. Timing'
      BY <1>2, <1>3, <1>4, <2>1, PollsSuffice DEF SpiInv, Timing, Writes
    <2>4. Memory'
      BY <1>1, <1>2, <1>3, <1>4, <2>1 DEF Memory, WriteGoesOn, Writes, Hal!Asked
    <2> QED BY <2>2, <2>3, <2>4 DEF SpiInv
  <1>5. CASE c.op = "erase"
    <2> DEFINE num == EraseCount(c.len)
    <2>1. num \in Nat
      <3>1. SectorSize \in Nat \ {0} /\ ByteCount \in BOOLEAN
        BY Geometry
      <3>2. c.len \div SectorSize \in Nat
        BY <1>1, <3>1, Division
      <3> QED BY <1>1, <3>1, <3>2 DEF EraseCount
    <2>2. todo' = Erase(c.addr, num)
      BY <1>3, <1>5 DEF Commands
    <2> HIDE DEF num
    <2>3. EraseList(todo') /\ Len(todo') = 4 * num
      BY <1>1, <2>1, <2>2, SectorsErased
    <2>4. Len(todo') % 4 = 0
      BY <2>1, <2>3
    <2>5. Shape'
      BY <1>3, <1>5, <2>3, <1>1 DEF Shape, EraseList
    <2>6. Timing'
      BY <1>2, <1>3, <1>5, <2>4, PollsSuffice DEF SpiInv, Timing
    <2>7. ASSUME ~ByteCount PROVE EraseGoesOn'
      <3>1. /\ InSectors(todo', c.addr, c.addr + BlockSize)
            /\ \A a \in c.addr .. (c.addr + BlockSize - 1) : Clears(todo', a)
        BY <1>1, <1>5, <2>2, <2>7, BlockErased DEF num
      <3> QED BY <1>1, <1>2, <1>3, <1>5, <3>1 DEF EraseGoesOn, Hal!Asked
    <2>8. Memory'
      BY <1>3, <1>5, <2>7 DEF Memory
    <2> QED BY <2>5, <2>6, <2>8 DEF SpiInv
  <1>6. CASE c.op = "read"
    <2>1. todo' = << Command("read", c.addr, c.len) >>
      BY <1>3, <1>6 DEF Commands
    <2>2. todo' \in Seq(CommandType) /\ \A i \in 1 .. Len(todo') : todo'[i].cmd = "read"
      BY <1>1, <2>1 DEF Command, CommandType
    <2>3. Shape'
      BY <1>3, <1>6, <2>2, <1>1 DEF Shape
    <2>4. Timing'
      BY <1>2, <1>3, <1>6, PollsSuffice DEF SpiInv, Timing
    <2>5. Memory'
      BY <1>3, <1>6 DEF Memory
    <2> QED BY <2>3, <2>4, <2>5 DEF SpiInv
  <1> QED BY <1>1, <1>4, <1>5, <1>6

\* A chip that is sent a command finds that its function does not wait for it.
LEMMA Heard ==
  ASSUME SpiInv, todo # << >>
  PROVE  /\ todo[1].cmd \notin {"wait", "poll"} => busy = 0 /\ polls = 0
         /\ todo[1].cmd \in {"program", "erase"} => latch
         /\ todo[1].cmd = "poll" => call.op = "erase"
         /\ todo[1].cmd = "poll" /\ Len(todo) % 4 # 1 => busy = 0 /\ polls = 0
         /\ todo[1].cmd = "wait" => call.op = "write"
         /\ todo[1].cmd = "program" => call.op = "write"
         /\ todo[1].cmd = "erase" => call.op = "erase"
         /\ todo[1].cmd = "read" => call.op = "read"
  <1>1. busy \in Nat /\ polls \in Nat
    BY PollsSuffice DEF SpiInv, Timing
  <1> QED BY <1>1, NextCommand DEF SpiInv, Timing

\* A command that starts nothing in the chip.
LEMMA QuietInv ==
  ASSUME SpiInv, todo # << >>, todo' = Tail(todo), UNCHANGED <<call, mem, effect>>,
         busy = 0, busy' = 0, polls' = 0, latch' \in BOOLEAN,
         todo[1].cmd = "program" => todo[1].len = 0,
         todo[1].cmd # "erase",
         todo[1].cmd \in {"enable", "poll"} => latch \/ latch' \/ Len(todo) % 4 = 1,
         todo[1].cmd \in {"poll", "wait"} => latch' = latch,
         todo[1].cmd = "enable" => latch'
  PROVE  SpiInv'
  <1>1. Shape'
    BY Taken
  <1>2. todo \in Seq(CommandType) /\ Len(todo) \in Nat
    BY Rest DEF SpiInv, Shape
  <1>3. Timing'
    <2>1. ASSUME call.op = "write", Len(todo') % 3 = 2 PROVE latch'
      <3>1. Len(todo') % 3 = (Len(todo) + 2) % 3
        BY <2>1, Taken
      <3>2. Len(todo) % 3 = 0
        BY <1>2, <2>1, <3>1
      <3> QED BY <2>1, <3>2, NextCommand
    <2>2. ASSUME call.op = "erase", Len(todo') % 4 \in {2, 3} PROVE latch'
      <3>1. Len(todo') % 4 = (Len(todo) + 3) % 4
        BY <2>2, Taken
      <3>2. Len(todo) % 4 \in {0, 3}
        BY <1>2, <2>2, <3>1
      <3>3. CASE Len(todo) % 4 = 0
        BY <2>2, <3>3, NextCommand
      <3>4. CASE Len(todo) % 4 = 3
        BY <2>2, <3>4, NextCommand DEF SpiInv, Timing
      <3> QED BY <3>2, <3>3, <3>4
    <2> QED BY <2>1, <2>2, PollsSuffice DEF SpiInv, Timing
  <1>4. ASSUME call.op = "write" PROVE WriteGoesOn'
    <2>1. \A a : Covers(todo, a) => Covers(todo', a)
      <3> SUFFICES ASSUME NEW a, Covers(todo, a), ~Covers(todo', a) PROVE FALSE
        OBVIOUS
      <3>1. todo[1].cmd = "program" /\ a \in todo[1].addr .. (todo[1].addr + todo[1].len - 1)
        BY <1>4, Taken
      <3>2. todo[1].addr \in Nat
        <4>1. todo[1] \in CommandType
          BY <1>2, Rest
        <4> QED BY <4>1 DEF CommandType
      <3> QED BY <3>1, <3>2
    <2>2. InPages(todo', call.addr, call.addr + call.len)
      BY <1>4, Taken
    <2> QED BY <1>4, <2>1, <2>2 DEF SpiInv, Memory, WriteGoesOn
  <1>5. ASSUME call.op = "erase", ~ByteCount PROVE EraseGoesOn'
    <2>1. \A a : Clears(todo, a) => Clears(todo', a)
      BY <1>5, Taken
    <2>2. InSectors(todo', call.addr, call.addr + call.len)
      BY <1>5, Taken
    <2> QED BY <1>5, <2>1, <2>2 DEF SpiInv, Memory, EraseGoesOn, Hal!Asked
  <1> QED BY <1>1, <1>3, <1>4, <1>5 DEF SpiInv, Memory

LEMMA EnableInv ==
  ASSUME SpiInv, WriteEnable
  PROVE  SpiInv'
  <1>1. /\ todo # << >> /\ todo[1].cmd = "enable" /\ todo' = Tail(todo)
        /\ UNCHANGED <<call, polls, mem, busy, effect>> /\ latch' = (latch \/ busy = 0)
    BY DEF WriteEnable, Send
  <1>2. busy = 0 /\ polls = 0
    BY <1>1, Heard
  <1> QED BY <1>1, <1>2, QuietInv

LEMMA ReadInv ==
  ASSUME SpiInv, BufferRead
  PROVE  SpiInv' /\ busy = 0
  <1>1. /\ todo # << >> /\ todo[1].cmd = "read" /\ todo' = Tail(todo)
        /\ UNCHANGED <<call, polls, mem, busy, effect, latch>>
    BY DEF BufferRead, Send
  <1>2. busy = 0 /\ polls = 0
    BY <1>1, Heard
  <1>3. latch' \in BOOLEAN
    BY <1>1 DEF SpiInv, Timing
  <1> QED BY <1>1, <1>2, <1>3, QuietInv

\* The loop that waits goes on to the next command when the chip is ready.
LEMMA LeaveInv ==
  ASSUME SpiInv, todo # << >>, todo[1].cmd \in {"wait", "poll"}, busy = 0, Leave
  PROVE  SpiInv'
  <1>1. /\ todo' = Tail(todo) /\ polls' = 0
        /\ UNCHANGED <<call, mem, busy, effect, latch>>
    BY DEF Leave
  <1>2. latch' \in BOOLEAN
    BY <1>1 DEF SpiInv, Timing
  <1>3. todo[1].cmd = "poll" => latch \/ Len(todo) % 4 = 1
    BY NextCommand, Heard DEF SpiInv, Timing
  <1> QED BY <1>1, <1>2, <1>3, QuietInv

LEMMA AgainInv ==
  ASSUME SpiInv, Again
  PROVE  SpiInv'
  <1>1. /\ busy \in 0 .. MaxBusy /\ busy > 1 /\ busy' = busy - 1 /\ polls' = polls + 1
        /\ polls \in 0 .. MaxBusy /\ polls + busy <= MaxBusy /\ MaxBusy \in Nat
        /\ UNCHANGED <<mem, latch, effect, call, todo>>
    BY PollsSuffice DEF Again, SpiInv, Timing
  <1>2. Shape'
    BY <1>1 DEF SpiInv, Shape
  <1>3. Timing'
    BY <1>1 DEF SpiInv, Timing
  <1>4. Memory'
    BY <1>1 DEF SpiInv, Memory, WriteGoesOn, EraseGoesOn, Hal!Asked
  <1> QED BY <1>2, <1>3, <1>4 DEF SpiInv

LEMMA WaitInv ==
  ASSUME SpiInv, WaitForWriteEnd
  PROVE  SpiInv'
  BY AgainInv, LeaveInv DEF WaitForWriteEnd

\* The loop never gives up while the chip is busy.
LEMMA PollInv ==
  ASSUME SpiInv, CheckBusy
  PROVE  SpiInv'
  <1>1. polls \in 0 .. MaxBusy /\ MaxBusy \in Nat /\ MaxPolls \in Nat /\ MaxBusy < MaxPolls
    BY PollsSuffice DEF SpiInv, Timing
  <1>2. ~(polls >= MaxPolls)
    BY <1>1
  <1> QED BY <1>2, AgainInv, LeaveInv DEF CheckBusy

LEMMA BusyFor ==
  ASSUME NEW x \in 1 .. MaxBusy
  PROVE  x \in 0 .. MaxBusy /\ 0 \in 0 .. MaxBusy /\ 0 + x <= MaxBusy
  BY PollsSuffice

\* A command that starts the chip.
LEMMA StartsInv ==
  ASSUME SpiInv, todo # << >>, todo' = Tail(todo), UNCHANGED <<call, polls, mem, latch>>,
         busy = 0, polls = 0, busy' \in 1 .. MaxBusy, effect' \subseteq 0 .. (Size - 1),
         \/ call.op = "write" /\ todo[1].cmd = "program"
         \/ call.op = "erase" /\ todo[1].cmd = "erase"
  PROVE  Shape' /\ Timing'
  <1>1. Shape'
    BY Taken
  <1>2. todo \in Seq(CommandType) /\ Len(todo) \in Nat
    BY Rest DEF SpiInv, Shape
  <1>3. call.op = "write" => Len(todo') % 3 = 1
    <2>1. call.op = "write" => Len(todo) % 3 = 2 /\ Len(todo') % 3 = (Len(todo) + 2) % 3
      BY NextCommand, Taken
    <2> QED BY <2>1, <1>2
  <1>4. call.op = "erase" => Len(todo') % 4 = 1
    <2>1. call.op = "erase" => Len(todo) % 4 = 2 /\ Len(todo') % 4 = (Len(todo) + 3) % 4
      BY NextCommand, Taken
    <2> QED BY <2>1, <1>2
  <1>5. Timing'
    <2>1. mem' \subseteq 0 .. (Size - 1) /\ effect' \subseteq 0 .. (Size - 1) /\ latch' \in BOOLEAN
      BY DEF SpiInv, Timing
    <2>2. busy' \in 0 .. MaxBusy /\ polls' \in 0 .. MaxBusy /\ polls' + busy' <= MaxBusy
      <3>1. polls' = 0 /\ busy' \in 1 .. MaxBusy
        OBVIOUS
      <3> QED BY Zenon, <3>1, BusyFor
    <2>3. \/ call'.op = "write" /\ Len(todo') % 3 = 1
          \/ call'.op = "erase" /\ Len(todo') % 4 = 1
      BY <1>3, <1>4
    <2>4. /\ ~(call'.op = "write" /\ Len(todo') % 3 = 2)
          /\ ~(call'.op = "erase" /\ Len(todo') % 4 \in {2, 3})
      BY <1>3, <1>4
    <2> QED BY <2>1, <2>2, <2>3, <2>4 DEF Timing
  <1> QED BY <1>1, <1>5

LEMMA ProgramInv ==
  ASSUME SpiInv, PageProgram
  PROVE  SpiInv' /\ Hears
  <1> DEFINE c == todo[1]
  <1>1. todo # << >> /\ c.cmd = "program" /\ todo' = Tail(todo) /\ UNCHANGED <<call, polls>>
    BY DEF PageProgram, Send
  <1>2. busy = 0 /\ polls = 0 /\ latch /\ call.op = "write" /\ Hears
    BY <1>1, Heard DEF Hears
  <1>3. todo \in Seq(CommandType) /\ call \in HalCalls /\ 1 \in 1 .. Len(todo)
    BY <1>1, NextCommand, Rest DEF SpiInv, Shape
  <1>4. c.addr \in Nat /\ c.len \in Nat
    <2>1. c \in CommandType
      BY <1>1, <1>3, Rest
    <2> QED BY <2>1 DEF CommandType
  <1>5. CASE c.len = 0
    <2>1. latch' \in BOOLEAN /\ UNCHANGED <<mem, busy, effect>>
      BY <1>2, <1>5 DEF PageProgram
    <2>2. SpiInv'
      BY <1>1, <1>2, <1>5, <2>1, QuietInv
    <2> QED BY <1>2, <2>2
  <1>6. CASE c.len # 0
    <2>1. Starts(mem \cup Programmed(c.addr, c.len, call.zeros))
      BY <1>2, <1>6 DEF PageProgram
    <2>2. /\ (c.addr % P) + c.len <= P /\ call.addr <= c.addr
          /\ c.addr + c.len <= call.addr + call.len
      BY <1>1, <1>2, <1>3 DEF SpiInv, Memory, WriteGoesOn, InPages
    <2>3. /\ call.addr \in Nat /\ call.len \in Nat /\ call.addr + call.len <= Size
          /\ call.zeros \subseteq Hal!Asked(call) /\ Size \in Nat
      BY <1>2, <1>3, CallTypes, Geometry DEF Size
    <2>4. call.zeros \in SUBSET Nat /\ call.zeros \subseteq 0 .. (Size - 1)
      BY <2>3 DEF Hal!Asked
    <2>5. c.addr + c.len <= Size
      BY <1>4, <2>2, <2>3
    <2> DEFINE new == call.zeros \cap (c.addr .. (c.addr + c.len - 1))
    <2>6. Programmed(c.addr, c.len, call.zeros) = new
      BY <1>4, <2>2, <2>4, <2>5, ProgramsAsked
    <2>7. effect' = mem \cup new /\ busy' \in 1 .. MaxBusy /\ UNCHANGED <<mem, latch>>
      BY <2>1, <2>6 DEF Starts
    <2>8. effect' \subseteq 0 .. (Size - 1)
      BY <2>4, <2>7 DEF SpiInv, Timing
    <2>9. Shape' /\ Timing'
      BY <1>1, <1>2, <2>7, <2>8, StartsInv
    <2>10. WriteGoesOn'
      <3>1. InPages(todo', call.addr, call.addr + call.len)
        BY <1>1, <1>2, Taken
      <3>2. ASSUME NEW a \in call.zeros PROVE a \in mem \/ a \in effect' \/ Covers(todo', a)
        <4>1. a \in mem \/ Covers(todo, a)
          BY <1>2 DEF SpiInv, Memory, WriteGoesOn
        <4>2. CASE Covers(todo, a)
          <5>1. Covers(todo', a) \/ a \in c.addr .. (c.addr + c.len - 1)
            BY <1>1, <1>2, <4>2, Taken
          <5> QED BY <5>1, <2>7
        <4> QED BY <4>1, <4>2
      <3>3. busy' > 0 /\ mem \subseteq effect' /\ effect' \subseteq mem \cup call.zeros
        BY <2>7
      <3> QED BY <1>1, <2>7, <3>1, <3>2, <3>3 DEF WriteGoesOn
    <2> QED BY <1>1, <1>2, <2>9, <2>10 DEF SpiInv, Memory
  <1> QED BY <1>5, <1>6

LEMMA EraseInv ==
  ASSUME SpiInv, SectorErase
  PROVE  SpiInv' /\ Hears
  <1> DEFINE c == todo[1]
  <1>1. todo # << >> /\ c.cmd = "erase" /\ todo' = Tail(todo) /\ UNCHANGED <<call, polls>>
    BY DEF SectorErase, Send
  <1>2. busy = 0 /\ polls = 0 /\ latch /\ call.op = "erase" /\ Hears
    BY <1>1, Heard DEF Hears
  <1>3. todo \in Seq(CommandType) /\ call \in HalCalls /\ 1 \in 1 .. Len(todo)
    BY <1>1, NextCommand, Rest DEF SpiInv, Shape
  <1>4. effect' = mem \ Sector(c.addr) /\ busy' \in 1 .. MaxBusy /\ UNCHANGED <<mem, latch>>
    BY <1>2 DEF SectorErase, Starts
  <1>5. effect' \subseteq 0 .. (Size - 1)
    BY <1>4 DEF SpiInv, Timing
  <1>6. Shape' /\ Timing'
    BY <1>1, <1>2, <1>4, <1>5, StartsInv
  <1>7. ASSUME ~ByteCount PROVE EraseGoesOn'
    <2>1. InSectors(todo', call.addr, call.addr + call.len)
      BY <1>1, <1>2, <1>7, Taken
    <2>2. Sector(c.addr) \subseteq Hal!Asked(call)
      <3>1. InSectors(todo, call.addr, call.addr + call.len)
        BY <1>2, <1>7 DEF SpiInv, Memory, EraseGoesOn
      <3>2. Sector(c.addr) \subseteq call.addr .. ((call.addr + call.len) - 1)
        BY <1>1, <1>3, <3>1 DEF InSectors
      <3>3. call.addr \in Nat /\ call.len \in Nat
        BY <1>3, CallTypes
      <3> QED BY <3>2, <3>3 DEF Hal!Asked
    <2>3. ASSUME NEW a \in Hal!Asked(call) PROVE a \notin mem \/ a \notin effect' \/ Clears(todo', a)
      <3>1. a \notin mem \/ Clears(todo, a)
        BY <1>2, <1>7 DEF SpiInv, Memory, EraseGoesOn
      <3>2. Clears(todo, a) => Clears(todo', a) \/ a \in Sector(c.addr)
        BY <1>1, <1>2, Taken
      <3> QED BY <3>1, <3>2, <1>4
    <2>4. busy' > 0 /\ effect' \subseteq mem /\ mem \ Hal!Asked(call) \subseteq effect'
      BY <1>4, <2>2
    <2> QED BY <1>1, <1>4, <2>1, <2>3, <2>4 DEF EraseGoesOn, Hal!Asked
  <1> QED BY <1>1, <1>2, <1>6, <1>7 DEF SpiInv, Memory

LEMMA ReadyInv ==
  ASSUME SpiInv, Ready
  PROVE  SpiInv'
  <1>1. /\ busy > 0 /\ mem' = effect /\ busy' = 0 /\ latch' = FALSE
        /\ UNCHANGED <<effect, call, todo, polls>>
    BY DEF Ready
  <1>2. Shape'
    BY <1>1 DEF SpiInv, Shape
  <1>3. \/ call.op = "write" /\ Len(todo) % 3 = 1
        \/ call.op = "erase" /\ Len(todo) % 4 = 1
    BY <1>1 DEF SpiInv, Timing
  <1>4. Timing'
    <2>1. mem' \subseteq 0 .. (Size - 1) /\ effect' \subseteq 0 .. (Size - 1) /\ latch' \in BOOLEAN
      BY <1>1 DEF SpiInv, Timing
    <2>2. busy' \in 0 .. MaxBusy /\ polls' \in 0 .. MaxBusy /\ ~(busy' > 0)
      BY <1>1, PollsSuffice DEF SpiInv, Timing
    <2>3. \/ call'.op = "write" /\ Len(todo') % 3 = 1
          \/ call'.op = "erase" /\ Len(todo') % 4 = 1
      BY <1>1, <1>3
    <2>4. /\ ~(call'.op = "write" /\ Len(todo') % 3 = 2)
          /\ ~(call'.op = "erase" /\ Len(todo') % 4 \in {2, 3})
      BY <2>3
    <2> QED BY <2>1, <2>2, <2>3, <2>4 DEF Timing
  <1>5. Memory'
    BY <1>1 DEF SpiInv, Memory, WriteGoesOn, EraseGoesOn, Hal!Asked
  <1> QED BY <1>2, <1>4, <1>5 DEF SpiInv

\* A function returns when it has sent all its commands: the chip is ready.
LEMMA ReturnInv ==
  ASSUME SpiInv, Return
  PROVE  SpiInv' /\ busy = 0 /\ polls = 0
  <1>1. /\ call # Hal!NoCall /\ todo = << >> /\ call' = Hal!NoCall /\ call'.op = "none"
        /\ UNCHANGED <<mem, latch, busy, effect, todo, polls>>
    BY DEF Return, Hal!NoCall
  <1>2. Len(todo) % 3 = 0 /\ Len(todo) % 4 = 0
    BY <1>1
  <1>3. busy = 0 /\ polls = 0
    BY <1>2 DEF SpiInv, Timing
  <1>4. Shape'
    BY <1>1 DEF SpiInv, Shape
  <1>5. Timing'
    BY <1>1, <1>3 DEF SpiInv, Timing
  <1> QED BY <1>1, <1>3, <1>4, <1>5 DEF SpiInv, Memory

LEMMA NextInv ==
  ASSUME SpiInv, [Next]_vars
  PROVE  SpiInv'
  <1>1. CASE UNCHANGED vars
    BY <1>1 DEF vars, SpiInv, Shape, Timing, Memory, WriteGoesOn, EraseGoesOn, Hal!Asked
  <1>2. ASSUME NEW c \in Hal!WriteCalls \cup Hal!EraseCalls(BlockSize) \cup Hal!ReadCalls, Begin(c)
        PROVE  SpiInv'
    BY <1>2, BeginInv DEF HalCalls
  <1>3. CASE DriverStep
    BY <1>3, EnableInv, ProgramInv, EraseInv, ReadInv, WaitInv, PollInv, ReturnInv DEF DriverStep
  <1> QED BY <1>1, <1>2, <1>3, ReadyInv DEF Next

LEMMA Kept == Spec => []SpiInv
  BY InitInv, NextInv, PTL DEF Spec

-----------------------------------------------------------------------------
(* The theorems *)

\* Between calls the chip is ready, so that every command of the next call is
\* heard (SPI_FLASH_WaitForWriteEnd, SpiFlashCheckBusy).
THEOREM DriverCorrect == Spec => []DriverInv
  <1>1. ASSUME SpiInv PROVE TypeOK
    <2>1. \A i \in 1 .. Len(todo) : todo[i].cmd = "program" => todo[i].len \in 0 .. P
      <3> SUFFICES ASSUME NEW i \in 1 .. Len(todo), todo[i].cmd = "program"
                   PROVE  todo[i].len \in 0 .. P
        OBVIOUS
      <3>1. /\ todo \in Seq(CommandType) /\ todo # << >> /\ Left(todo, i) \in Int
            /\ todo[i].addr \in Nat /\ todo[i].len \in Nat
        <4>1. todo \in Seq(CommandType)
          BY <1>1 DEF SpiInv, Shape
        <4>2. todo[i] \in CommandType /\ Len(todo) \in Nat
          BY <4>1
        <4> QED BY <4>1, <4>2 DEF CommandType, Left
      <3>2. call.op = "write"
        <4>1. call.op \in {"write", "erase", "read"}
          BY <1>1, <3>1, NextCommand
        <4>2. call.op # "read"
          BY <1>1 DEF SpiInv, Shape
        <4>3. call.op # "erase"
          <5>1. Left(todo, i) % 4 \in 0 .. 3
            BY <3>1
          <5> QED BY <1>1, <5>1 DEF SpiInv, Shape, EraseList
        <4> QED BY <4>1, <4>2, <4>3
      <3>3. (todo[i].addr % P) + todo[i].len <= P
        BY <1>1, <3>2 DEF SpiInv, Memory, WriteGoesOn, InPages
      <3>4. P \in Nat \ {0}
        BY Geometry
      <3>5. (todo[i].addr % P) \in Nat
        <4> DEFINE a == todo[i].addr
        <4>1. a \in Nat
          BY <3>1
        <4> HIDE DEF a
        <4>2. (a % P) \in Nat
          BY <4>1, <3>4, Division
        <4> QED BY <4>2 DEF a
      <3> QED BY <3>1, <3>3, <3>4, <3>5
    <2> QED BY <1>1, <2>1, PollsSuffice DEF SpiInv, Timing, TypeOK
  <1>2. ASSUME SpiInv PROVE ReturnsReady
    BY <1>2, PollsSuffice DEF SpiInv, Timing, ReturnsReady, Hal!NoCall
  <1>3. SpiInv => DriverInv
    BY <1>1, <1>2 DEF DriverInv
  <1> QED BY Kept, <1>3, PTL

\* No command is sent to a chip that would not hear it.
THEOREM Heeded == Spec => CommandsHeard
  <1>1. ASSUME SpiInv, [Next]_vars
        PROVE  [/\ PageProgram \/ SectorErase => Hears
                /\ BufferRead => busy = 0]_vars
    BY <1>1, ProgramInv, EraseInv, ReadInv
  <1> QED BY Kept, <1>1, PTL DEF Spec, CommandsHeard

\* The driver is a NOR flash, provided that an erase gets the number of sectors
\* that its comment asks for.
THEOREM Implements == ~ByteCount => (Spec => HalSpec)
  <1>1. Init => Hal!Init
    BY DEF Init, Hal!Init
  <1>2. ASSUME ~ByteCount, SpiInv, [Next]_vars
        PROVE  [Hal!Next]_<<mem, call>>
    <2>1. CASE UNCHANGED vars
      BY <2>1 DEF vars
    <2>2. ASSUME NEW c \in Hal!WriteCalls \cup Hal!EraseCalls(BlockSize) \cup Hal!ReadCalls, Begin(c)
          PROVE  Hal!Next
      <3>1. c.op \in {"write", "erase", "read"}
        BY CallTypes DEF HalCalls
      <3> QED BY <2>2, <3>1 DEF Begin, Hal!Next, Hal!Begin
    <2>3. CASE WriteEnable \/ PageProgram \/ SectorErase \/ BufferRead \/ WaitForWriteEnd \/ CheckBusy
      BY <2>3 DEF WriteEnable, PageProgram, SectorErase, BufferRead, WaitForWriteEnd, CheckBusy,
                  Leave, Again, Send, Starts
    <2>4. CASE Return
      <3>1. busy = 0 /\ todo = << >> /\ call # Hal!NoCall /\ call' = Hal!NoCall /\ mem' = mem
        BY <1>2, <2>4, ReturnInv DEF Return
      <3>2. \A a : ~Covers(todo, a) /\ ~Clears(todo, a)
        BY <3>1 DEF Covers, Clears
      <3>3. call.op = "write" => call.zeros \subseteq mem
        BY <1>2, <3>1, <3>2 DEF SpiInv, Memory, WriteGoesOn
      <3>4. call.op = "erase" => Hal!Asked(call) \cap mem = {}
        BY <1>2, <3>1, <3>2 DEF SpiInv, Memory, EraseGoesOn
      <3> QED BY <3>1, <3>3, <3>4 DEF Hal!Next, Hal!Return
    <2>5. CASE Ready
      <3>1. busy > 0 /\ mem' = effect /\ call' = call
        BY <2>5 DEF Ready
      <3>2. call.op \in {"write", "erase"}
        BY <1>2, <3>1 DEF SpiInv, Timing
      <3>3. call.op = "write" => mem \subseteq mem' /\ mem' \subseteq mem \cup call.zeros
        BY <1>2, <3>1 DEF SpiInv, Memory, WriteGoesOn
      <3>4. call.op = "erase" => mem' \subseteq mem /\ mem \ Hal!Asked(call) \subseteq mem'
        BY <1>2, <3>1 DEF SpiInv, Memory, EraseGoesOn
      <3> QED BY <3>1, <3>2, <3>3, <3>4 DEF Hal!Next, Hal!Progress
    <2> QED BY <1>2, <2>1, <2>2, <2>3, <2>4, <2>5 DEF Next, DriverStep
  <1>3. ASSUME ~ByteCount PROVE Spec => HalSpec
    <2>1. SpiInv /\ [Next]_vars => [Hal!Next]_<<mem, call>>
      BY <1>2, <1>3
    <2> QED BY <1>1, <2>1, Kept, PTL DEF Spec, HalSpec, Hal!Spec
  <1> QED BY <1>3
=============================================================================
