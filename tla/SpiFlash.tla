------------------------------ MODULE SpiFlash ------------------------------
(***************************************************************************)
(* The driver of the W25Q32 (bsp_spi_flash.c): the three functions the     *)
(* demonstration gives spiffs, as the sequence of commands each sends over *)
(* SPI, and the chip they are sent to.  A command is what happens between  *)
(* two changes of the chip select line.                                    *)
(*                                                                         *)
(* The chip is not in the repository; it is modelled from what the driver  *)
(* relies on.  It programs or erases by itself after the command, says so  *)
(* in its status, and while it does hears no command but the one for the   *)
(* status; it programs and erases only after a write enable; bytes         *)
(* programmed beyond the end of a page go to its beginning; an address     *)
(* beyond its size loses the upper bits.                                   *)
(***************************************************************************)
EXTENDS Integers, Sequences

CONSTANTS
    P,          \* SPI_FLASH_PageSize
    Pages,      \* pages of the chip
    SectorSize, \* bytes that one erase command erases
    BlockSize,  \* SPIFLASH_CFG_PHYS_ERASE_SZ
    ByteCount,  \* the second argument of an erase is a number of bytes, else of sectors
    MaxLen,     \* the longest write
    MaxBusy,    \* polls during which the chip may be busy with one command
    MaxPolls    \* polls after which SpiFlashCheckBusy gives up

Size == P * Pages

\* Blocks are made of sectors, sectors of pages, the chip of blocks, and the
\* chip is ready before SpiFlashCheckBusy has polled it 0x4fff times.
ASSUME Geometry ==
    /\ P \in Nat \ {0} /\ Pages \in Nat \ {0} /\ MaxLen \in Nat
    /\ SectorSize \in Nat \ {0} /\ BlockSize \in Nat \ {0}
    /\ (SectorSize % P) = 0 /\ BlockSize % SectorSize = 0 /\ Size % BlockSize = 0
    /\ ByteCount \in BOOLEAN
ASSUME PollsSuffice == MaxBusy \in Nat \ {0} /\ MaxPolls \in Nat /\ MaxBusy < MaxPolls

VARIABLES
    mem,        \* chip: the programmed bytes
    latch,      \* chip: the write enable latch
    busy,       \* chip: how many more polls it may be busy for; 0: it is ready
    effect,     \* chip: the memory when it will be ready
    call,       \* the function called
    todo,       \* the commands it has still to send
    polls       \* how often it has polled for the current one

vars == <<mem, latch, busy, effect, call, todo, polls>>

Hal == INSTANCE NorFlash

-----------------------------------------------------------------------------
\* The commands a function sends

Command(cmd, addr, len) == [cmd |-> cmd, addr |-> addr, len |-> len]

\* SPI_FLASH_PageWrite: the program command has at most P bytes.
PageWrite(addr, n) ==
    << Command("enable", 0, 0),
       Command("program", addr, IF n > P THEN P ELSE n),
       Command("wait", 0, 0) >>

\* n whole pages from addr on.
WholePages(addr, n) ==
    LET part(i) == PageWrite(addr + ((i - 1) \div 3) * P, P)[((i - 1) % 3) + 1]
    IN  [i \in 1 .. 3 * n |-> part(i)]

\* As if every write began at the beginning of a page.
BufferWriteOver(addr, n) == WholePages(addr, n \div P) \o PageWrite(addr + (n \div P) * P, n % P)

\* SPI_FLASH_BufferWrite.  A write that fills whole pages from the beginning of
\* one ends with a program command of no byte.
BufferWrite(addr, n) ==
    LET count == P - (addr % P)
    IN  IF addr % P = 0
        THEN IF n < P
             THEN PageWrite(addr, n)
             ELSE WholePages(addr, n \div P) \o PageWrite(addr + (n \div P) * P, n % P)
        ELSE IF n < P
             THEN IF n > count
                  THEN PageWrite(addr, count) \o PageWrite(addr + count, n - count)
                  ELSE PageWrite(addr, n)
             ELSE LET rest == n - count
                      last == addr + count + (rest \div P) * P
                  IN  PageWrite(addr, count)
                        \o WholePages(addr + count, rest \div P)
                        \o (IF rest % P # 0 THEN PageWrite(last, rest % P) ELSE << >>)

\* The sectors follow each other without waiting for the chip.
EraseUnpolled(addr, num) ==
    [i \in 1 .. 2 * num |->
        << Command("enable", 0, 0),
           Command("erase", (addr \div SectorSize + (i - 1) \div 2) * SectorSize, 0) >>[((i - 1) % 2) + 1]]

\* SPI_Flash_Erase: num sectors from the one of addr on.
Erase(addr, num) ==
    LET sector(i) == (addr \div SectorSize + (i - 1) \div 4) * SectorSize
        part(i)   == << Command("enable", 0, 0), Command("poll", 0, 0),
                        Command("erase", sector(i), 0), Command("poll", 0, 0) >>[((i - 1) % 4) + 1]
    IN  [i \in 1 .. 4 * num |-> part(i)]

\* The second argument for a block: spiffs gives a size in bytes, the comment
\* of SPI_Flash_Erase asks for a number of sectors.
EraseCount(len) == IF ByteCount THEN len ELSE len \div SectorSize

\* The commands of a function.
Commands(c) ==
    CASE c.op = "write" -> BufferWrite(c.addr, c.len)
      [] c.op = "erase" -> Erase(c.addr, EraseCount(c.len))
      [] c.op = "read"  -> << Command("read", c.addr, c.len) >>

-----------------------------------------------------------------------------
\* The chip

\* The bytes of a program command, from the address on and round the page:
\* which of them are programmed.
Programmed(addr, n, zeros) ==
    LET base == addr - (addr % P)
        to(a) == (base + (a % P)) % Size
    IN  {to(a) : a \in zeros \cap (addr .. addr + n - 1)}

Sector(addr) ==
    LET base == (addr - (addr % SectorSize)) % Size IN base .. base + SectorSize - 1

\* The chip hears a program or erase command.
Hears == latch /\ busy = 0

\* It begins to program or erase, for as many polls as it likes.
Starts(memory) ==
    /\ effect' = memory
    /\ busy' \in 1 .. MaxBusy
    /\ UNCHANGED <<mem, latch>>

\* It is ready.
Ready ==
    /\ busy > 0
    /\ mem' = effect
    /\ busy' = 0
    /\ latch' = FALSE
    /\ UNCHANGED <<effect, call, todo, polls>>

-----------------------------------------------------------------------------
\* The driver

Begin(c) ==
    /\ call = Hal!NoCall
    /\ call' = c
    /\ todo' = Commands(c)
    /\ polls' = 0
    /\ UNCHANGED <<mem, latch, busy, effect>>

\* The next command of the function is sent, and it was a cmd.
Send(cmd) ==
    /\ todo # << >>
    /\ todo[1].cmd = cmd
    /\ todo' = Tail(todo)
    /\ UNCHANGED <<call, polls>>

\* SPI_FLASH_WriteEnable: a busy chip does not hear it.
WriteEnable ==
    /\ Send("enable")
    /\ latch' = (latch \/ busy = 0)
    /\ UNCHANGED <<mem, busy, effect>>

\* W25X_PageProgram: without a byte the chip does nothing; whether it keeps the
\* latch is left open.
PageProgram ==
    /\ Send("program")
    /\ LET c == todo[1]
       IN  CASE ~ Hears -> UNCHANGED <<mem, latch, busy, effect>>
             [] Hears /\ c.len = 0 -> latch' \in BOOLEAN /\ UNCHANGED <<mem, busy, effect>>
             [] OTHER -> Starts(mem \cup Programmed(c.addr, c.len, call.zeros))

\* W25X_SectorErase
SectorErase ==
    /\ Send("erase")
    /\ IF Hears
       THEN Starts(mem \ Sector(todo[1].addr))
       ELSE UNCHANGED <<mem, latch, busy, effect>>

\* SPI_FLASH_BufferRead: a busy chip does not answer.
BufferRead == Send("read") /\ UNCHANGED <<mem, latch, busy, effect>>

\* The loop ends: it goes on to the next command.
Leave ==
    /\ todo' = Tail(todo)
    /\ polls' = 0
    /\ UNCHANGED <<mem, latch, busy, effect, call>>

\* The chip said that it is busy.  (It says so no more often than it may.)
Again ==
    /\ busy > 1
    /\ busy' = busy - 1
    /\ polls' = polls + 1
    /\ UNCHANGED <<mem, latch, effect, call, todo>>

\* It waits for the flag to be set, not to be reset.
WaitForWriteEndInverted ==
    /\ todo # << >> /\ todo[1].cmd = "wait"
    /\ IF busy # 0 THEN Leave ELSE UNCHANGED vars

\* SPI_FLASH_WaitForWriteEnd: polls without end.
WaitForWriteEnd ==
    /\ todo # << >> /\ todo[1].cmd = "wait"
    /\ IF busy = 0 THEN Leave ELSE Again

\* It polls once.
CheckBusyOnce ==
    /\ todo # << >> /\ todo[1].cmd = "poll"
    /\ Leave

\* SpiFlashCheckBusy: polls a number of times; that it gave up is not looked at.
CheckBusy ==
    /\ todo # << >> /\ todo[1].cmd = "poll"
    /\ IF busy = 0 \/ polls >= MaxPolls THEN Leave ELSE Again

Return ==
    /\ call # Hal!NoCall
    /\ todo = << >>
    /\ call' = Hal!NoCall
    /\ UNCHANGED <<mem, latch, busy, effect, todo, polls>>

-----------------------------------------------------------------------------

Init ==
    /\ mem = {} /\ effect = {}
    /\ latch = FALSE /\ busy = 0
    /\ call = Hal!NoCall /\ todo = << >> /\ polls = 0

DriverStep ==
    \/ WriteEnable \/ PageProgram \/ SectorErase \/ BufferRead
    \/ WaitForWriteEnd \/ CheckBusy \/ Return

Next ==
    \/ \E c \in Hal!WriteCalls \cup Hal!EraseCalls(BlockSize) \cup Hal!ReadCalls : Begin(c)
    \/ DriverStep
    \/ Ready

\* The driver goes on, and the chip becomes ready.
Spec == Init /\ [][Next]_vars /\ WF_vars(DriverStep) /\ WF_vars(Ready)

-----------------------------------------------------------------------------
\* Properties

TypeOK ==
    /\ mem \subseteq 0 .. Size - 1 /\ effect \subseteq 0 .. Size - 1
    /\ latch \in BOOLEAN
    /\ busy \in 0 .. MaxBusy
    /\ polls \in 0 .. MaxPolls
    /\ \A i \in 1 .. Len(todo) : todo[i].cmd = "program" => todo[i].len \in 0 .. P

\* The driver is what spiffs expects of its flash: a write clears the bytes it
\* is given and no others, an erase sets those of its block and no others, all
\* of it before the call returns, whatever page or sector boundaries lie in it.
HalSpec == Hal!Spec

\* Every program, erase and read command reaches a chip that hears it: none is
\* sent while the chip is busy or before it is enabled, where it would be lost
\* without a word (the functions return 0 whatever happens).
CommandsHeard ==
    [][/\ PageProgram \/ SectorErase => Hears
       /\ BufferRead => busy = 0]_vars

\* A function returns when the chip is ready, so that the next finds it so.
ReturnsReady == call = Hal!NoCall => busy = 0

\* An erase leaves the bytes outside its block alone.
EraseStaysInBlock ==
    [][call.op = "erase" => mem \ Hal!Asked(call) \subseteq mem']_vars

\* Every call returns.
CallReturns == call # Hal!NoCall ~> call = Hal!NoCall
\* The driver between its commands and after its calls.
DriverInv == TypeOK /\ ReturnsReady
=============================================================================
