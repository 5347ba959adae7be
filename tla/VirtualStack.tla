---------------------------- MODULE VirtualStack ----------------------------
(***************************************************************************)
(* ThVirtualStackAllocator and ThVirtualGrowingStackAllocator              *)
(* (lib/Core/Memory): a range of addresses is reserved, its pages are      *)
(* committed as the position in it passes them, one by one, and the        *)
(* growing one moves to a range of twice the size when the first is full.  *)
(*                                                                         *)
(* The range starts at address 0, and page n begins at n * VmPageSize.     *)
(* Decommitting is that of mmap, which refuses an address that is not the  *)
(* start of a page.                                                        *)
(***************************************************************************)
LOCAL INSTANCE Integers

CONSTANTS
  VmPageSize,
  InitialSize,         \* the size given to Init
  DefaultAlignment,    \* DEFAULT_ALIGNMENT: 16
  BlockSizes,          \* the sizes and alignments that clients ask for
  BlockAlignments,
  MaxCapacity          \* bound on the size of a range

ASSUME StackAssumption ==
  /\ VmPageSize \in Nat \ {0, 1} /\ InitialSize \in Nat \ {0}
  /\ DefaultAlignment \in Nat \ {0} /\ InitialSize % DefaultAlignment = 0
  /\ BlockSizes \subseteq Nat /\ BlockAlignments \subseteq Nat \ {0}
  /\ MaxCapacity \in Nat

VARIABLES
  stack,       \* [size, next, marker, committed]: m_Size, m_NextPage, m_Marker
               \* and the pages that can be accessed
  growing,     \* whether it is a ThVirtualGrowingStackAllocator
  marks,       \* history: the markers that clients may go back to
  oversized,   \* history: a block was larger than a page
  recalled,    \* history: pages were given back
  filled,      \* history: the range was filled to its last byte
  crashed      \* memory that is not committed was copied

stackVars == <<stack, growing, marks, oversized, recalled, filled, crashed>>

(* The pages of length bytes from an address on. *)
Pages(address, length) ==
  IF length = 0 THEN {} ELSE address \div VmPageSize .. (address + length - 1) \div VmPageSize

NewRange(size) == [size |-> size, next |-> 0, marker |-> 0, committed |-> {}]

(* The size of the block is aligned, its address is not. *)
Aligned(size, alignment) == ((size + alignment - 1) \div alignment) * alignment

Fits(s, length) == s.marker + length <= s.size

(* Mutant: a page is committed when the block begins on it. *)
PushFrom(s, length) ==
  IF s.marker >= s.next
  THEN [s EXCEPT !.committed = @ \union {s.next \div VmPageSize},
                 !.next = @ + VmPageSize, !.marker = @ + length]
  ELSE [s EXCEPT !.marker = @ + length]

(* One page is committed when the new position is at its start or past it. *)
Push(s, length) ==
  IF s.marker + length >= s.next
  THEN [s EXCEPT !.committed = @ \union {s.next \div VmPageSize},
                 !.next = @ + VmPageSize, !.marker = @ + length]
  ELSE [s EXCEPT !.marker = @ + length]

(* A range of another size, with what is in use in one block. *)
Moved(s, size) == Push(NewRange(size), Aligned(s.marker, DefaultAlignment))

CanCopy(s, moved) == Pages(0, s.marker) \subseteq s.committed \intersect moved.committed

-----------------------------------------------------------------------------

StackInit ==
  /\ stack = NewRange(InitialSize)
  /\ growing \in BOOLEAN
  /\ marks = {0}
  /\ oversized = FALSE /\ recalled = FALSE /\ filled = FALSE /\ crashed = FALSE

AllocateHere(s, length) ==
  /\ stack' = Push(s, length)
  /\ marks' = marks \union {stack'.marker}
  /\ filled' = ((filled /\ s.size = stack.size) \/ stack'.marker = s.size)
  /\ UNCHANGED <<growing, recalled, crashed>>

(* Allocate.  The growing stack doubles until the block fits. *)
StackAllocate(size, alignment) ==
  LET length == Aligned(size, alignment)
  IN  /\ Fits(stack, length)
      /\ AllocateHere(stack, length)
      /\ oversized' = (oversized \/ length > VmPageSize)

(* The size is doubled once or more, until the block fits; each time what  *)
(* is in use is moved.  Once it has been moved, moving it again to another  *)
(* size gives what moving it there at once gives.                           *)
Doublings == {size \in stack.size + 1 .. MaxCapacity :
                \E n \in 1 .. MaxCapacity : size = stack.size * 2 ^ n}

AllocateGrowing(size, alignment) ==
  LET length == Aligned(size, alignment)
  IN  \E newSize \in Doublings :
        LET moved == Moved(stack, newSize)
            once  == newSize = 2 * stack.size
        IN  /\ growing /\ ~ Fits(stack, length)
            /\ Fits(moved, length)
            /\ once \/ ~ Fits(Moved(stack, newSize \div 2), length)
            /\ oversized' = (oversized \/ length > VmPageSize \/ moved.marker > VmPageSize)
            /\ IF CanCopy(stack, moved) /\ (once \/ CanCopy(moved, moved))
               THEN AllocateHere(moved, length)
               ELSE /\ crashed' = TRUE
                    /\ UNCHANGED <<stack, growing, marks, recalled, filled>>

(* What mmap does with pages that are given back. *)
Decommitted(address, length) ==
  IF address % VmPageSize = 0 THEN Pages(address, length) ELSE {}

(* The position goes back, m_NextPage does not. *)
GoBack(marker, given) ==
  /\ stack' = [stack EXCEPT !.marker = marker, !.committed = @ \ given]
  /\ marks' = {m \in marks : m <= marker} \union {marker}
  /\ recalled' = (recalled \/ stack'.committed # stack.committed)
  /\ UNCHANGED <<growing, oversized, filled, crashed>>

FreeToMarker(marker) ==
  /\ marker < stack.marker
  /\ GoBack(marker, Decommitted(marker - 1, stack.marker - marker))

StackReset == GoBack(0, Decommitted(0, stack.next))

StackNext ==
  /\ ~ crashed
  /\ \/ \E size \in BlockSizes, alignment \in BlockAlignments :
          StackAllocate(size, alignment) \/ AllocateGrowing(size, alignment)
     \/ \E marker \in marks : FreeToMarker(marker)
     \/ StackReset

StackSpec == StackInit /\ [][StackNext]_stackVars

-----------------------------------------------------------------------------

StackTypeOK ==
  /\ stack.marker \in 0 .. stack.size
  /\ stack.next % VmPageSize = 0
  /\ \A page \in stack.committed : page * VmPageSize < stack.next
  /\ marks \subseteq 0 .. stack.marker
  /\ \A flag \in {growing, oversized, recalled, filled, crashed} : flag \in BOOLEAN

(***************************************************************************)
(* Whatever is in use is committed, although Allocate commits at most one  *)
(* page, as long as no block (that of a growing stack's old contents       *)
(* included) is larger than a page and no page was given back; and growing *)
(* copies only what can be accessed.  No page outside the range is         *)
(* committed, unless the range is filled to its last byte.                 *)
(***************************************************************************)
StackIsBacked ==
  /\ ~ oversized /\ ~ recalled => /\ Pages(0, stack.marker) \subseteq stack.committed
                                  /\ ~ crashed
  /\ ~ filled => stack.committed \subseteq Pages(0, stack.size)

(***************************************************************************)
(* The strengthening that is inductive: until a block was larger than a    *)
(* page or pages were given back, the pages are committed without a gap up *)
(* to m_NextPage, and the position is not past it.                         *)
(***************************************************************************)
RangeOK(s) ==
  /\ s \in [size : Nat \ {0}, next : Nat, marker : Nat, committed : SUBSET Nat]
  /\ s.next % VmPageSize = 0
  /\ s.committed \subseteq Pages(0, s.next)

Backed(s) == s.marker <= s.next /\ Pages(0, s.next) \subseteq s.committed

StackIInv ==
  /\ StackTypeOK
  /\ RangeOK(stack)
  /\ ~ oversized /\ ~ recalled => Backed(stack) /\ ~ crashed
  /\ ~ filled => stack.committed \subseteq Pages(0, stack.size)

=============================================================================
