-------------------------------- MODULE Md5 --------------------------------
(***************************************************************************)
(* The streaming half of apps/dwarf/md5/src/md5.c: how MD5_Update and      *)
(* MD5_Final cut a message that arrives in pieces into blocks for          *)
(* MD5_Transform.  The state of the digest is the sequence of the blocks   *)
(* transformed, which determines it.                                       *)
(*                                                                         *)
(* Its names are apart from those of Md5Lines, the program around it, so   *)
(* that the two can be reasoned about together.                            *)
(***************************************************************************)
EXTENDS Integers, Sequences, FiniteSetsExt, SequencesExt

CONSTANTS
  Word,        \* number of values of a word of count (2^32 in the code)
  BlockSize,   \* bytes of a block (64)
  LenSize,     \* bytes of a block that hold the length (8)
  MaxMessage,  \* bound: bytes of a message
  MaxMessages  \* bound: messages hashed with the same context

ASSUME WidthAssumption ==
  /\ LenSize = 2 /\ BlockSize \in Nat /\ LenSize < BlockSize
  /\ Word \in Nat \ {0} /\ Word % (8 * BlockSize) = 0
  /\ MaxMessage \in Nat /\ MaxMessages \in Nat

(* A byte is a byte of the message, named by its position, a byte of the   *)
(* padding, a half of the length, or what the memory held before.          *)
MessageByte(k) == [kind |-> "message", value |-> k]
PadByte(v) == [kind |-> "pad", value |-> v]
LengthByte(v) == [kind |-> "length", value |-> v]
Garbage == [kind |-> "garbage", value |-> 0]

VARIABLES
  count,    \* count[0] and count[1] of the context, as a pair
  buffer,   \* buffer of the context
  blocks,   \* the blocks transformed so far
  message,  \* the bytes given to MD5_Update so far
  hashed,   \* messages begun
  running   \* whether MD5_Final is still to be called

digest_vars == <<count, buffer, blocks, message, hashed, running>>

-----------------------------------------------------------------------------
Context == [count |-> count, buffer |-> buffer, blocks |-> blocks]

Index(ctx) == (ctx.count[1] \div 8) % BlockSize

MutantAddLength(c, len) ==
  <<(c[1] + 8 * len) % Word, (c[2] + len \div (Word \div 8)) % Word>>

(* The number of bits in two words: the sum is smaller than a summand when *)
(* there is a carry, and the bits of len that the shift drops are added.   *)
AddLength(c, len) ==
  LET low == (c[1] + 8 * len) % Word
      carry == IF low < (8 * len) % Word THEN 1 ELSE 0
  IN  <<low, (c[2] + carry + len \div (Word \div 8)) % Word>>

(* memcpy to the buffer from index on. *)
CopyTo(buf, index, s) ==
  [k \in DOMAIN buf |-> IF k \in (index + 1)..(index + Len(s))
                        THEN s[k - index] ELSE buf[k]]

MutantWholeBlocks(len, from) == (len - from - 1) \div BlockSize

(* The turns of the loop  i + 63 < len  that starts with i = from. *)
WholeBlocks(len, from) == (len - from) \div BlockSize

(* The context after MD5_Update with the bytes of s. *)
Updated(ctx, s) ==
  LET index == Index(ctx)
      partLen == BlockSize - index
      first == SubSeq(ctx.buffer, 1, index) \o SubSeq(s, 1, partLen)
      more == [k \in 1..WholeBlocks(Len(s), partLen) |->
                 SubSeq(s, partLen + (k - 1) * BlockSize + 1, partLen + k * BlockSize)]
      i == partLen + Len(more) * BlockSize
  IN  IF Len(s) >= partLen
      THEN [count |-> AddLength(ctx.count, Len(s)),
            buffer |-> CopyTo(ctx.buffer, 0, SubSeq(s, i + 1, Len(s))),
            blocks |-> ctx.blocks \o <<first>> \o more]
      ELSE [ctx EXCEPT !.count = AddLength(@, Len(s)),
                       !.buffer = CopyTo(@, index, s)]

MutantPadLen(index) ==
  IF index <= BlockSize - LenSize
  THEN BlockSize - LenSize - index ELSE 2 * BlockSize - LenSize - index

(* At least one byte, up to where the length begins. *)
PadLen(index) ==
  IF index < BlockSize - LenSize
  THEN BlockSize - LenSize - index ELSE 2 * BlockSize - LenSize - index

PADDING == [k \in 1..BlockSize |-> PadByte(IF k = 1 THEN 128 ELSE 0)]

(* MD5_Final encodes the length before it pads. *)
Final(ctx) ==
  LET bits == <<LengthByte(ctx.count[1]), LengthByte(ctx.count[2])>>
      padded == Updated(ctx, SubSeq(PADDING, 1, PadLen(Index(ctx))))
  IN  Updated(padded, bits)

-----------------------------------------------------------------------------
(* A context on the stack, before MD5_Init. *)
DigestInit ==
  /\ count = <<0, 0>> /\ buffer = [k \in 1..BlockSize |-> Garbage]
  /\ blocks = << >> /\ message = << >> /\ hashed = 0 /\ running = FALSE

(* The buffer is not cleared. *)
MD5_Init ==
  /\ ~running /\ hashed < MaxMessages
  /\ count' = <<0, 0>> /\ blocks' = << >> /\ message' = << >>
  /\ hashed' = hashed + 1 /\ running' = TRUE
  /\ UNCHANGED buffer

MD5_Update(len) ==
  LET s == [k \in 1..len |-> MessageByte(Len(message) + k)] IN
  /\ running /\ Len(message) + len <= MaxMessage
  /\ message' = message \o s
  /\ count' = Updated(Context, s).count
  /\ buffer' = Updated(Context, s).buffer
  /\ blocks' = Updated(Context, s).blocks
  /\ UNCHANGED <<hashed, running>>

(* The digest is taken and the context is set to zero. *)
MD5_Final ==
  /\ running
  /\ blocks' = Final(Context).blocks
  /\ count' = <<0, 0>> /\ buffer' = [k \in 1..BlockSize |-> PadByte(0)]
  /\ running' = FALSE
  /\ UNCHANGED <<message, hashed>>

DigestNext ==
  \/ MD5_Init
  \/ \E len \in 0..MaxMessage : MD5_Update(len)
  \/ MD5_Final

DigestSpec == DigestInit /\ [][DigestNext]_digest_vars

-----------------------------------------------------------------------------
(* Between two calls the blocks and the used part of the buffer are the    *)
(* message, however it was cut into pieces.                                *)
NothingLost ==
  running => FlattenSeq(blocks) \o SubSeq(buffer, 1, Index(Context)) = message

(* The two words of count are the number of bits, modulo the square of     *)
(* Word: carries between them, and messages of more bits than a word       *)
(* counts, included.                                                       *)
BitsCounted ==
  running => count[1] + Word * count[2] = (8 * Len(message)) % (Word * Word)

(* RFC 1321, section 3: a byte 128, as few zeroes as fill up to the length *)
(* field, and the number of bits of the message, low word first.           *)
Padded(m) ==
  LET zeroes == CHOOSE z \in 0..(BlockSize - 1) :
                  (Len(m) + 1 + z + LenSize) % BlockSize = 0
  IN  m \o <<PadByte(128)>> \o [k \in 1..zeroes |-> PadByte(0)]
      \o <<LengthByte((8 * Len(m)) % Word), LengthByte(((8 * Len(m)) \div Word) % Word)>>

(* The blocks transformed are those of the padded message. *)
DigestsPaddedMessage ==
  ~running /\ hashed > 0 => FlattenSeq(blocks) = Padded(message)
=============================================================================
