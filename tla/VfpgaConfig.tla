---------------------------- MODULE VfpgaConfig ----------------------------
(***************************************************************************)
(* The configuration header kept on flash (src/vfpga/vfpga_config): save() *)
(* writes the bytes of the struct with a checksum over them, load() reads  *)
(* them over the object and only then validates them.                      *)
(*                                                                         *)
(* Power may fail while a file is written, storage may take only its first *)
(* bytes, and one byte of it may rot.                                      *)
(***************************************************************************)
EXTENDS Sums

CONSTANTS
  Payloads, (* the counts an owner may fill in: bytes 6 to 15              *)
  Paddings, (* what the two bytes of padding may hold                      *)
  RotBytes, (* what a byte of the file may rot to                          *)
  Cuts,     (* after how many bytes writing the file may break off         *)
  MaxSaves  (* bound on the calls of save()                                *)

Byte == 0..255
Magic == <<71, 80, 70, 86>>
Version == <<1, 0>>

\* vio_count, checksum and padding take bytes 14-15, 16-17 and 18-19, that
\* is, elements 15 to 20 of the sequence of the 20 bytes.
Size == 20
VioCount == {15, 16}
ChecksumAt == {17, 18}

ASSUME PayloadsAssumption == Payloads \subseteq [1..10 -> Byte]
ASSUME PaddingsAssumption == Paddings \subseteq [1..2 -> Byte] /\ Paddings # {}
ASSUME RotBytesAssumption == RotBytes \subseteq Byte
ASSUME CutsAssumption == Cuts \subseteq 0 .. Size - 1
ASSUME MaxSavesAssumption == MaxSaves \in Nat

VARIABLES
  object, (* the bytes of the object in RAM                                *)
  file,   (* the bytes of the file, as many as it has                      *)
  writing,(* what a running save() is writing, <<>> outside save()         *)
  result, (* how the last call ended; "none" when it was not save or load  *)
  sent,   (* history: what the last save() set out to write                *)
  rotten, (* history: the bytes of the file that changed since             *)
  saves   (* calls of save(), at most MaxSaves                             *)

configVars == <<object, file, writing, result, sent, rotten, saves>>

Fresh(padding) == Magic \o Version \o [i \in 1..12 |-> 0] \o padding

ConfigInit ==
  /\ \E padding \in Paddings : object = Fresh(padding)
  /\ file = <<>>
  /\ writing = <<>>
  /\ result = "none"
  /\ sent = <<>>
  /\ rotten = {}
  /\ saves = 0

-----------------------------------------------------------------------------
(* The checksum *)

(* Mutant: the count before the skipped one is skipped too.                *)
SummedTooFew == 1..Size \ {13, 14, 15, 16}

(* Mutant: what the comment intends, the bytes of the checksum are skipped.*)
SummedAsIntended == 1..Size \ ChecksumAt

(* The bytes the loop adds up.                                             *)
Summed == 1..Size \ VioCount

SumOf(bytes, S) == Total([i \in 1..Size |-> IF i \in S THEN bytes[i] ELSE 0])

compute_checksum(bytes) == SumOf(bytes, Summed) % 65536

WithChecksum(bytes, sum) == [bytes EXCEPT ![17] = sum % 256, ![18] = sum \div 256]

Validated(bytes) ==
  /\ SubSeq(bytes, 1, 4) = Magic
  /\ SubSeq(bytes, 5, 6) = Version
  /\ bytes[17] + 256 * bytes[18] = compute_checksum(bytes)

-----------------------------------------------------------------------------
(* Calls *)

(* The owner assigns the counts.                                           *)
Fill ==
  /\ writing = <<>>
  /\ \E payload \in Payloads :
       object' = SubSeq(object, 1, 6) \o payload \o SubSeq(object, 17, 20)
  /\ result' = "none"
  /\ UNCHANGED <<file, writing, sent, rotten, saves>>

(* save() opens the file, which empties it, or cannot open it.  The object *)
(* itself keeps its old checksum, and that is in the sum.                  *)
SaveBegins ==
  /\ writing = <<>>
  /\ saves < MaxSaves
  /\ saves' = saves + 1
  /\ \/ \E padding \in Paddings :
          LET copy == SubSeq(object, 1, 18) \o padding IN
          /\ writing' = WithChecksum(copy, compute_checksum(copy))
          /\ file' = <<>>
          /\ sent' = writing'
          /\ rotten' = {}
          /\ result' = "none"
     \/ result' = "not saved" /\ UNCHANGED <<file, writing, sent, rotten>>
  /\ UNCHANGED object

(* fwrite() and fclose().  Storage may take only a part, and fwrite(),     *)
(* which only fills a buffer, need not know.                               *)
SaveEnds ==
  /\ writing # <<>>
  /\ \E n \in Cuts \cup {Size} :
       /\ file' = SubSeq(writing, 1, n)
       /\ result' \in IF n = Size THEN {"saved"} ELSE {"saved", "not saved"}
  /\ writing' = <<>>
  /\ UNCHANGED <<object, sent, rotten, saves>>

(* Power fails; after the restart there is a new object.                   *)
PowerFails ==
  /\ IF writing = <<>> THEN UNCHANGED file
     ELSE \E n \in Cuts \cup {Size} : file' = SubSeq(writing, 1, n)
  /\ writing' = <<>>
  /\ \E padding \in Paddings : object' = Fresh(padding)
  /\ result' = "none"
  /\ UNCHANGED <<sent, rotten, saves>>

(* load(): a short file, or an invalid one, is noticed after it has        *)
(* overwritten the object.                                                 *)
Load ==
  /\ writing = <<>>
  /\ object' = file \o SubSeq(object, Len(file) + 1, Size)
  /\ result' = IF Len(file) = Size /\ Validated(file) THEN "loaded" ELSE "rejected"
  /\ UNCHANGED <<file, writing, sent, rotten, saves>>

(* A byte of the file rots.  Bound: no save() follows.                     *)
Rot ==
  /\ writing = <<>> /\ rotten = {}
  /\ \E i \in DOMAIN file, b \in RotBytes :
       /\ b # file[i]
       /\ file' = [file EXCEPT ![i] = b]
       /\ rotten' = {i}
  /\ result' = "none"
  /\ saves' = MaxSaves
  /\ UNCHANGED <<object, writing, sent>>

ConfigNext ==
  \/ Fill
  \/ SaveBegins
  \/ SaveEnds
  \/ PowerFails
  \/ Load
  \/ Rot

ConfigSpec == ConfigInit /\ [][ConfigNext]_configVars

-----------------------------------------------------------------------------
(* Properties *)

(* What load() accepts from an undamaged file is what the last save() set  *)
(* out to write, whatever power failures and full storage came between.    *)
LoadsUndamaged == result = "loaded" /\ rotten = {} => object = sent

(* Moreover, a rotten byte gets through in two ways only.  Either the file *)
(* was one that load() accepts and the byte is one the checksum cannot tell*)
(* apart: vio_count, which the sum skips, or the checksum's own low byte,  *)
(* which moves the sum along with it.  Or it was one of the files that     *)
(* save() writes and load() rejects, and the byte, any other, made it      *)
(* acceptable.                                                             *)
LoadsTheLastSave ==
  /\ LoadsUndamaged
  /\ result = "loaded" =>
       LET wrong == {i \in 1..Size : object[i] # sent[i]} IN
       /\ wrong \subseteq rotten
       /\ Validated(sent) <=> wrong \subseteq VioCount \cup {17}

(* Because the checksum is added to itself and vio_count is not added, an  *)
(* undamaged file is accepted only when the sum of the other bytes is      *)
(* divisible by 255.                                                       *)
LoadableSums ==
  result = "loaded" /\ rotten = {} =>
    SumOf(object, 1..Size \ (VioCount \cup ChecksumAt)) % 255 = 0

(* compute_checksum() says it sums "everything except checksum field       *)
(* itself", so load() should accept what save() wrote.                     *)
SavedConfigLoads == ~(result = "rejected" /\ file # <<>> /\ file = sent)
=============================================================================
