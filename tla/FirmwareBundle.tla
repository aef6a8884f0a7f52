--------------------------- MODULE FirmwareBundle ---------------------------
(***************************************************************************)
(* The firmware file (firmware.rs): what FirmwareBundle::parse accepts,    *)
(* and where it finds each image.                                          *)
(*                                                                         *)
(* A file is its size, what its header says, and what the words at the     *)
(* four image headers say; a size that cuts the images off or adds to them *)
(* is part of the input.  A header word is TRUE when it is the pinned one. *)
(* trusted: the digest of the whole file is the one the trust policy pins. *)
(* intact: the digest of the payload is the one the header stores.         *)
(***************************************************************************)
EXTENDS Integers, Sequences, FiniteSetsExt

HeaderLen      == 52     \* PATCH_HEADER_LEN
ImageHeaderLen == 8      \* IMAGE_HEADER_LEN
ImageCount     == 4      \* PATCH_IMAGE_COUNT

(* UmacPrimary, UmacSecondary, LmacPrimary, LmacSecondary *)
ImageKinds == 0 .. 3

FileType ==
  [size : Nat, payload : Nat,
   images : [1 .. ImageCount -> [kind : Nat, len : Nat]],
   signature : BOOLEAN, count : BOOLEAN, version : BOOLEAN, features : BOOLEAN,
   trusted : BOOLEAN, intact : BOOLEAN]

(* Where image i ends, by the lengths in the image headers *)
EndOf(f) ==
  LET End[i \in 0 .. ImageCount] ==
        IF i = 0 THEN HeaderLen
        ELSE End[i - 1] + ImageHeaderLen + f.images[i].len
  IN End

PayloadEnd(f) == HeaderLen + f.payload

(* image_extent at the header of image i *)
ExtentVerdict(f, i) ==
  IF EndOf(f)[i - 1] + ImageHeaderLen > PayloadEnd(f) THEN "TruncatedImage"
  ELSE IF f.images[i].kind \notin ImageKinds THEN "InvalidImageType"
  ELSE IF EndOf(f)[i] > PayloadEnd(f) THEN "TruncatedImage"
  ELSE "ok"

Repeated(f, i) == \E j \in 1 .. i - 1 : f.images[j].kind = f.images[i].kind

ImageVerdict(f, i) ==
  IF ExtentVerdict(f, i) = "ok" /\ Repeated(f, i) THEN "InvalidImageType"
  ELSE ExtentVerdict(f, i)

(* Fault: the mask of the images seen is not looked at. *)
ValidateUnseen(f) ==
  LET bad == {i \in 1 .. ImageCount : ExtentVerdict(f, i) # "ok"} IN
  IF bad # {} THEN ExtentVerdict(f, Min(bad))
  ELSE IF EndOf(f)[ImageCount] # PayloadEnd(f) THEN "LengthMismatch"
  ELSE "ok"

ValidateImages(f) ==
  LET bad == {i \in 1 .. ImageCount : ImageVerdict(f, i) # "ok"} IN
  IF bad # {} THEN ImageVerdict(f, Min(bad))
  ELSE IF EndOf(f)[ImageCount] # PayloadEnd(f) THEN "LengthMismatch"
  ELSE "ok"

(* parse_compatible_header *)
HeaderVerdict(f) ==
  IF ~f.signature     THEN "BadSignature"
  ELSE IF ~f.count    THEN "BadImageCount"
  ELSE IF ~f.version  THEN "IncompatibleVersion"
  ELSE IF ~f.features THEN "IncompatibleFeatures"
  ELSE "ok"

(* exact_payload_end *)
PayloadVerdict(f) ==
  IF PayloadEnd(f) > f.size      THEN "TruncatedPayload"
  ELSE IF PayloadEnd(f) < f.size THEN "LengthMismatch"
  ELSE "ok"

Parse(f) ==
  IF f.size < HeaderLen             THEN "TruncatedHeader"
  ELSE IF HeaderVerdict(f) # "ok"   THEN HeaderVerdict(f)
  ELSE IF PayloadVerdict(f) # "ok"  THEN PayloadVerdict(f)
  ELSE ValidateImages(f)

(* image: where the bytes of a role are in the file *)
Image(f, kind) ==
  LET i == Min({j \in 1 .. ImageCount : f.images[j].kind = kind})
  IN [start |-> EndOf(f)[i - 1] + ImageHeaderLen, len |-> f.images[i].len]

(* PinnedFirmwareSha256::verify and FirmwareBundle::verify_hash *)
Verify(f)     == IF f.trusted THEN "ok" ELSE "UntrustedImage"
VerifyHash(f) == IF f.intact THEN "ok" ELSE "HashMismatch"

(* What load asks for before it touches a processor *)
Authorize(f) == IF Verify(f) # "ok" THEN Verify(f) ELSE VerifyHash(f)

(* Reference: a file is good when it is the pinned header and, one after   *)
(* the other up to its last byte, four images of four roles.               *)
WellFormed(f) ==
  /\ f.signature /\ f.count /\ f.version /\ f.features
  /\ {f.images[i].kind : i \in 1 .. ImageCount} = ImageKinds
  /\ f.payload = ImageCount * ImageHeaderLen
                   + f.images[1].len + f.images[2].len
                   + f.images[3].len + f.images[4].len
  /\ f.size = HeaderLen + f.payload
=============================================================================
