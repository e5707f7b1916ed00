----------------------------- MODULE OtaPackage -----------------------------
(***************************************************************************)
(* The OTA package (ota/package.py): a manifest block in front of an       *)
(* application image, how a bare image is packed, and the self-check a     *)
(* package passes before it is sent.  A field of the manifest is a word,   *)
(* and so is a byte of the image; a file is a sequence of words and        *)
(* whether it is called .ota.                                              *)
(***************************************************************************)
EXTENDS Integers, Sequences, SequencesExt

CONSTANTS
  ByteBits,  \* the bits of a byte of the packed version
  MinImage,  \* MIN_APP_IMAGE_SIZE
  MaxImage   \* APP_FLASH_SIZE

ASSUME OtaPackageAssumption ==
  /\ ByteBits \in 1..3  \* a version is less than CrcRange
  /\ MinImage \in Nat \ {0} /\ MaxImage \in Nat /\ MinImage <= MaxImage

\* The manifest block, and the words that have one legal value.
Layout == <<"magic", "format", "header_size", "generation", "state", "target", "device",
            "minimum_bootloader", "app_version", "address", "image_size", "image_crc",
            "protocol", "flags", "package_id", "reserved", "crc">>
BlockSize == Len(Layout)
Fixed == [magic |-> 9, format |-> 1, header_size |-> 8, target |-> 5, device |-> 4,
          address |-> 3, protocol |-> 1, flags |-> 0, reserved |-> 0]

Field(package, name) == package[CHOOSE i \in 1..BlockSize : Layout[i] = name]
Image(package)       == SubSeq(package, BlockSize + 1, Len(package))

\* STATE_PACKAGE to STATE_APPLIED
States == 0..4

\* zlib.crc32 and hashlib.sha256.  The modulus is a prime larger than every word, so
\* that a single damaged word always shows, as a single damaged byte does with CRC32.
CrcRange == 4093
Hash(factor, words) == FoldLeft(LAMBDA sum, w : (factor * sum + w + 1) % CrcRange, 0, words)
Crc(words)    == Hash(17, words)
Digest(words) == Hash(31, words)

-----------------------------------------------------------------------------
(* Versions: two bytes and a half word in one word.                          *)

Byte == 2^ByteBits

IsVersion(v) ==
  Len(v) = 3 /\ v[1] \in 0..(Byte - 1) /\ v[2] \in 0..(Byte - 1) /\ v[3] \in 0..(Byte^2 - 1)

VersionValue(v)  == v[1] * Byte^3 + v[2] * Byte^2 + v[3]
FormatVersion(n) == <<(n \div Byte^3) % Byte, (n \div Byte^2) % Byte, n % Byte^2>>

-----------------------------------------------------------------------------
(* Packing.                                                                  *)

\* What pack_manifest raises an error for.
Packs(image, v) == Len(image) \in MinImage..MaxImage /\ IsVersion(v)

PackManifest(image, v, state) ==
  LET values == [generation |-> 0, state |-> state, minimum_bootloader |-> VersionValue(<<1, 0, 0>>),
                 app_version |-> VersionValue(v), image_size |-> Len(image),
                 image_crc |-> Crc(image), package_id |-> Digest(image)]
      word(name) == IF name \in DOMAIN Fixed THEN Fixed[name] ELSE values[name]
      block == [i \in 1..(BlockSize - 1) |-> word(Layout[i])]
  IN  Append(block, Crc(block))

\* pack_ota, and build_package for state 0.
PackOta(image, v, state) == PackManifest(image, v, state) \o image
BuildPackage(image, v)   == PackOta(image, v, 0)

-----------------------------------------------------------------------------
(* The self-check.                                                           *)

ParsesManifest(block) ==
  /\ \A name \in DOMAIN Fixed : Field(block, name) = Fixed[name]
  /\ Last(block) = Crc(Front(block))
  /\ Field(block, "image_size") \in MinImage..MaxImage
  /\ Field(block, "state") \in States

ValidatesPackage(package) ==
  /\ Len(package) >= BlockSize
  /\ ParsesManifest(SubSeq(package, 1, BlockSize))
  /\ Field(package, "state") = 0
  /\ Len(Image(package)) = Field(package, "image_size")
  /\ Crc(Image(package)) = Field(package, "image_crc")

IsPackageImage(data) == Len(data) >= BlockSize /\ data[1] = Fixed.magic

\* load_package: the suffix is checked first.
LoadsPackage(f) == f.ota /\ ValidatesPackage(f.data)
=============================================================================
