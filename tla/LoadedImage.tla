----------------------------- MODULE LoadedImage -----------------------------
(***************************************************************************)
(* EFI_LOADED_IMAGE_PROTOCOL of efi.h as a compiler for x86-64 lays it out: *)
(* a field starts at the next multiple of its size.  EfiMain reads it as an *)
(* array of pointers.                                                       *)
(***************************************************************************)
EXTENDS Naturals, Sequences

POINTER == 8

Field(name, bytes) == [name |-> name, bytes |-> bytes]
LoadedImageFields ==
  << Field("Revision", 4), Field("ParentHandle", POINTER), Field("SystemTable", POINTER),
     Field("DeviceHandle", POINTER), Field("FilePath", POINTER), Field("LoadOptionsSize", 4),
     Field("LoadOptions", POINTER), Field("ImageBase", POINTER), Field("ImageSize", 8),
     Field("ImageCodeType", 4), Field("ImageDataType", 4), Field("Unload", POINTER),
     Field("ExitBootServices", POINTER) >>

Aligned(n, bytes) == ((n + bytes - 1) \div bytes) * bytes

(* Where the k-th field starts. *)
FieldOffset ==
  LET at[k \in DOMAIN LoadedImageFields] ==
        IF k = 1 THEN 0
        ELSE Aligned(at[k - 1] + LoadedImageFields[k - 1].bytes, LoadedImageFields[k].bytes)
  IN  at

(* img[index], for an index at which a field starts. *)
FieldRead(index) ==
  LoadedImageFields[CHOOSE k \in DOMAIN LoadedImageFields :
                      FieldOffset[k] = index * POINTER].name
=============================================================================
