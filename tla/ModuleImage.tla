----------------------------- MODULE ModuleImage -----------------------------
(***************************************************************************)
(* Userspace_InsmodCode/insmod_code.c: a module file is read into a buffer *)
(* that doubles whenever it is full, and handed to init_module.  The size  *)
(* of the buffer is an unsigned int, so it wraps at UintRange; the first   *)
(* size is ImageFirst.  The real ones are 2^32 and 16384.                  *)
(***************************************************************************)
EXTENDS Naturals

CONSTANTS ImageFirst, UintRange, FileMax

ASSUME ImageAssumption == ImageFirst \in Nat \ {0} /\ UintRange \in Nat \ {0} /\ FileMax \in Nat

\* Doubling the first size arrives at UintRange: both are powers of two.
Doublings(Sizes) ==
  /\ ImageFirst \in Sizes \ {UintRange} /\ UintRange \in Sizes
  /\ \A m \in Sizes \ {UintRange} : 2 * m \in Sizes

ASSUME ImageDoubles == \E Sizes \in SUBSET (1..UintRange) : Doublings(Sizes)

VARIABLES
  imgStep,   \* where the program is
  imgFile,   \* the length of the file
  imgMax,    \* max
  imgSize,   \* *size
  imgBuffer, \* "none", "live" or "freed"
  imgFd      \* whether the file is open

imgVars == <<imgStep, imgFile, imgMax, imgSize, imgBuffer, imgFd>>

ImageInit ==
  /\ imgStep = "open" /\ imgFile \in 0..FileMax
  /\ imgMax = ImageFirst /\ imgSize = 0
  /\ imgBuffer = "none" /\ imgFd = FALSE

\* out_error: free the buffer, close the file.
OutError == imgStep' = "failed" /\ imgBuffer' = "freed" /\ imgFd' = FALSE

OpensImage ==
  /\ imgStep = "open"
  /\ \/ imgStep' = "malloc" /\ imgFd' = TRUE
     \/ imgStep' = "failed" /\ UNCHANGED imgFd
  /\ UNCHANGED <<imgFile, imgMax, imgSize, imgBuffer>>

AllocatesImage ==
  /\ imgStep = "malloc"
  /\ \/ imgStep' = "read" /\ imgBuffer' = "live" /\ UNCHANGED imgFd
     \/ OutError
  /\ UNCHANGED <<imgFile, imgMax, imgSize>>

\* Fault: the buffer is not enlarged.
GrowsNever == imgStep' = "read" /\ UNCHANGED <<imgMax, imgBuffer, imgFd>>

\* realloc to twice the size.  A size that wraps to zero frees the buffer and
\* returns null; what the error path then does is undefined.
Grows ==
  LET max == (2 * imgMax) % UintRange
  IN  \/ imgMax' = max /\ max # 0 /\ imgStep' = "read" /\ UNCHANGED <<imgBuffer, imgFd>>
      \/ imgMax' = max /\ max # 0 /\ OutError
      \/ imgMax' = max /\ max = 0 /\ imgStep' = "undefined" /\ imgBuffer' = "freed" /\ UNCHANGED imgFd

\* A read of part of the file; it may be shorter than asked for.
ReadsPart ==
  /\ imgStep = "read"
  /\ \E n \in 1..FileMax :
       /\ n <= imgMax - imgSize /\ n <= imgFile - imgSize
       /\ imgSize' = imgSize + n
  /\ IF imgSize' = imgMax THEN Grows ELSE UNCHANGED <<imgStep, imgMax, imgBuffer, imgFd>>
  /\ UNCHANGED imgFile

\* read returns zero, at the end of the file or for no room, or fails.
ReadEnds ==
  /\ imgStep = "read"
  /\ \/ /\ imgSize = imgFile \/ imgSize = imgMax
        /\ imgStep' = "load" /\ imgFd' = FALSE /\ UNCHANGED imgBuffer
     \/ OutError
  /\ UNCHANGED <<imgFile, imgMax, imgSize>>

\* init_module, and free.
Loads ==
  /\ imgStep = "load" /\ imgStep' = "done" /\ imgBuffer' = "freed"
  /\ UNCHANGED <<imgFile, imgMax, imgSize, imgFd>>

ImageNext == OpensImage \/ AllocatesImage \/ ReadsPart \/ ReadEnds \/ Loads

\* What is handed to init_module is the whole file, however the reads were
\* cut and also when its length is a size of the buffer, and it fits in the
\* buffer; the program ends with the file closed and the buffer freed
\* (module_image_size).
ImageWhole ==
  /\ imgStep \in {"read", "load"} => imgSize <= imgMax /\ imgBuffer = "live"
  /\ imgStep = "load" => imgSize = imgFile
  /\ imgStep \in {"failed", "done"} => ~imgFd /\ imgBuffer # "live"
=============================================================================
