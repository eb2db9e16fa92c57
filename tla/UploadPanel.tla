------------------------------ MODULE UploadPanel ------------------------------
(***************************************************************************)
(* The panel that takes a sample (frontend/src/components/UploadPanel.tsx):*)
(* a file is picked or dropped, its hash is computed in the background,    *)
(* and it is uploaded.  The request itself, and what becomes of its        *)
(* answer, belong to Session.                                              *)
(***************************************************************************)
CONSTANTS
  File,
  None

VARIABLES
  file, hash,   \* hash: the file whose hash is shown
  digests,      \* files whose hash is being computed
  busy,
  mixed         \* history: another file's hash was under way when this one was picked

panel == << file, hash, digests, busy, mixed >>

PanelTypeOK ==
  /\ {file, hash} \subseteq File \cup {None} /\ digests \subseteq File
  /\ {busy, mixed} \subseteq BOOLEAN

FreshPanel == file' = None /\ hash' = None /\ digests' = {} /\ busy' = FALSE /\ mixed' = FALSE

PanelInit == file = None /\ hash = None /\ digests = {} /\ busy = FALSE /\ mixed = FALSE

Pick(f, shown) ==
  /\ file' = f /\ hash' = shown
  /\ digests' = digests \cup {f}
  /\ mixed' = (digests \ {f} # {})
  /\ UNCHANGED busy

\* Mutant: the hash of the file before stays
handleFile_KeepsHash(f) == Pick(f, hash)

\* picked, or dropped, which a running upload does not prevent
handleFile(f) == Pick(f, None)

\* sha256Hex: an answer for a file that is no longer the one shown is shown too
Digested(f) ==
  /\ f \in digests /\ digests' = digests \ {f}
  /\ hash' = f
  /\ UNCHANGED << file, busy, mixed >>

\* crypto.subtle is not there: no hash is shown
DigestFails(f) ==
  /\ f \in digests /\ digests' = digests \ {f}
  /\ UNCHANGED << file, hash, busy, mixed >>

StartUpload == file # None /\ ~busy /\ busy' = TRUE /\ UNCHANGED << file, hash, digests, mixed >>

\* finally { setBusy(false) }
EndUpload == busy' = FALSE /\ UNCHANGED << file, hash, digests, mixed >>
===============================================================================
