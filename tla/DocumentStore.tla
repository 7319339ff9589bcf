---------------------------- MODULE DocumentStore ----------------------------
(***************************************************************************)
(* The KYC documents on disk: an upload receives its files, looks at what  *)
(* they are and encrypts them in place (backend/src/api/routes/            *)
(* sep12.route.ts, services/upload-store.service.ts), and the key rotation *)
(* (services/key-rotation.service.ts, a process of its own) encrypts every *)
(* file of the directory again.  Data keys are wrapped by Vault, or by the *)
(* local key while Vault does not answer (lib/key-management.service.ts).  *)
(***************************************************************************)
EXTENDS Backend

CONSTANTS
    MaxDocuments,   \* the files of an upload
    MaxRotations    \* bound on the rotations

Documents == Requests \X (1 .. MaxDocuments)

\* What wraps a document's data key: a version of Vault's key, the local key, or
\* nothing as the document is not encrypted.
Local == -1
Plain == -2
Versions == 0 .. MaxRotations
Absent == [form |-> Plain, text |-> "none"]

\* A file has its whole text, or the part of it that was there when it was read.
File == [form : Versions \cup {Local, Plain}, text : {"part", "whole"}] \cup {Absent}
Encrypted(file) == file.form # Plain

\* What writeFileAtomic writes beside the document, in full or cut off so far.
NoTemp == [file |-> Absent, full |-> FALSE]
Temp == [file : File, full : BOOLEAN]

Entries == [kind : {"document", "temp"}, of : Documents] \cup [kind : {"left"}, full : BOOLEAN]

\* db: the version of Vault's key; files: the directory, with temps the temporary files
\* of uploads, also of those that are over, and left those that rotations have left there.
\* outside: how each upload ended.  history: the documents that were read while still
\* being written, those that the last pass had to encrypt, and those that could not be
\* removed.
TypeOK ==
    /\ db.key \in Versions
    /\ db.files \in [Documents -> File] /\ db.temps \in [Documents -> Temp]
    /\ db.left \subseteq BOOLEAN
    /\ \A r \in Requests : calls[r] \in
          [at : {"none", "receive", "validate", "read", "wrap", "write", "over"},
           of : 1 .. MaxDocuments, text : {"none", "part", "whole"}]
    /\ calls["rotation"].at \in {"idle", "rotated", "next", "decrypt", "wrap", "write", "done"}
    /\ calls["rotation"].todo \subseteq Entries
    /\ outside \in [Requests -> {"none", "accepted", "rejected", "failed", "dead"}]
    /\ history.torn \subseteq Documents /\ history.due \subseteq Documents
    /\ history.kept \subseteq Documents
    /\ failures \in 0 .. MaxFailures

Rotation == calls["rotation"]
IdleRotation == [at |-> "idle", todo |-> {}, now |-> [kind |-> "left", full |-> TRUE],
                 file |-> Absent, temp |-> NoTemp, key |-> 0]

Init ==
    /\ Running("documents")
    /\ db = [key |-> 0, files |-> [d \in Documents |-> Absent],
             temps |-> [d \in Documents |-> NoTemp], left |-> {}]
    /\ calls = [c \in Requests \cup {"rotation"} |->
                   IF c \in Requests THEN [at |-> "none", of |-> 1, text |-> "none"]
                   ELSE IdleRotation]
    /\ outside = [r \in Requests |-> "none"]
    /\ history = [torn |-> {}, due |-> {}, kept |-> {}]

At(r, at) == calls[r].at = at
Current(r) == <<r, calls[r].of>>
IsLast(r) == calls[r].of = MaxDocuments
Path(r) == db.files[Current(r)]

\* On to the request's next document, or, after the last, to what comes then.
NextDocument(r, at, then) ==
    Goes(r, [calls[r] EXCEPT !.at = IF IsLast(r) THEN then ELSE at,
                             !.of = IF IsLast(r) THEN 1 ELSE @ + 1])

Ends(r, how) ==
    /\ Goes(r, [calls[r] EXCEPT !.at = "over"])
    /\ outside' = [outside EXCEPT ![r] = how]

(* Encryption, for uploads and rotations alike *)

\* What encryptKey answers: Vault wraps with its newest version; while it does not
\* answer, the local key does.
WrappedBy(vault) == IF vault THEN db.key ELSE Local

\* writeFileAtomic, before the writing: the temporary file has begun.
WriteFile(d, file) ==
    db' = [db EXCEPT !.temps[d] = [file |-> file, full |-> FALSE]]

------------------------------------------------------------------------------
(* Uploads *)

\* Multer has begun to write the document to its path.
Receive(r) ==
    /\ Step("documents")
    /\ At(r, "none")
    /\ Goes(r, [calls[r] EXCEPT !.at = "receive"])
    /\ db' = [db EXCEPT !.files[Current(r)] = [form |-> Plain, text |-> "part"]]
    /\ UNCHANGED <<outside, history>>

\* The rest goes to the file that Multer opened, which may no longer be the one there.
Received(r) ==
    /\ Step("documents")
    /\ At(r, "receive")
    /\ NextDocument(r, "none", "validate")
    /\ db' = [db EXCEPT !.files[Current(r)].text = IF Encrypted(Path(r)) THEN @ ELSE "whole"]
    /\ UNCHANGED <<outside, history>>

\* The documents that Multer is writing.
Receiving == {Current(r) : r \in {q \in Requests : At(q, "receive")}}

Uploaded(r) == {d \in Documents : d[1] = r}

\* Every file of the upload is removed but for those that cannot be, of which nobody hears.
Unlinked(r, kept) ==
    /\ db' = [db EXCEPT !.files = [d \in Documents |->
                  IF d \in Uploaded(r) \ kept THEN Absent ELSE db.files[d]]]
    /\ history' = [history EXCEPT !.kept = @ \cup kept]

\* Files that are not what they should be, and those that have been encrypted
\* meanwhile, whose first bytes say nothing.
Validate(r, supported, kept) ==
    /\ Step("documents")
    /\ At(r, "validate")
    /\ IF supported /\ ~Encrypted(Path(r))
       THEN NextDocument(r, "validate", "read") /\ UNCHANGED <<db, outside, history>>
       ELSE Ends(r, "rejected") /\ Unlinked(r, kept)

\* encryptStoredDocument: a file that is encrypted already is left alone.
Read(r) ==
    /\ Step("documents")
    /\ At(r, "read")
    /\ IF Encrypted(Path(r))
       THEN IF IsLast(r) THEN Ends(r, "accepted")
            ELSE NextDocument(r, "read", "over") /\ UNCHANGED outside
       ELSE /\ Goes(r, [calls[r] EXCEPT !.at = "wrap", !.text = Path(r).text])
            /\ UNCHANGED outside
    /\ UNCHANGED <<db, history>>

Wrap(r, vault) ==
    /\ IF vault THEN Step("documents") ELSE Fail("documents")
    /\ At(r, "wrap")
    /\ Goes(r, [calls[r] EXCEPT !.at = "write"])
    /\ WriteFile(Current(r), [form |-> WrappedBy(vault), text |-> calls[r].text])
    /\ UNCHANGED <<outside, history>>

Written(r) ==
    /\ Step("documents")
    /\ At(r, "write")
    /\ ~db.temps[Current(r)].full
    /\ db' = [db EXCEPT !.temps[Current(r)].full = TRUE]
    /\ UNCHANGED <<calls, outside, history>>

\* The rename, by which the upload's last document is in place.
Rename(r) ==
    /\ Step("documents")
    /\ At(r, "write")
    /\ db.temps[Current(r)].full
    /\ db' = [db EXCEPT !.files[Current(r)] = db.temps[Current(r)].file,
                        !.temps[Current(r)] = NoTemp]
    /\ IF IsLast(r) THEN Ends(r, "accepted")
       ELSE NextDocument(r, "read", "over") /\ UNCHANGED outside
    /\ UNCHANGED history

\* Vault refuses, or neither key is there, or the disk fails.  The documents are removed,
\* the temporary file is not.
EncryptionFails(r, kept) ==
    /\ Fail("documents")
    /\ At(r, "wrap") \/ At(r, "write")
    /\ Ends(r, "failed")
    /\ Unlinked(r, kept)

\* The client breaks the upload off: Multer removes what it has written.
UploadAborts(r, kept) ==
    /\ Step("documents")
    /\ At(r, "receive")
    /\ Ends(r, "rejected")
    /\ Unlinked(r, kept)

ApiDies(r) ==
    /\ Fail("documents")
    /\ calls[r].at \notin {"none", "over"}
    /\ Ends(r, "dead")
    /\ UNCHANGED <<db, history>>

------------------------------------------------------------------------------
(* Key rotation *)

Turns(v) == calls' = [calls EXCEPT !["rotation"] = v]

\* rotateKeys, up to the call of Vault that makes a new version.
RotateEncryptionKey ==
    /\ Step("documents")
    /\ Rotation.at \in {"idle", "done"}
    /\ db.key < MaxRotations
    /\ db' = [db EXCEPT !.key = @ + 1]
    /\ Turns([IdleRotation EXCEPT !.at = "rotated", !.key = db.key + 1])
    /\ UNCHANGED <<outside, history>>

Stored == {d \in Documents : db.files[d] # Absent}
ListDocumentFiles ==
    [kind : {"document"}, of : Stored]
        \cup [kind : {"temp"}, of : {d \in Documents : db.temps[d] # NoTemp}]
        \cup [kind : {"left"}, full : db.left]

\* reencryptStoredDocuments lists the directory.
Reencrypt ==
    /\ Step("documents")
    /\ Rotation.at = "rotated"
    /\ Turns([Rotation EXCEPT !.at = "next", !.todo = ListDocumentFiles])
    /\ history' = [history EXCEPT !.due = {d \in Stored : outside[d[1]] # "none"}]
    /\ UNCHANGED <<db, outside>>

\* What is at an entry of the list by now.
Found(e) ==
    CASE e.kind = "document" -> [file |-> db.files[e.of], full |-> TRUE]
      [] e.kind = "temp" -> db.temps[e.of]
      [] OTHER -> [file |-> [form |-> db.key, text |-> "part"], full |-> e.full]

\* readStoredDocument: a file that is cut off before its header counts as plain.
ReadStored(e) ==
    /\ Step("documents")
    /\ Rotation.at = "next" /\ e \in Rotation.todo
    /\ Found(e).file # Absent
    /\ LET file == IF Found(e).full THEN Found(e).file ELSE [form |-> Plain, text |-> "part"]
           unfinished == \/ e.kind = "document" /\ e.of \in Receiving
                         \/ e.kind = "temp" /\ ~Found(e).full
       IN
       /\ Turns([Rotation EXCEPT
                    !.at = IF Encrypted(file) /\ file.form # Local THEN "decrypt" ELSE "wrap",
                    !.now = e, !.todo = @ \ {e}, !.file = file])
       /\ history' = IF unfinished THEN [history EXCEPT !.torn = @ \cup {e.of}] ELSE history
    /\ UNCHANGED <<db, outside>>

\* Every version of Vault's key decrypts what it wrapped.
Decrypt ==
    /\ Step("documents")
    /\ Rotation.at = "decrypt"
    /\ Turns([Rotation EXCEPT !.at = "wrap"])
    /\ UNCHANGED <<db, outside, history>>

WrapAgain(vault) ==
    /\ IF vault THEN Step("documents") ELSE Fail("documents")
    /\ Rotation.at = "wrap"
    /\ Turns([Rotation EXCEPT !.at = "write", !.temp =
                 [file |-> [form |-> WrappedBy(vault), text |-> Rotation.file.text],
                  full |-> FALSE]])
    /\ UNCHANGED <<db, outside, history>>

WrittenAgain ==
    /\ Step("documents")
    /\ Rotation.at = "write" /\ ~Rotation.temp.full
    /\ Turns([Rotation EXCEPT !.temp.full = TRUE])
    /\ UNCHANGED <<db, outside, history>>

\* Over a document, whether or not it is still there; over the temporary file of an
\* upload, or beside it if that has been renamed; or over what was left.
RenameAgain ==
    LET e == Rotation.now IN
    /\ Step("documents")
    /\ Rotation.at = "write" /\ Rotation.temp.full
    /\ \/ /\ e.kind = "document"
          /\ db' = [db EXCEPT !.files[e.of] = Rotation.temp.file]
       \/ /\ e.kind = "temp"
          /\ db' = IF db.temps[e.of] = NoTemp THEN [db EXCEPT !.left = @ \cup {TRUE}]
                   ELSE [db EXCEPT !.temps[e.of] = Rotation.temp]
       \/ /\ e.kind = "left"
          /\ db' = [db EXCEPT !.left = @ \cup {TRUE}]
    /\ Turns([Rotation EXCEPT !.at = "next", !.temp = NoTemp])
    /\ UNCHANGED <<outside, history>>

Finish ==
    /\ Step("documents")
    /\ Rotation.at = "next" /\ Rotation.todo = {}
    /\ Turns([Rotation EXCEPT !.at = "done"])
    /\ UNCHANGED <<db, outside, history>>

Stops == Turns(IdleRotation)
LeftBehind == IF Rotation.temp = NoTemp THEN db.left ELSE db.left \cup {Rotation.temp.full}

\* A file that is gone, or cut off so that it cannot be decrypted, ends the pass.
Unreadable(e) ==
    /\ Step("documents")
    /\ Rotation.at = "next" /\ e \in Rotation.todo
    /\ Found(e).file = Absent \/ ~Found(e).full
    /\ Stops
    /\ UNCHANGED <<db, outside, history>>

\* And so does a call of Vault, Redis or the disk that fails, and a crash.
RotationFails ==
    /\ Fail("documents")
    /\ Rotation.at \notin {"idle", "done"}
    /\ Stops
    /\ db' = [db EXCEPT !.left = LeftBehind]
    /\ UNCHANGED <<outside, history>>

Next ==
    \/ \E r \in Requests :
          \/ Receive(r) \/ Received(r) \/ Read(r) \/ Written(r) \/ Rename(r)
          \/ ApiDies(r) \/ \E vault \in BOOLEAN : Wrap(r, vault)
          \/ \E kept \in SUBSET Uploaded(r) :
                EncryptionFails(r, kept) \/ UploadAborts(r, kept)
          \/ \E supported \in BOOLEAN, kept \in SUBSET Uploaded(r) :
                Validate(r, supported, kept)
    \/ RotateEncryptionKey \/ Reencrypt \/ Decrypt \/ WrittenAgain \/ RenameAgain
    \/ Finish \/ RotationFails
    \/ \E e \in Entries : ReadStored(e) \/ Unreadable(e)
    \/ \E vault \in BOOLEAN : WrapAgain(vault)

Spec == Init /\ [][Next]_vars

------------------------------------------------------------------------------
(* Properties *)

\* A document that was accepted is there, encrypted and whole, whatever rotations and
\* crashes came between, unless a rotation read it while it was still being written.
AcceptedIsWhole ==
    \A d \in Documents :
        outside[d[1]] = "accepted" /\ d \notin history.torn =>
            Encrypted(db.files[d]) /\ db.files[d].text = "whole"

\* "so nothing unencrypted is retained" (sep12.route.ts:124), which is so although a
\* document can fail to be encrypted when others of its upload are not yet, and rotations
\* write beside it, but for what could not be removed (:102, :138): a plain document is
\* one of an upload in flight or of one whose process has died, or its removal failed.
NothingPlainStays ==
    \A d \in Documents \ history.kept :
        outside[d[1]] \in {"accepted", "rejected", "failed"} =>
            db.files[d] = Absent \/ Encrypted(db.files[d])

\* A rotation that has come to its end has encrypted all that was stored when it began,
\* what a dead upload had left in plain text included, under the new key, or the local
\* one where Vault did not answer.
PassIsComplete ==
    Rotation.at = "done" =>
        \A d \in history.due : db.files[d].form \in Rotation.key .. db.key \cup {Local}

------------------------------------------------------------------------------
(* What a comment says and the code does not do *)

\* "Plain-text files are removed if encryption fails so nothing unencrypted is retained"
\* (sep12.route.ts:123): a removal that fails is swallowed.
NothingUnencryptedIsRetained ==
    \A d \in Documents :
        outside[d[1]] = "failed" => db.files[d] = Absent \/ Encrypted(db.files[d])
==============================================================================
