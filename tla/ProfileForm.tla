---------------------------- MODULE ProfileForm -----------------------------
(***************************************************************************)
(* UpdateProfileForm: an image is uploaded to S3 and then, whatever came   *)
(* of that, the attributes are written to Cognito.  The button is disabled *)
(* while the form is wrong, and not while an update is under way.          *)
(*                                                                         *)
(* Website and biography are one text here: both are optional, and each    *)
(* makes the form wrong in one way.                                        *)
(***************************************************************************)
EXTENDS Browser

CONSTANTS
    Files,       \* the names of image files; images/<name> is the key in S3
    PlainFiles,  \* those without a '#' or a '?'
    CutUrl,      \* a URL that goes on as a fragment or a query inside the name
    NoFile       \* no image chosen, no picture stored

ASSUME FilesAssumption == PlainFiles \subseteq Files /\ {CutUrl, NoFile} \cap Files = {}

VARIABLES
    profile,     \* profileForm, what is typed
    image,       \* imageForm, the image chosen
    reading,     \* the chosen files being compressed and read
    update,      \* press of the button -> how far handleSubmitForm is
    bucket,      \* the images in S3
    attributes   \* what Cognito has of the user

profileVars == <<profile, image, reading, update, bucket, attributes>>

Updates == 1..MaxPending

Profiles == {"blank", "good", "wrong"}

Waiting == [at |-> "idle", text |-> "blank", picture |-> NoFile]

ProfileInit ==
    /\ attributes \in [text: {"blank", "good"}, picture: {NoFile}]
    /\ profile = attributes.text
    /\ image = NoFile
    /\ reading = {}
    /\ update = [p \in Updates |-> Waiting]
    /\ bucket = {}

-----------------------------------------------------------------------------
(* The form.                                                               *)

\* isValidForm: no website or a URL, and a biography that is not too long.
IsValidForm(text) == text # "wrong"

HandleChangeForm ==
    /\ profile' \in Profiles \ {profile}
    /\ UNCHANGED <<image, reading, update, bucket, attributes>>

\* A file is chosen, perhaps while another one is still being read.
HandleSetImage(f) ==
    /\ f \notin reading
    /\ reading' = reading \cup {f}
    /\ UNCHANGED <<profile, image, update, bucket, attributes>>

\* Its load event sets the image; or it cannot be read, and the image stays.
ImageRead(f) ==
    /\ f \in reading
    /\ reading' = reading \ {f}
    /\ image' \in {f, image}
    /\ UNCHANGED <<profile, update, bucket, attributes>>

-----------------------------------------------------------------------------
(* handleSubmitForm.                                                       *)

\* The closure keeps the form and the image.
HandleSubmitForm(p) ==
    /\ update[p].at = "idle"
    /\ IsValidForm(profile)
    /\ update' = [update EXCEPT ![p] =
            [at |-> IF image = NoFile THEN "update" ELSE "upload",
             text |-> profile, picture |-> image]]
    /\ UNCHANGED <<profile, image, reading, bucket, attributes>>

\* encodeURI escapes neither '#' nor '?': the URL of such a name is not that of
\* the image's key.
EncodeURI(f) == IF f \in PlainFiles THEN f ELSE CutUrl

\* The picture becomes an attribute only if the upload is answered well.
Uploaded(p, picture) ==
    update' = [update EXCEPT ![p].at = "update", ![p].picture = picture]

\* Mutant of UploadImage: the picture is set outside the try.
UploadImageAnyhow(p) ==
    /\ update[p].at = "upload"
    /\ bucket' \in {bucket, bucket \cup {update[p].picture}}
    /\ Uploaded(p, EncodeURI(update[p].picture))
    /\ UNCHANGED <<profile, image, reading, attributes>>

\* S3 stores the image, whoever else has one of that name there.  The update goes
\* on without the picture when the upload fails, or only its answer does.
UploadImage(p) ==
    /\ update[p].at = "upload"
    /\ \/ /\ bucket' = bucket \cup {update[p].picture}
          /\ Uploaded(p, EncodeURI(update[p].picture)) \/ Uploaded(p, NoFile)
       \/ UNCHANGED bucket /\ Uploaded(p, NoFile)
    /\ UNCHANGED <<profile, image, reading, attributes>>

\* Mutant of UpdateAttributes: the form is read when the upload is over.
UpdateAttributesAsTyped(p) ==
    /\ update[p].at = "update"
    /\ update' = [update EXCEPT ![p] = Waiting]
    /\ attributes' = [attributes EXCEPT !.text = profile]
    /\ UNCHANGED <<profile, image, reading, bucket>>

\* Cognito writes the attributes it is given: the picture stays when there is no
\* new one.  Or it refuses.  The form stays open after either toast.
UpdateAttributes(p) ==
    /\ update[p].at = "update"
    /\ update' = [update EXCEPT ![p] = Waiting]
    /\ \/ attributes' =
            [text |-> update[p].text,
             picture |-> IF update[p].picture = NoFile
                         THEN attributes.picture ELSE update[p].picture]
       \/ UNCHANGED attributes
    /\ UNCHANGED <<profile, image, reading, bucket>>

ProfileNext ==
    \/ HandleChangeForm
    \/ \E f \in Files : HandleSetImage(f) \/ ImageRead(f)
    \/ \E p \in Updates : HandleSubmitForm(p) \/ UploadImage(p) \/ UpdateAttributes(p)

-----------------------------------------------------------------------------
\* An update on its way has a picture while it is being uploaded.
ProfileTypeOK ==
    /\ profile \in Profiles
    /\ image \in Files \cup {NoFile}
    /\ reading \subseteq Files
    /\ bucket \subseteq Files
    /\ attributes \in [text: Profiles, picture: Files \cup {CutUrl, NoFile}]
    /\ update \in [Updates -> [at: {"idle", "upload", "update"},
                               text: Profiles, picture: Files \cup {CutUrl, NoFile}]]
    /\ \A p \in Updates : update[p].at = "upload" => update[p].picture \in Files

\* The picture of a profile is there to be shown, if its name is one that
\* encodeURI keeps whole: no update names an image whose upload failed, its own
\* or that of another update.
PictureExists == attributes.picture \in Files => attributes.picture \in bucket

\* What the form calls wrong is never stored, also when it was typed while an
\* update that began with a right form was under way.
StoredProfilesAreValid == IsValidForm(attributes.text)
=============================================================================
