------------------------------- MODULE Launching -------------------------------
(***************************************************************************)
(* From the document a user submits for a source to the process group that *)
(* is launched for it: the validation of configuration.py, what api.py and *)
(* a guided authorization store, and how activate() of provider.py and     *)
(* build_launch_plan() of options.py turn it into options and a token.     *)
(*                                                                         *)
(* These steps lie far apart in time, and each one decides anew what a     *)
(* valid configuration is.  How requests and calls overlap is the subject  *)
(* of Sources, OAuth and Supervisor; here each of them is one step.        *)
(***************************************************************************)
EXTENDS Integers

CONSTANTS
  Switches,        \* the settings of a document that are on or off, or given or
                   \* not; settings that are not listed are off
  OptionalFields,  \* fields that a document may leave out
  Directories,     \* local file directories
  MediaRoots       \* those below OPEN_CINEMA_MEDIA_ROOTS

\* Settings that are passed as an option if they are on, or if they are off.
Enabling ==
  [group |-> "group", normalisation |-> "enable-volume-normalisation",
   includeSinkEvents |-> "emit-sink-events"]
Disabling ==
  [discovery |-> "disable-discovery", gapless |-> "disable-gapless",
   audioEnabled |-> "disable-audio-cache", credentialsEnabled |-> "disable-credential-cache"]

ASSUME LaunchingAssumption ==
  /\ {"discovery", "credentialsEnabled"} \subseteq Switches
  /\ Switches \subseteq DOMAIN Enabling \cup DOMAIN Disabling \cup {"username"}
  /\ OptionalFields \subseteq {"group", "proxy", "apPort"}
  /\ MediaRoots \subseteq Directories

Modes == {"discovery", "access-token", "oauth-cache"}

\* fields: whether each field, looked at alone, has a value it may have.
Document == [mode : Modes, on : SUBSET Switches, omitted : SUBSET OptionalFields,
             directories : SUBSET Directories, fields : {"good", "bad"}]

VARIABLES
  stored,    \* the stored configuration, NoDocument before the source exists
  access,    \* an access token is stored
  refresh,   \* a refresh token is stored
  readable,  \* the media directories that can be read
  running,   \* the launch plan of the group that runs, or NoPlan
  outcome    \* of the last activation of this configuration
vars == <<stored, access, refresh, readable, running, outcome>>

NoDocument == [mode |-> "none", on |-> {}, omitted |-> {}, directories |-> {}, fields |-> "good"]
\* bare: history, no token was stored for the source when the plan was built.
NoPlan == [mode |-> "none", options |-> {}, token |-> FALSE, bare |-> FALSE]

Init ==
  /\ stored = NoDocument
  /\ access = FALSE
  /\ refresh = FALSE
  /\ readable = MediaRoots
  /\ running = NoPlan
  /\ outcome = "none"

-----------------------------------------------------------------------------
(* validate_instance_configuration(), which knows the roots it is given.   *)

ModeFits(doc) ==
  /\ doc.mode = "discovery" => "discovery" \in doc.on
  /\ doc.mode = "oauth-cache" => "credentialsEnabled" \in doc.on

Valid(doc, roots) ==
  /\ doc.fields = "good"
  /\ ModeFits(doc)
  /\ doc.directories \subseteq roots \cap readable

-----------------------------------------------------------------------------
(* What is stored for the source.                                          *)

\* create() and PUT: the token is required only when the source is created.
Submit(doc, token) ==
  /\ Valid(doc, MediaRoots)
  /\ stored = NoDocument /\ doc.mode = "access-token" => token
  /\ stored' = doc
  /\ access' = (access \/ (token /\ (stored = NoDocument => doc.mode = "access-token")))
  /\ outcome' = "none"
  /\ UNCHANGED <<refresh, readable, running>>

\* PUT stores the token first, and the configuration only if its version is current.
SubmitRefused ==
  /\ stored # NoDocument
  /\ access' = TRUE
  /\ UNCHANGED <<stored, refresh, readable, running, outcome>>

RemoveToken ==
  /\ stored # NoDocument
  /\ stored.mode # "access-token"
  /\ access' = FALSE
  /\ UNCHANGED <<stored, refresh, readable, running, outcome>>

\* Mutation: the credential cache is left as it is.
AuthorizeModeOnly ==
  /\ stored # NoDocument
  /\ stored' = [stored EXCEPT !.mode = "oauth-cache"]
  /\ access' = TRUE
  /\ refresh' \in {refresh, TRUE}
  /\ outcome' = "none"
  /\ UNCHANGED <<readable, running>>

\* exchange() stores what Spotify granted, then rewrites the stored configuration,
\* which nobody validates again.  It may fail in between.
Authorize ==
  /\ stored # NoDocument
  /\ access' = TRUE
  /\ refresh' \in {refresh, TRUE}
  /\ \/ UNCHANGED <<stored, outcome>>
     \/ /\ stored' = [stored EXCEPT !.mode = "oauth-cache", !.on = @ \cup {"credentialsEnabled"}]
        /\ outcome' = "none"
  /\ UNCHANGED <<readable, running>>

\* A directory becomes readable or stops being so.
Remount ==
  /\ readable' \in SUBSET MediaRoots
  /\ outcome' = "none"
  /\ UNCHANGED <<stored, access, refresh, running>>

-----------------------------------------------------------------------------
(* build_launch_plan().                                                    *)

Options(doc) ==
  {Enabling[s] : s \in DOMAIN Enabling \cap doc.on}
    \cup {Disabling[s] : s \in DOMAIN Disabling \ doc.on}
    \cup {o \in {"username"} : o \in doc.on /\ doc.mode # "discovery"}
    \cup {o \in {"local-file-dir"} : doc.directories # {}}

\* activate() passes no media roots, and a field that was left out is not there.
CanPlan(doc) == Valid(doc, {}) /\ doc.omitted = {}

-----------------------------------------------------------------------------
(* activate(), reconfigure() and deactivate().                             *)

\* The token that activate() resolves.
Token(present) == stored.mode # "discovery" /\ present

\* Mutation: the presence of the token is not checked.
TokenNeverMissing == FALSE

TokenMissing == stored.mode = "access-token" /\ ~access

\* refresh_oauth_access_token() stores the new access token first.
CanRefresh == stored.mode = "oauth-cache" /\ refresh

\* prepare() or the refresh of the token failed, or there is no token.
Unavailable(kept) ==
  /\ outcome' = "unavailable"
  /\ running' = kept
  /\ access' \in {access, access \/ CanRefresh}

\* The plan is built, and the supervisor starts it in place of what ran.
Plan(kept) ==
  /\ ~TokenMissing
  /\ access' = (access \/ CanRefresh)
  /\ \/ /\ CanPlan(stored)
        /\ outcome' = "launched"
        /\ running' = [mode |-> stored.mode, options |-> Options(stored),
                       token |-> Token(access'), bare |-> ~access /\ ~refresh]
     \/ /\ CanPlan(stored)
        /\ outcome' = "failed"
        /\ running' = NoPlan
     \/ /\ ~CanPlan(stored)
        /\ outcome' = "raised"
        /\ running' = kept

\* A start leaves what runs alone until the new group replaces it; a reconfiguration
\* or a restart stops it first.
Activate ==
  /\ stored # NoDocument
  /\ \E kept \in {running, NoPlan} : Unavailable(kept) \/ Plan(kept)
  /\ UNCHANGED <<stored, refresh, readable>>

\* The group is stopped, or crashed and was given up.
Deactivate ==
  /\ running' = NoPlan
  /\ UNCHANGED <<stored, access, refresh, readable, outcome>>

Next ==
  \/ \E doc \in Document, token \in BOOLEAN : Submit(doc, token)
  \/ SubmitRefused \/ RemoveToken \/ Authorize \/ Remount
  \/ Activate \/ Deactivate

Spec == Init /\ [][Next]_vars

-----------------------------------------------------------------------------
\* Each variable has its type.
TypeOK ==
  /\ stored # NoDocument => stored \in Document
  /\ {access, refresh} \subseteq BOOLEAN
  /\ readable \subseteq MediaRoots
  /\ running # NoPlan => running.mode \in Modes
  /\ outcome \in {"none", "unavailable", "failed", "raised", "launched"}

\* A configuration without local directories that leaves out no field is never
\* refused when it is launched, whatever order of edits and authorizations led to
\* it: the two validations agree, and exchange() rewrites it to one they accept.
PlainCanLaunch ==
  outcome = "raised" => stored.directories # {} \/ stored.omitted # {}

\* A receiver that runs is announced on the network or was given a token, whatever order
\* of edits, removals and authorizations came before.  The one exception is a source of
\* mode oauth-cache for which no token at all was stored: it was never authorized, or its
\* tokens are gone.  The code launches it hidden and without a token, so that only
\* credentials of an earlier session can help, which it is always allowed to keep.
OnlyBareIsUnreachable ==
  running # NoPlan =>
    \/ "disable-discovery" \notin running.options
    \/ running.token
    \/ /\ running.mode = "oauth-cache" /\ running.bare
       /\ "disable-credential-cache" \notin running.options

\* A configuration that the user may store can be launched.
AcceptedCanLaunch == outcome = "raised" => ~Valid(stored, MediaRoots)
===============================================================================
