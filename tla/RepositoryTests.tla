--------------------------- MODULE RepositoryTests ---------------------------
(***************************************************************************)
(* The two connection tests of a repository (repository/service.go): of the    *)
(* credentials in a request, before they are saved, and of a saved              *)
(* configuration, by the client of clients/github.go.  Both, and what the        *)
(* credential manager accepts, are decisions over one form; the remote answer     *)
(* is the same for both.                                                     *)
(***************************************************************************)
EXTENDS Naturals, FiniteSets

CONSTANT None

Host == {"github", "gitlab", "other", "unparsed"}
Token == {"none", "classic", "fine", "malformed"}   \* ghp_..., github_pat_..., anything else
Reply == {"push", "read", "denied", "down"}

(* given: the part of the body for this kind of credentials is there.  fits: the URL suits *)
(* the kind.  pem: the keys and certificates have the PEM form.                        *)
SshForm == [auth : {"ssh"}, fits : BOOLEAN, given : BOOLEAN, pem : BOOLEAN]
HttpsForm == [auth : {"https"}, fits : BOOLEAN, given : BOOLEAN, pem : BOOLEAN, host : Host,
              user : BOOLEAN, bearer : Token, password : Token, cert : BOOLEAN]
AppForm == [auth : {"github-app"}, fits : BOOLEAN, given : BOOLEAN, pem : BOOLEAN,
            ids : BOOLEAN, kind : {"github", "enterprise", "unknown"}, enterprise : BOOLEAN]

VARIABLES form, reply,        \* what is asked, and what the remote host will answer
          tested,             \* None, or the verdict on the unsaved credentials
          saved,              \* None, or whether they were accepted
          retested            \* None, or the verdict on the saved configuration

vars == <<form, reply, tested, saved, retested>>

Init ==
  /\ form \in SshForm \cup HttpsForm \cup AppForm /\ reply \in Reply
  /\ tested = None /\ saved = None /\ retested = None

HasHttpsAuth(f) == f.user \/ f.bearer # "none" \/ f.cert
HasAppAuth(f) == f.ids /\ f.pem /\ (f.kind = "enterprise" => f.enterprise)

-----------------------------------------------------------------------------
TestSSH(f) == f.given /\ f.pem

(* testGitHubAPIConnection: the token has one of the prefixes, and the repository can be *)
(* read.                                                                          *)
GitHubAnswers(t) == t \in {"classic", "fine"} /\ reply \in {"push", "read"}
GitLabAnswers == reply \in {"push", "read"}

\* Mutant: the password alone counts as a way to authenticate.
TestHTTPSWithPassword(f) ==
  LET t == IF f.bearer # "none" THEN f.bearer ELSE f.password
  IN /\ f.given /\ (HasHttpsAuth(f) \/ f.password # "none") /\ (f.cert => f.pem)
     /\ \/ f.host = "unparsed" \/ t = "none"
        \/ f.host = "gitlab" /\ GitLabAnswers
        \/ f.host \in {"github", "other"} /\ GitHubAnswers(t)

(* The password stands in for a token; without either, and for a URL that is not        *)
(* understood, the form alone is judged.                                           *)
TestHTTPS(f) ==
  LET t == IF f.bearer # "none" THEN f.bearer ELSE f.password
  IN /\ f.given /\ HasHttpsAuth(f) /\ (f.cert => f.pem)
     /\ \/ f.host = "unparsed" \/ t = "none"
        \/ f.host = "gitlab" /\ GitLabAnswers
        \/ f.host \in {"github", "other"} /\ GitHubAnswers(t)

TestGitHubApp(f) == f.given /\ HasAppAuth(f) /\ f.kind # "unknown"

TestConnectionWithCredentials ==
  /\ tested = None
  /\ tested' = (form.fits /\ CASE form.auth = "ssh" -> TestSSH(form)
                                [] form.auth = "https" -> TestHTTPS(form)
                                [] form.auth = "github-app" -> TestGitHubApp(form))
  /\ UNCHANGED <<form, reply, saved, retested>>

(* buildRepositorySecretData, after ValidateRepoURLForAuthType.                        *)
Accepts(f) ==
  /\ f.fits /\ f.given
  /\ CASE f.auth = "ssh" -> f.pem
       [] f.auth = "https" -> HasHttpsAuth(f) /\ (f.cert => f.pem)
       [] f.auth = "github-app" -> HasAppAuth(f)

CreateRepositoryConfig ==
  /\ saved = None /\ saved' = Accepts(form)
  /\ UNCHANGED <<form, reply, tested, retested>>

\* Mutant: the saved configuration is tested with the password, and without asking for push.
UsesSavedPassword(f) ==
  /\ f.auth = "https" /\ f.host # "unparsed"
  /\ "classic" \in {f.bearer, f.password} /\ reply \in {"push", "read"}

(* GetCredentials takes the bearer token only, in the classic forms, and TestConnection   *)
(* of the client wants the right to push.                                           *)
UsesSavedToken(f) ==
  f.auth = "https" /\ f.host # "unparsed" /\ f.bearer = "classic" /\ reply = "push"

TestRepositoryConnection ==
  /\ saved = TRUE /\ retested = None /\ retested' = UsesSavedToken(form)
  /\ UNCHANGED <<form, reply, tested, saved>>

Next == TestConnectionWithCredentials \/ CreateRepositoryConfig \/ TestRepositoryConnection

Spec == Init /\ [][Next]_vars

-----------------------------------------------------------------------------
TypeOK ==
  /\ form \in SshForm \cup HttpsForm \cup AppForm /\ reply \in Reply
  /\ {tested, saved, retested} \subseteq BOOLEAN \cup {None}

(* Credentials that were tested as valid can be saved (TestConnectionWithCredentials,    *)
(* buildRepositorySecretData).                                                     *)
TestedIsAccepted == tested = TRUE => saved # FALSE

(* A saved configuration that passes its test was no failure when its credentials were   *)
(* tested, and the deployments may push with it (TestRepositoryConnection).            *)
RetestIsStricter == retested = TRUE => tested # FALSE /\ reply = "push"
=============================================================================
