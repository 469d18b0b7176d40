------------------------------- MODULE Session -------------------------------
(***************************************************************************)
(* The credentials of one organization (NIP): its keychain entry, written  *)
(* by KeychainStore (src/src/auth/keychainStore.ts), the session it opens  *)
(* with KSeF in AuthService (auth/authService.ts), and the commands that   *)
(* set, show and remove it and list the NIP in config.yaml                 *)
(* (cli/keychain.ts, cli/bootstrap.ts).                                    *)
(*                                                                         *)
(* The service and the commands are processes of their own.  The keychain  *)
(* knows no lock: every call of it is one step, and what a process has     *)
(* read may be out of date when it writes it back (`stale`).               *)
(*                                                                         *)
(* Of a token only that is kept which decides what is done with it: KSeF   *)
(* accepts it ("good"), rejects it although it looks valid ("dead"), or it *)
(* looks expired ("expired", isExpired).  Tokens of a kind live equally    *)
(* long, so those that are about expire together.                          *)
(***************************************************************************)
EXTENDS Sequences, Integers

CONSTANTS
  None,
  Service,     \* the watch service
  Console,     \* bound on the commands in progress next to it
  Client,      \* of these and the service, those that open sessions
  Secret,      \* KSeF tokens the user may have
  Account,     \* accounts of the keychain, one per environment name
  Canonical,   \* the account of the configured environment
  Aliases      \* getEnvAliases: the accounts that may hold an older entry

Maybe(S) == S \cup {None}

Token == {"good", "dead", "expired"}
Pair  == [access: Token, refresh: Token]
Entry == [secret: Secret, pair: Maybe(Pair)]

Proc == Console \cup {Service}

ASSUME SessionAssumption ==
  /\ Service \in Client /\ Client \subseteq Proc
  /\ Canonical \in Account /\ Aliases \in Seq(Account)
  /\ None \notin Secret \cup Account \cup Pair \cup Entry

VARIABLES
  store,       \* the keychain
  listed,      \* config.yaml lists the NIP among its organizations
  proc,        \* the local state of each command
  credential   \* history: what the user has done with the credential

vars == <<store, listed, proc, credential>>

Job == {"none", "access", "set", "show", "init"}
PC  == {"idle", "read", "alias", "copy", "drop", "refresh", "login", "write",
        "work", "list", "prompt", "config", "find", "delete"}

Command ==
  [job: Job, pc: PC,
   next: Nat,               \* the alias to read next
   secret: Maybe(Secret),   \* ksefToken: the one to set or to log in with
   entry: Maybe(Entry),     \* the entry to write
   tokens: Maybe(Pair),     \* what KSeF has answered
   refreshed: BOOLEAN,      \* the answer is that of a refresh
   seen: BOOLEAN,           \* the organizations that bootstrap works on
   found: SUBSET Account,   \* what clearAll has still to delete
   stale: BOOLEAN]          \* history: somebody has written since the read

Idle ==
  [job |-> "none", pc |-> "idle", next |-> 0, secret |-> None, entry |-> None,
   tokens |-> None, refreshed |-> FALSE, seen |-> FALSE, found |-> {},
   stale |-> FALSE]

TypeOK ==
  /\ store \in [Account -> Maybe(Entry)]
  /\ listed \in BOOLEAN
  /\ proc \in [Proc -> Command]
  /\ credential \in {"never", "held", "removed"}

(* An organization that is new, in use, or kept under an older name.       *)
Init ==
  /\ proc = [p \in Proc |-> Idle]
  /\ \E a \in Account, s \in Secret, old \in BOOLEAN :
       /\ store = [b \in Account |->
                     IF old /\ b = a THEN [secret |-> s, pair |-> None] ELSE None]
       /\ listed = old
       /\ credential = IF old THEN "held" ELSE "never"

-----------------------------------------------------------------------------
(* KSeF and the clock *)

Changed(F(_), G(_), pr) ==
  IF pr = None THEN None ELSE [access |-> F(pr.access), refresh |-> G(pr.refresh)]

(* Every copy of a token changes, also those that commands carry.          *)
Tokens(F(_), G(_)) ==
  LET InEntry(e) == IF e = None THEN None ELSE [e EXCEPT !.pair = Changed(F, G, @)]
  IN /\ store' = [a \in Account |-> InEntry(store[a])]
     /\ proc' = [p \in Proc |-> [proc[p] EXCEPT
                  !.entry = InEntry(@), !.tokens = Changed(F, G, @)]]
     /\ UNCHANGED <<listed, credential>>

Same(t)    == t
Expired(t) == "expired"
Dead(t)    == IF t = "good" THEN "dead" ELSE t

ExpireAccess  == Tokens(Expired, Same)
ExpireRefresh == Tokens(Same, Expired)

(* KSeF ends the sessions, or only takes no access token of them.          *)
Invalidate == (Tokens(Dead, Dead) \/ Tokens(Dead, Same))

-----------------------------------------------------------------------------
(* KeychainStore *)

Holding(c) == c.pc \in {"alias", "copy", "drop", "refresh", "login", "write"}

(* The next state of p, and what a change of the keychain means to others. *)
Set(p, c) == proc' = [proc EXCEPT ![p] = c]
SetAndOutdate(p, c) ==
  proc' = [q \in Proc |->
             IF q = p THEN c
             ELSE IF Holding(proc[q]) THEN [proc[q] EXCEPT !.stale = TRUE]
             ELSE proc[q]]

Begin(job) == [Idle EXCEPT !.job = job, !.pc = "read"]

Login(c) == [c EXCEPT !.pc = "login", !.tokens = None, !.refreshed = FALSE]

(* getAccessToken with the entry it has read.                              *)
Resolve(c, e) ==
  IF e = None THEN Idle
  ELSE IF e.pair # None /\ e.pair.access # "expired"
  THEN [Idle EXCEPT !.job = c.job, !.pc = "work", !.tokens = e.pair]
  ELSE IF e.pair # None /\ e.pair.refresh # "expired"
  THEN [c EXCEPT !.pc = "refresh", !.secret = e.secret, !.tokens = e.pair]
  ELSE Login([c EXCEPT !.secret = e.secret])

(* Mutant: the entry is replaced, with the secret it was read with first.  *)
MergeTokensOld(c, e) ==
  IF e # None
  THEN [c EXCEPT !.pc = "write", !.entry = [secret |-> c.secret, pair |-> c.tokens]]
  ELSE IF c.refreshed THEN Login(c) ELSE Idle

(* setTokens with the entry it has read: a refresh whose tokens cannot be  *)
(* stored counts as failed.                                                *)
MergeTokens(c, e) ==
  IF e # None
  THEN [c EXCEPT !.pc = "write", !.entry = [secret |-> e.secret, pair |-> c.tokens]]
  ELSE IF c.refreshed THEN Login(c) ELSE Idle

(* setKsefToken with the entry it has read, which keeps its tokens.        *)
MergeSecret(c, e) ==
  [c EXCEPT !.pc = "write",
            !.entry = [secret |-> c.secret, pair |-> IF e = None THEN None ELSE e.pair]]

(* What a command does with the answer of getEntry.                        *)
Resume(c, e) ==
  IF c.job = "show" THEN Idle
  ELSE IF c.job = "access"
       THEN IF c.tokens = None THEN Resolve(c, e) ELSE MergeTokens(c, e)
  ELSE IF c.secret # None THEN MergeSecret(c, e)
  ELSE [Idle EXCEPT !.job = c.job, !.seen = c.seen, !.pc = IF e = None THEN "prompt" ELSE "config"]

Moved(c) == [c EXCEPT !.next = 0, !.entry = None]

ReadCanonical(p) ==
  LET c == [proc[p] EXCEPT !.stale = FALSE] IN
  /\ proc[p].pc = "read"
  /\ Set(p, IF store[Canonical] # None THEN Resume(c, store[Canonical])
            ELSE [c EXCEPT !.pc = "alias", !.next = 1])
  /\ UNCHANGED <<store, listed, credential>>

(* Mutant: the older entry is taken out before it is copied.               *)
ReadAliasOut(p) ==
  LET c == proc[p] IN
  /\ c.pc = "alias"
  /\ Set(p, IF c.next > Len(Aliases) THEN Resume(Moved(c), None)
            ELSE IF store[Aliases[c.next]] # None
            THEN [c EXCEPT !.pc = "copy", !.entry = store[Aliases[c.next]]]
            ELSE [c EXCEPT !.next = c.next + 1])
  /\ store' = IF c.next > Len(Aliases) THEN store ELSE [store EXCEPT ![Aliases[c.next]] = None]
  /\ UNCHANGED <<listed, credential>>

ReadAlias(p) ==
  LET c == proc[p] IN
  /\ c.pc = "alias"
  /\ Set(p, IF c.next > Len(Aliases) THEN Resume(Moved(c), None)
            ELSE IF store[Aliases[c.next]] # None
            THEN [c EXCEPT !.pc = "copy", !.entry = store[Aliases[c.next]]]
            ELSE [c EXCEPT !.next = c.next + 1])
  /\ UNCHANGED <<store, listed, credential>>

CopyAlias(p) ==
  LET c == proc[p] IN
  /\ c.pc = "copy"
  /\ store' = [store EXCEPT ![Canonical] = c.entry]
  /\ SetAndOutdate(p, [c EXCEPT !.pc = "drop", !.stale = FALSE])
  /\ UNCHANGED <<listed, credential>>

DropAlias(p) ==
  LET c == proc[p] IN
  /\ c.pc = "drop"
  /\ store' = [store EXCEPT ![Aliases[c.next]] = None]
  /\ Set(p, Resume(Moved(c), c.entry))
  /\ UNCHANGED <<listed, credential>>

Write(p) ==
  LET c == proc[p] IN
  /\ c.pc = "write"
  /\ store' = [store EXCEPT ![Canonical] = c.entry]
  /\ \/ /\ c.job = "access"
        /\ SetAndOutdate(p, [Idle EXCEPT !.job = c.job, !.pc = "work", !.tokens = c.tokens])
        /\ UNCHANGED credential
     \/ /\ c.job = "set"
        /\ SetAndOutdate(p, [Idle EXCEPT !.job = c.job, !.pc = "list"])
        /\ credential' = "held"
     \/ /\ c.job = "init"
        /\ SetAndOutdate(p, [Idle EXCEPT !.job = c.job, !.pc = "config", !.seen = TRUE])
        /\ credential' = "held"
  /\ UNCHANGED <<listed>>

-----------------------------------------------------------------------------
(* AuthService *)

StartAccess(p) ==
  /\ p \in Client /\ proc[p] = Idle
  /\ Set(p, Begin("access"))
  /\ UNCHANGED <<store, listed, credential>>

(* The tokens are stored by setTokens, which reads the entry again.        *)
Stored(c, pair, refreshed) ==
  [c EXCEPT !.pc = "read", !.tokens = pair, !.refreshed = refreshed, !.stale = FALSE]

(* Mutant: a rejected refresh fails the command.                           *)
RefreshOnly(p) ==
  LET c == proc[p] IN
  /\ c.pc = "refresh"
  /\ IF c.tokens.refresh = "good"
     THEN Set(p, Stored(c, [c.tokens EXCEPT !.access = "good"], TRUE))
     ELSE Set(p, Idle)
  /\ UNCHANGED <<store, listed, credential>>

Refresh(p) ==
  LET c == proc[p] IN
  /\ c.pc = "refresh"
  /\ IF c.tokens.refresh = "good"
     THEN Set(p, Stored(c, [c.tokens EXCEPT !.access = "good"], TRUE))
     ELSE Set(p, Login(c))
  /\ UNCHANGED <<store, listed, credential>>

authenticate(p) ==
  LET c == proc[p] IN
  /\ c.pc = "login"
  /\ Set(p, Stored(c, [access |-> "good", refresh |-> "good"], FALSE))
  /\ UNCHANGED <<store, listed, credential>>

(* KSeF refuses the secret or does not answer: a refresh is followed by a  *)
(* login.                                                                  *)
KsefFails(p) ==
  LET c == proc[p] IN
  /\ c.pc \in {"refresh", "login"}
  /\ Set(p, IF c.pc = "refresh" THEN Login(c) ELSE Idle)
  /\ UNCHANGED <<store, listed, credential>>

(* The task ends.  A rejected token (401, 403) ends it, too; the keychain  *)
(* keeps the token.                                                        *)
EndWork(p) ==
  /\ proc[p].pc = "work"
  /\ Set(p, Idle)
  /\ UNCHANGED <<store, listed, credential>>

-----------------------------------------------------------------------------
(* The commands *)

StartShow(p) ==
  /\ proc[p] = Idle
  /\ Set(p, Begin("show"))
  /\ UNCHANGED <<store, listed, credential>>

(* Mutant: the organization is listed before its token is stored.          *)
setSecretListed(p, s) ==
  /\ proc[p] = Idle
  /\ Set(p, [Begin("set") EXCEPT !.secret = s])
  /\ listed' = TRUE
  /\ UNCHANGED <<store, credential>>

setSecret(p, s) ==
  /\ proc[p] = Idle
  /\ Set(p, [Begin("set") EXCEPT !.secret = s])
  /\ UNCHANGED <<store, listed, credential>>

addOrganization(p) ==
  /\ proc[p].pc = "list"
  /\ listed' = TRUE
  /\ Set(p, Idle)
  /\ UNCHANGED <<store, credential>>

Outdated == [p \in Proc |-> [proc[p] EXCEPT !.stale = @ \/ Holding(proc[p])]]

clearSecret ==
  /\ store' = [store EXCEPT ![Canonical] = None]
  /\ proc' = Outdated
  /\ credential' = IF credential = "never" THEN "never" ELSE "removed"
  /\ UNCHANGED <<listed>>

(* bootstrapInteractive reads the organizations of the configuration, asks *)
(* for missing tokens and further NIPs, and writes the organizations back. *)
StartInit(p) ==
  /\ proc[p] = Idle
  /\ Set(p, [Begin("init") EXCEPT !.seen = listed, !.pc = IF listed THEN "read" ELSE "config"])
  /\ UNCHANGED <<store, listed, credential>>

addNip(p, s) ==
  /\ proc[p].pc \in {"prompt", "config"}
  /\ Set(p, [proc[p] EXCEPT !.pc = "read", !.secret = s])
  /\ UNCHANGED <<store, listed, credential>>

SaveOrganizations(p) ==
  /\ proc[p].pc = "config"
  /\ listed' = proc[p].seen
  /\ Set(p, Idle)
  /\ UNCHANGED <<store, credential>>

(* resetAndBootstrap: clearAll deletes what it has found, one by one, and  *)
(* the configuration is removed before bootstrapInteractive begins.        *)
StartReset(p) ==
  /\ proc[p] = Idle
  /\ Set(p, [Idle EXCEPT !.job = "init", !.pc = "find"])
  /\ UNCHANGED <<store, listed, credential>>

findCredentials(p) ==
  /\ proc[p].pc = "find"
  /\ Set(p, [proc[p] EXCEPT !.pc = "delete",
                            !.found = {a \in Account : store[a] # None}])
  /\ UNCHANGED <<store, listed, credential>>

deletePassword(p, a) ==
  LET c == [proc[p] EXCEPT !.found = @ \ {a}] IN
  /\ proc[p].pc = "delete" /\ a \in proc[p].found
  /\ store' = [store EXCEPT ![a] = None]
  /\ IF a = Canonical THEN SetAndOutdate(p, c) ELSE Set(p, c)
  /\ credential' = IF a # Canonical /\ store[Canonical] # None THEN credential ELSE "removed"
  /\ UNCHANGED <<listed>>

AllDeleted(p) ==
  /\ proc[p].pc = "delete" /\ proc[p].found = {}
  /\ listed' = FALSE
  /\ Set(p, Idle)
  /\ UNCHANGED <<store, credential>>

(* A keychain or a file fails: only a refresh survives it.                 *)
Throw(p) ==
  LET c == proc[p] IN
  /\ c.pc \notin {"idle", "work", "refresh", "login"}
  /\ Set(p, IF c.refreshed THEN Login(Moved(c)) ELSE Idle)
  /\ UNCHANGED <<store, listed, credential>>

Crash(p) ==
  /\ Set(p, Idle)
  /\ UNCHANGED <<store, listed, credential>>

-----------------------------------------------------------------------------

getEntry(p) == ReadCanonical(p) \/ ReadAlias(p) \/ CopyAlias(p) \/ DropAlias(p)

getAccessToken(p) == getEntry(p) \/ Refresh(p) \/ authenticate(p) \/ Write(p) \/ EndWork(p)

Commands(p) ==
  \/ StartShow(p) \/ addOrganization(p) \/ StartInit(p) \/ SaveOrganizations(p)
  \/ StartReset(p) \/ findCredentials(p) \/ AllDeleted(p)
  \/ (\E a \in Account : deletePassword(p, a))
  \/ \E s \in Secret : setSecret(p, s) \/ addNip(p, s)

External == ExpireRefresh \/ Invalidate \/ clearSecret

Next ==
  \/ ExpireAccess \/ External
  \/ (\E p \in Console : Commands(p))
  \/ \E p \in Proc :
       \/ StartAccess(p) \/ getAccessToken(p) \/ KsefFails(p) \/ Throw(p) \/ Crash(p)

Spec == Init /\ [][Next]_vars

(* The service goes on with its work, and time passes.                     *)
FairSpec ==
  /\ Spec
  /\ WF_vars(StartAccess(Service)) /\ WF_vars(getAccessToken(Service))
  /\ WF_vars(ExpireAccess)

(* From some time on nothing fails, nobody else works on the keychain, and *)
(* an access token outlives the login it was obtained with.                *)
Calm ==
  <>[][\/ StartAccess(Service) \/ getAccessToken(Service)
       \/ ExpireAccess /\ proc[Service].pc \in {"idle", "work"}]_vars

-----------------------------------------------------------------------------
(* A credential the user has stored is in the keychain until the user      *)
(* removes it: no crash, failure or race of a migration, a refresh or a    *)
(* command loses the last copy (keychainStore.ts:90-99).                  *)
CredentialIsKept == credential = "held" => \E a \in Account : store[a] # None

(* An organization is listed only when it has been given a credential:     *)
(* whichever step of `secret set` or `system init` dies or fails, the      *)
(* service never finds a NIP it could not have a token for                 *)
(* (keychain.ts:66-67, bootstrap.ts:89-134).                               *)
ListedHadSecret == listed => credential # "never"

(* Which secret is stored is the user's business: a refresh, a login, a    *)
(* migration or a query replaces or deletes it only if it works on an      *)
(* entry that somebody else has changed since it was read                  *)
(* (keychainStore.ts:113-140).                                             *)
LosesSecret ==
  /\ store[Canonical] # None
  /\ store'[Canonical] = None \/ store'[Canonical].secret # store[Canonical].secret

UserWrites(p) == proc[p].pc = "write" /\ proc[p].job \in {"set", "init"}

OnlyOverlapsLoseSecrets ==
  [][LosesSecret =>
       \/ clearSecret \/ \E p \in Proc, a \in Account : deletePassword(p, a)
       \/ \E p \in Proc : /\ proc'[p].pc # proc[p].pc
                          /\ UserWrites(p) \/ proc[p].stale]_vars

(* A service that is left alone with a secret KSeF accepts gets a session  *)
(* KSeF accepts again and again, whatever was revoked, expired or lost     *)
(* before: a dead access token is used only until it expires, and a dead   *)
(* refresh token leads to a login (authService.ts:82-123).                 *)
AccessInTheEnd ==
  Calm /\ <>[](\E a \in Account : store[a] # None) =>
    []<>(proc[Service].pc = "work" /\ proc[Service].tokens.access = "good")
=============================================================================
