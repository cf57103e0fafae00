------------------------------- MODULE Config -------------------------------
(***************************************************************************)
(* What Load makes of the defaults, the YAML file and the CARTEIRO_*       *)
(* variables (internal/config/config.go), as operators.                    *)
(*                                                                         *)
(* An optional value is a sequence of at most one element: an absent key,  *)
(* an unset variable, a nil pointer.  Variables the code reads with Getenv *)
(* are "" when unset.  A certificate or a key in base64 is the name of what*)
(* decoding and parsing it gives; letter case and blanks are kept where the*)
(* code treats them: "A" and "D" are "a" and "d" in capitals.  A password  *)
(* of more than 72 bytes is "long", a data source name that the MySQL      *)
(* driver cannot parse is "garbled".                                       *)
(***************************************************************************)
EXTENDS Integers, SequencesExt, FiniteSetsExt

\* The numbers and durations, by what normalizeAndValidate asks of them.
Positive == {"max_message_size", "max_recipients", "max_attempts", "concurrency"}
NonNegative == {"dead_max", "send_history_days"}
Unchecked == {"poll_interval", "retry_base", "retry_max"}
Num == Positive \cup NonNegative \cup Unchecked

\* A file and an environment that say nothing.
NoFile ==
  [num |-> <<>>, level |-> <<>>, storage |-> <<>>, tls |-> <<>>, api |-> <<>>,
   web |-> <<>>, accounts |-> <<>>, dkim |-> <<>>]
NoEnv ==
  [num |-> <<>>, garbled |-> FALSE, level |-> <<>>, type |-> "", dsn |-> "",
   pair |-> "none", mode |-> "", apiListen |-> "", apiToken |-> "",
   webListen |-> "", httpAddr |-> "", accounts |-> <<>>, dkim |-> <<>>]

\* What yaml.Unmarshal and Getenv can give: the sections of a file, the variables.
IsOpt(o, S) == o \in Seq(S) /\ Len(o) <= 1

AreNumbers(given) == \A n \in DOMAIN given : given[n] \in Int

AreAccounts(s) == s \in Seq([email : STRING, password : STRING])
AreKeys(s) == s \in Seq([domain : STRING, selector : STRING, key : STRING])

IsFile(f) ==
  /\ AreNumbers(f.num) /\ IsOpt(f.level, STRING) /\ IsOpt(f.web, STRING)
  /\ IsOpt(f.storage, [null : BOOLEAN, type : Seq(STRING), dsn : STRING])
  /\ f.storage # <<>> => IsOpt(f.storage[1].type, STRING)
  /\ IsOpt(f.tls, [pair : STRING, mode : STRING])
  /\ IsOpt(f.api, [listen : STRING, token : STRING])
  /\ AreAccounts(f.accounts) /\ AreKeys(f.dkim)

IsEnv(e) ==
  /\ AreNumbers(e.num) /\ IsOpt(e.level, STRING) /\ e.garbled \in BOOLEAN
  /\ {e.type, e.dsn, e.pair, e.mode, e.apiListen, e.apiToken, e.webListen, e.httpAddr}
        \subseteq STRING
  /\ AreAccounts(e.accounts) /\ AreKeys(e.dkim)

\* decodeYAMLBase64: "half" and "garbled" are refused, "none" and "mismatch"
\* (two PEM texts that do not belong together) pass.
Undecodable(pair) == pair \in {"half", "garbled"}

\* decodeBase64Key and decodeYAMLKey: what is neither base64 nor PEM.
UndecodableKey(k) == k.key \in {"", "garbled"}

\* strings.ToLower(strings.TrimSpace(s)).
Lower(s) == CASE s = "A" -> "a" [] s = "D" -> "d" [] s = "DEBUG" -> "debug"
              [] s = " " -> "" [] OTHER -> s
Trim(s)  == IF s = " " THEN "" ELSE s

\* The names of accounts and of keys.
Emails(s) == [i \in DOMAIN s |-> Lower(s[i].email)]
Domains(s) == [i \in DOMAIN s |-> Lower(s[i].domain)]

\* Some positions of a sequence, in ascending order, and what stands there.
Ascending(I) ==
  CHOOSE f \in [1..Cardinality(I) -> I] :
    \A k, l \in 1..Cardinality(I) : k < l => f[k] < f[l]
Picked(s, I) == [k \in 1..Cardinality(I) |-> s[Ascending(I)[k]]]

----------------------------------------------------------------------------
(* The stages of Load.                                                     *)

\* The numbers are scaled; all of them are legal.
Defaults ==
  [num |-> [n \in Num |-> 3],
   level |-> "info", storage |-> << [type |-> "sqlite", dsn |-> ""] >>,
   tls |-> <<>>, api |-> <<>>, web |-> <<>>, accounts |-> <<>>, dkim |-> <<>>]

\* given holds some of the numbers.
Overlay(base, given) ==
  [n \in Num |-> IF n \in DOMAIN given THEN given[n] ELSE base[n]]

Or(opt, other) == IF opt = <<>> THEN other ELSE opt[1]

\* yaml.Unmarshal into the defaults: a mapping is merged into the struct that
\* is there, null makes the pointer nil.
StorageOf(base, s) ==
  CASE s = <<>> -> base
    [] s # <<>> /\ s[1].null -> <<>>
    [] OTHER -> << [type |-> Or(s[1].type, base[1].type), dsn |-> s[1].dsn] >>

FileRefused(f) ==
  \/ \E i \in DOMAIN f.dkim : UndecodableKey(f.dkim[i])
  \/ f.tls # <<>> /\ Undecodable(f.tls[1].pair)

WithFile(c, f) ==
  [c EXCEPT !.num = Overlay(@, f.num), !.level = Or(f.level, @),
            !.storage = StorageOf(@, f.storage), !.tls = f.tls, !.api = f.api,
            !.web = f.web, !.accounts = f.accounts, !.dkim = f.dkim]

\* applyEnv takes the address of a field of c.Storage before it looks at any
\* variable that can be wrong.
EnvPanics(c) == c.storage = <<>>

EnvRefused(e) ==
  \/ e.garbled
  \/ Undecodable(e.pair)
  \/ \E i \in DOMAIN e.dkim : UndecodableKey(e.dkim[i])

\* CARTEIRO_DB_DSN implies mysql.
StorageWithEnv(s, e) ==
  << [type |-> CASE e.dsn # "" -> "mysql" [] e.dsn = "" /\ e.type # "" -> e.type
                 [] OTHER -> s[1].type,
      dsn |-> IF e.dsn # "" THEN e.dsn ELSE s[1].dsn] >>

ApiWithEnv(a, e) ==
  LET old == Or(a, [listen |-> "", token |-> ""]) IN
  IF e.apiListen = "" /\ e.apiToken = "" THEN a
  ELSE << [listen |-> IF e.apiListen # "" THEN e.apiListen ELSE old.listen,
           token |-> IF e.apiToken # "" THEN e.apiToken ELSE old.token] >>

\* CARTEIRO_WEB_LISTEN before its aliases.
WebWithEnv(w, e) ==
  CASE e.webListen # "" -> << e.webListen >>
    [] e.webListen = "" /\ e.httpAddr # "" -> << e.httpAddr >>
    [] OTHER -> w

\* Mutant: the keys of the environment come first.
MergedEnvFirst(keys, fromEnv) == fromEnv \o keys

\* The keys of the environment replace those of the same domain, by the text
\* of the domain.
MergedDKIM(keys, fromEnv) ==
  LET kept == {i \in DOMAIN keys : \A j \in DOMAIN fromEnv : fromEnv[j].domain # keys[i].domain}
  IN Picked(keys, kept) \o fromEnv

\* applyEnv, and the rest of Load before validation.  The variables of the
\* certificate replace the whole tls section, and without them
\* CARTEIRO_TLS_MODE is not looked at.
WithEnv(c, e) ==
  [c EXCEPT !.num = Overlay(@, e.num), !.level = Or(e.level, @),
            !.storage = StorageWithEnv(@, e),
            !.tls = IF e.pair = "none" THEN @ ELSE << [pair |-> e.pair, mode |-> e.mode] >>,
            !.api = ApiWithEnv(@, e), !.web = WebWithEnv(@, e),
            !.accounts = @ \o e.accounts, !.dkim = MergedDKIM(@, e.dkim)]

----------------------------------------------------------------------------
(* normalizeAndValidate.                                                   *)

\* Where each name occurs first, and where name x occurs last.
Firsts(names) == {i \in DOMAIN names : \A j \in 1..i - 1 : names[j] # names[i]}
LastAt(names, x) == Max({i \in DOMAIN names : names[i] = x})

\* One entry for each name, where the first one was: the last one.
LastWins(s, names) ==
  LET order == Picked(names, Firsts(names))
  IN [k \in DOMAIN order |-> s[LastAt(names, order[k])]]

Normalized(c) ==
  [c EXCEPT
     !.tls = IF @ # <<>> /\ @[1].mode = "" THEN << [@[1] EXCEPT !.mode = "starttls"] >> ELSE @,
     !.storage = IF @[1].type = "" THEN << [@[1] EXCEPT !.type = "sqlite"] >> ELSE @,
     !.api = IF @ # <<>> /\ Trim(@[1].listen) = "" THEN << [@[1] EXCEPT !.listen = "9090"] >> ELSE @,
     !.web = IF c.api # <<>> /\ Trim(Or(@, "")) = "" THEN << "8080" >> ELSE @,
     !.accounts = LET u == LastWins(@, Emails(@))
                  IN [i \in DOMAIN u |-> [u[i] EXCEPT !.email = Lower(@)]],
     !.dkim = LET u == LastWins(@, Domains(@))
              IN [i \in DOMAIN u |-> [u[i] EXCEPT !.domain = Lower(@),
                                                  !.selector = Trim(@)]]]

\* Mutant: the concurrency is not looked at.
InvalidButConcurrency(c) ==
  \/ \E n \in Positive \ {"concurrency"} : c.num[n] < 1
  \/ \E n \in NonNegative : c.num[n] < 0
  \/ c.storage[1].type = "mysql" /\ Trim(c.storage[1].dsn) = ""
  \/ c.api # <<>> /\ Trim(c.api[1].token) = ""
  \/ c.api = <<>> /\ c.web # <<>>
  \/ \E i \in DOMAIN c.accounts : c.accounts[i].password = ""
  \/ \E i \in DOMAIN c.dkim : c.dkim[i].key # "good"

Invalid(c) ==
  \/ c.tls # <<>> /\ (c.tls[1].mode \notin {"", "starttls", "implicit"} \/ c.tls[1].pair # "good")
  \/ \E n \in Positive : c.num[n] < 1
  \/ \E n \in NonNegative : c.num[n] < 0
  \/ c.storage[1].type \notin {"", "sqlite", "mysql"}
  \/ c.storage[1].type = "mysql" /\ Trim(c.storage[1].dsn) = ""
  \/ c.api # <<>> /\ (Trim(c.api[1].token) = "" \/ c.api[1].listen = "nonsense")
  \/ c.api # <<>> /\ c.web = <<"nonsense">>
  \/ c.api = <<>> /\ c.web # <<>>
  \/ LET u == LastWins(c.accounts, Emails(c.accounts)) IN
     \E i \in DOMAIN u : Lower(u[i].email) \in {"", "nonsense"} \/ u[i].password = ""
  \/ LET u == LastWins(c.dkim, Domains(c.dkim)) IN
     \E i \in DOMAIN u : Lower(u[i].domain) = "" \/ u[i].selector = "" \/ u[i].key # "good"
  \/ Lower(c.level) \notin {"debug", "info", "warn", "error"}

----------------------------------------------------------------------------
(* What the documentation says: defaults < file < environment, setting by  *)
(* setting.                                                                *)

\* The scalar settings of c are what file f and environment e ask for.  The mode
\* of TLS is left out: a mode in the environment has no effect on a certificate
\* in the file.
EffectiveSettings(c, f, e) ==
  /\ \A n \in Num : c.num[n] = CASE n \in DOMAIN e.num -> e.num[n]
                                [] n \in DOMAIN f.num \ DOMAIN e.num -> f.num[n]
                                [] OTHER -> Defaults.num[n]
  /\ c.level = Or(e.level, Or(f.level, "info"))
  /\ c.storage[1].type = "mysql" <=>
       \/ e.dsn # ""
       \/ e.type = "mysql"
       \/ e.type = "" /\ f.storage # <<>> /\ f.storage[1].type = <<"mysql">>
  /\ c.tls # <<>> <=> e.pair # "none" \/ f.tls # <<>>
  /\ c.api # <<>> <=> e.apiToken # "" \/ f.api # <<>>
  /\ c.api # <<>> =>
       c.api[1].token = IF e.apiToken # "" THEN e.apiToken ELSE f.api[1].token
  /\ c.web # <<>> <=> c.api # <<>>
  /\ Trim(e.webListen) # "" => c.web = <<e.webListen>>

\* So are its accounts and keys: one for each name in the two sources, the last.
EffectiveAccounts(c, f, e) ==
  LET all == f.accounts \o e.accounts IN
  /\ Range(Emails(c.accounts)) = Range(Emails(all))
  /\ IsInjective([i \in DOMAIN c.accounts |-> c.accounts[i].email])
  /\ \A i \in DOMAIN c.accounts :
       c.accounts[i].password = all[LastAt(Emails(all), c.accounts[i].email)].password

EffectiveKeys(c, f, e) ==
  LET all == f.dkim \o e.dkim IN
  /\ Range(Domains(c.dkim)) = Range(Domains(all))
  /\ IsInjective([i \in DOMAIN c.dkim |-> c.dkim[i].domain])
  /\ \A i \in DOMAIN c.dkim :
       c.dkim[i].selector = Trim(all[LastAt(Domains(all), c.dkim[i].domain)].selector)

EffectiveEntries(c, f, e) == EffectiveAccounts(c, f, e) /\ EffectiveKeys(c, f, e)
============================================================================
