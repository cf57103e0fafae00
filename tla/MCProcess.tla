----------------------------- MODULE MCProcess ------------------------------
(***************************************************************************)
(* Instances of Process for TLC.                                           *)
(***************************************************************************)
EXTENDS Process

In(f, e) == [file |-> f, env |-> e]

Just(n, x) == [k \in {n} |-> x]

\* A number in the file, in the environment, or in both.
Numbers ==
  UNION {{In([NoFile EXCEPT !.num = Just(n, x)], NoEnv),
          In(NoFile, [NoEnv EXCEPT !.num = Just(n, x)]),
          In([NoFile EXCEPT !.num = Just(n, x)], [NoEnv EXCEPT !.num = Just(n, 1)])}
         : n \in Num, x \in {-1, 0, 1, 2}}

\* One section of the file and of the environment at a time.
Levels ==
  {In([NoFile EXCEPT !.level = a], [NoEnv EXCEPT !.level = b])
     : a, b \in {<<>>, <<"DEBUG">>, <<"warn">>, <<"">>}}
Storages ==
  {In([NoFile EXCEPT !.storage = s], [NoEnv EXCEPT !.type = t, !.dsn = d])
     : s \in {<<>>} \cup {<<r>> : r \in [null : BOOLEAN, type : {<<>>, <<"mysql">>},
                                         dsn : {"", " ", "x"}]},
       t \in {"", "sqlite", "mysql", "nonsense"}, d \in {"", "y", "garbled"}}
Certificates ==
  {In([NoFile EXCEPT !.tls = t], [NoEnv EXCEPT !.pair = p, !.mode = m])
     : t \in {<<>>} \cup {<<r>> : r \in [pair : {"none", "good", "mismatch"},
                                         mode : {"", "implicit"}]},
       p \in {"none", "half", "good", "garbled"}, m \in {"", "implicit", "nonsense"}}
Apis ==
  {In([NoFile EXCEPT !.api = a, !.web = w],
      [NoEnv EXCEPT !.apiToken = t, !.webListen = l])
     : a \in {<<>>, <<[token |-> "s", listen |-> ""]>>}, w \in {<<>>, <<"nonsense">>},
       t \in {"", "t"}, l \in {"", " ", "8081"}}

Acc(e, p) == [email |-> e, password |-> p]
Accounts ==
  {In([NoFile EXCEPT !.accounts = f], [NoEnv EXCEPT !.accounts = e])
     : f \in {<<>>, <<Acc("a", "p"), Acc("b", "")>>, <<Acc("A", "p"), Acc("b", "r")>>},
       e \in {<<>>, <<Acc("a", "q"), Acc("a", "s")>>, <<Acc("nonsense", "q")>>,
              <<Acc("b", "r")>>, <<Acc("b", "long")>>}}

Dk(d, s, k) == [domain |-> d, selector |-> s, key |-> k]
Keys ==
  {In([NoFile EXCEPT !.dkim = f], [NoEnv EXCEPT !.dkim = e])
     : f \in {<<>>, <<Dk("D", "m", "good"), Dk("x", "m", "good")>>, <<Dk("d", " ", "good")>>,
              <<Dk("d", "m", "garbled")>>},
       e \in {<<>>, <<Dk("d", "n", "good"), Dk("d", "o", "good")>>, <<Dk("x", "m", "EC")>>}}

\* Windows that fit the width, the last one being the largest.
Windows == {In([NoFile EXCEPT !.num = Just("send_history_days", x)], NoEnv) : x \in 0..7}

\* And windows that do not.
WideWindows == {In([NoFile EXCEPT !.num = Just("send_history_days", x)], NoEnv) : x \in 8..20}

Everything == Numbers \cup Levels \cup Storages \cup Certificates \cup Apis
                \cup Accounts \cup Keys \cup Windows \cup WideWindows
=============================================================================
