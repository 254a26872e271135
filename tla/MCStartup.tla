----------------------------- MODULE MCStartup -----------------------------
(***************************************************************************)
(* A model-checking instance of Startup: every way to give or leave out a  *)
(* few settings as flag, in the environment and in the file.               *)
(***************************************************************************)
EXTENDS Startup, TLC

Empty == [k \in {} |-> Nil]

\* The setting k left out, or given as one of values.
Given(k, values) == {Empty} \cup {k :> v : v \in values}

Combine(A, B) == {a @@ b : a \in A, b \in B}

MCFlags ==
    Combine(Combine(Given("simulate", {FALSE}), Given("username", {"service", "secret"})),
            Combine(Given("policyConfig", {"example"}), Given("policy", {"resilient-urgent"})))
    \cup {"noRabbitMQ" :> TRUE, "unknown" :> TRUE}

MCEnvironments ==
    Combine(Given("username", {"", "secret"}), Given("password", {"secret"}))

Good(fields) == [documents |-> 1, header |-> TRUE, fields |-> fields]

\* A file that changes one default and is valid, one whose rates are the wrong way
\* round, and those that are not read to their end.
MCPolicyFiles ==
    "example" :> Good("maxConcurrent" :> 4)
    @@ "reversed" :> Good("defaultSuccess" :> 50 @@ "minimumSuccess" :> 60)
    @@ "absent" :> Nil
    @@ "twice" :> [Good(Empty) EXCEPT !.documents = 2]
    @@ "empty" :> [Good(Empty) EXCEPT !.documents = 0]
    @@ "headless" :> [Good(Empty) EXCEPT !.header = FALSE]
    @@ "misspelt" :> Good("maxConcurent" :> 4)

MCFiles ==
    Combine(Combine(Given("simulate", {TRUE}), Given("password", {"", "service"})),
            Combine(Given("policyConfig", DOMAIN MCPolicyFiles \ {"example"}), Given("policy", {"default"})))
    \cup {"unknown" :> TRUE}

\* The file is there, with one of MCFiles in it, or missing, or none is named.
MCInvocations ==
    [flags : MCFlags, environment : MCEnvironments, config : {"there"}, file : MCFiles,
     version : {FALSE}, validateOnly : BOOLEAN, allowDefaults : BOOLEAN]
    \cup
    [flags : MCFlags, environment : MCEnvironments, config : {"none", "missing"}, file : {Empty},
     version : BOOLEAN, validateOnly : BOOLEAN, allowDefaults : {FALSE}]

=============================================================================
