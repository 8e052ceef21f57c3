------------------------------ MODULE MCIntake ------------------------------
(* Instances of Intake: decisions a host hands over, turns to route over a  *)
(* catalog that needs two requests, and needs over many small catalogs.     *)
EXTENDS TaskGoal

Tool(bytes, provider) == [bytes |-> bytes, provider |-> provider]

Request(decided, hasGoal, priorTask, firing, language, catalog) ==
    [decided |-> decided, goal |-> hasGoal, priorTask |-> priorTask, firing |-> firing,
     language |-> language, registered |-> DOMAIN catalog, deliver |-> 1]

Plain(catalog) == Request("", FALSE, FALSE, FALSE, TRUE, catalog)

Turn(routing, given, request, catalog, missing) ==
    [entry |-> "turn", routing |-> routing, given |-> given, request |-> request,
     catalog |-> catalog, missing |-> missing, limit |-> 0]

\* Two tools that share no request.
Pair == <<Tool(3, 1), Tool(3, 1)>>

RequiredFile == <<[type |-> "file", about |-> {"s1"}, required |-> TRUE, hints |-> {}]>>
Replies == <<[type |-> "message", about |-> {"s1"}, required |-> FALSE, hints |-> {}],
              [type |-> "", about |-> {"s2"}, required |-> TRUE, hints |-> {}],
              [type |-> "message", about |-> {}, required |-> TRUE, hints |-> {}]>>

\* The second takes the letter B of its place, which the third also names.
Offered == <<[key |-> "A", label |-> "x"], [key |-> "", label |-> "y"],
             [key |-> "B", label |-> "z"], [key |-> "", label |-> ""]>>

Given ==
    {[Blank EXCEPT !.route = route, !.class = class, !.shape = shape, !.level = level,
                   !.kind = kind, !.formats = formats, !.results = results,
                   !.tools = {1, 2, 9}, !.options = Offered] :
        route \in Routes \union {""}, class \in Classes \union {""},
        shape \in {"", "immediate_reply", "maintenance_task", "approval_gated_task"},
        level \in {"", "low"}, kind \in {"none", "document"}, formats \in BOOLEAN,
        results \in {Replies, RequiredFile}}

HandedOver ==
    {Turn("given", given, Plain(Pair), Pair, {}) : given \in Given}
        \union {Turn("exact", given, Plain(Pair), Pair, {}) :
                    given \in {g \in Given : g.level = "" /\ ~g.formats}}

\* Which of an active goal, a prior task, a firing and a language there is:
\* none of them, and each alone; a host that decided a level has all or none.
Facts == {[k \in 1..4 |-> k = there] : there \in 0..4}

Routed ==
    {Turn("none", Blank, Request("", facts[1], facts[2], facts[3], facts[4], Pair), Pair, {}) :
        facts \in Facts}
    \union {Turn("none", Blank, Request(decided, there, there, there, there, Pair), Pair, {}) :
        decided \in {"none", "hard"}, there \in BOOLEAN}
    \union {Turn("none", Blank, Plain(Pair), Pair, missing) :
        missing \in {{"router"}, {"planner"}, {"chat"}}}
    \union {Turn("none", Blank, Plain(<<>>), <<>>, {})}

Need(catalog, limit, missing) ==
    [entry |-> "need", routing |-> "none", given |-> Blank, request |-> Plain(catalog),
     catalog |-> catalog, missing |-> missing, limit |-> limit]

\* Every catalog of up to three tools, and four tools of one provider.
Catalogs == UNION {[1..n -> {Tool(b, p) : b \in {1, 2, 4}, p \in {0, 1}}] : n \in 1..3}
                \union [1..4 -> {Tool(b, 1) : b \in {1, 3}}]

Needs == {Need(catalog, 0, {}) : catalog \in Catalogs}
            \union {Need(Pair, 1, {}), Need(<<>>, 0, {}), Need(Pair, 0, {"planner"})}

FirstTurns == HandedOver \union Routed \union Needs

Words(disposition, question, options, results) ==
    [disposition |-> disposition, question |-> question, options |-> options, results |-> results]

MCWordSets == {Words("", "", <<>>, Replies), Words("", "", <<>>, RequiredFile),
               Words("ask", "q", Offered, <<>>), Words("ask", "", <<>>, <<>>),
               Words("start_work", "", <<>>, RequiredFile),
               Words("start_work", "q", <<>>, <<>>)}

-----------------------------------------------------------------------------
(* Tools of a task: 1 delivers files, 2 asks, 3 sends messages, 4 edits them,  *)
(* 5 sends mail, 6 drafts a file, 7 changes something, 8 asks under an old name *)

MCAbout == <<{"usable"}, {"usable"}, {"message", "send", "usable"}, {"message", "change", "usable"},
             {"send", "change", "usable"}, {"draft", "change", "usable"}, {"change", "usable"}, {}>>
MCRenamed == [tool \in DOMAIN MCAbout |-> IF tool = 8 THEN 2 ELSE tool]
MCToolSets == {Current, Current \ {1}, Current \ {5, 7}}
MCHintSets == {{}, {5, 7}, {1, 2, 6}, {3, 4}}

NoPlan == [missing |-> FALSE, repeated |-> FALSE, thirdParty |-> FALSE, external |-> FALSE,
           ends |-> FALSE, frequent |-> FALSE, risky |-> FALSE, destructive |-> FALSE,
           named |-> TRUE]
MCPlans == {NoPlan, [NoPlan EXCEPT !.external = TRUE],
            [NoPlan EXCEPT !.thirdParty = TRUE, !.missing = TRUE],
            [NoPlan EXCEPT !.repeated = TRUE, !.frequent = TRUE], [NoPlan EXCEPT !.missing = TRUE]}

Linked == <<[type |-> "link", about |-> {"s1"}, required |-> TRUE, hints |-> {}]>>

\* What an earlier program may have left: a question, and a file under a group;
\* or an artifact where a link is all that is required, and the draft of a file.
MCSavedGoals ==
    {NoGoal,
     [run |-> 1, status |-> "waiting_user_input",
      contract |-> [NoContract EXCEPT !.required = {8, 6}, !.anyOf = {{1, 7}},
                      !.results = <<[type |-> "message", about |-> {"s1"}, required |-> TRUE,
                                     hints |-> {8}]>>],
      named |-> {1, 2, 6, 7}],
     [run |-> 1, status |-> "active",
      contract |-> [NoContract EXCEPT !.required = {6, 7}, !.artifact = "required",
                      !.results = <<[type |-> "file", about |-> {"s2"}, required |-> FALSE,
                                     hints |-> {}]>> \o Linked],
      named |-> {1, 6, 7}]}

Toolbox == [tool \in Current |-> Tool(1, 0)]

Said(route, class, shape, formats, results, names) ==
    [Blank EXCEPT !.route = route, !.class = class, !.shape = shape, !.level = "low",
                  !.formats = formats, !.results = results, !.tools = names,
                  !.independent = TRUE, !.language = TRUE]

MCMessages ==
    {Turn("exact", said, Plain(Toolbox), Toolbox, {}) : said \in
        {Said(route, "bounded_task", "maintenance_task", FALSE, <<>>, {5, 7}) : route \in WorkRoutes}
        \union {Said(route, "bounded_task", "approval_gated_task", FALSE, <<>>, {5, 7}) : route \in WorkRoutes}
        \union {Said(route, "bounded_task", "maintenance_task", TRUE, Linked, {7}) : route \in WorkRoutes}
        \union {Said("clarify", "needs_confirmation", "approval_gated_task", TRUE, <<>>, {}),
                Said("give_up", "unsupported", "immediate_reply", FALSE, RequiredFile, {}),
                Said("answer_question", "quick_reply", "immediate_reply", FALSE, <<>>, {})}}

MCTurns == FirstTurns \union MCMessages
=============================================================================
