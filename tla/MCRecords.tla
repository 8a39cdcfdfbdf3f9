------------------------------ MODULE MCRecords ------------------------------
(***************************************************************************)
(* For TLC, the parts of the system that keep records in step: the tokens  *)
(* of an account, its data and their removal, consent, the mailbox         *)
(* requests, the topic clusters, the embedding model, the cleanup plan and *)
(* the vector index.  As in MCTasks a behaviour lets one of them, the      *)
(* focus, move.                                                            *)
(***************************************************************************)
EXTENDS AccountTokens, AccountData, ProviderConsent, MailboxActions, TopicClusters,
        EmbeddingModel, PlanBuilder, VectorIndex

VARIABLE focus

\* What the wizard offers PlanBuilder: two Gmail messages and one of POP3.
MailsOfAccount == [ga |-> {"m1", "m2"}, po |-> {"m3"}]
Providers == [ga |-> "gmail", po |-> "pop3"]
FirstActions == [r1 |-> "delete"]
SyncLimit == [ga |-> 1, po |-> 0]
Chosen ==
    {[accounts |-> <<"ga">>, subs |-> <<"ga">>, rules |-> <<>>, archive |-> FALSE,
      clusters |-> <<[cluster |-> "c1", account |-> "ga", action |-> "archive"],
                     [cluster |-> "c2", account |-> "ga", action |-> "delete"]>>],
     [accounts |-> <<"ga", "po">>, subs |-> <<>>, archive |-> TRUE,
      clusters |-> <<[cluster |-> "c1", account |-> "po", action |-> "delete"]>>,
      rules |-> <<[account |-> "po", rule |-> "r1"]>>]}

\* What the parts choose at the start is pinned where they do not move; the first
\* setting is pinned everywhere, since the models are alike.
Init ==
    /\ focus \in {"tokens", "data", "consent", "mailbox", "topics", "embed", "plan", "vectors"}
    /\ TokenInit /\ DataInit /\ ConsentInit /\ MailboxInit /\ TopicInit /\ EmbedInit /\ PlanInit
    /\ IndexInit
    /\ focus # "tokens" => ~rotating
    /\ setting = CHOOSE m \in EmbedModels : TRUE
    /\ focus # "embed" => maker = setting

Next ==
    /\ UNCHANGED focus
    /\ \/ /\ focus = "tokens" /\ TokenNext
          /\ UNCHANGED <<dataVars, consentVars, mailboxVars, topicVars, embedVars, planVars, indexVars>>
       \/ /\ focus = "data" /\ DataNext
          /\ UNCHANGED <<tokenVars, consentVars, mailboxVars, topicVars, embedVars, planVars, indexVars>>
       \/ /\ focus = "consent" /\ ConsentNext
          /\ UNCHANGED <<tokenVars, dataVars, mailboxVars, topicVars, embedVars, planVars, indexVars>>
       \/ /\ focus = "mailbox" /\ MailboxNext
          /\ UNCHANGED <<tokenVars, dataVars, consentVars, topicVars, embedVars, planVars, indexVars>>
       \/ /\ focus = "topics" /\ TopicNext
          /\ UNCHANGED <<tokenVars, dataVars, consentVars, mailboxVars, embedVars, planVars, indexVars>>
       \/ /\ focus = "embed" /\ EmbedNext
          /\ UNCHANGED <<tokenVars, dataVars, consentVars, mailboxVars, topicVars, planVars, indexVars>>
       \/ /\ focus = "plan" /\ PlanNext
          /\ UNCHANGED <<tokenVars, dataVars, consentVars, mailboxVars, topicVars, embedVars, indexVars>>
       \/ /\ focus = "vectors" /\ IndexNext
          /\ UNCHANGED <<tokenVars, dataVars, consentVars, mailboxVars, topicVars, embedVars, planVars>>

Spec ==
    Init /\ [][Next]_<<focus, tokenVars, dataVars, consentVars, mailboxVars, topicVars,
                      embedVars, planVars, indexVars>>
=============================================================================
