----------------------------- MODULE Operations -----------------------------
(* What the doors of this deployment can be asked to do, by the names the  *)
(* ledger gives it: which door serves an operation, which access permits   *)
(* it, what it changes, and who writes its row down.                       *)
EXTENDS Naturals, Sequences, FiniteSets, Functions, TLC

\* The memory API's table, in the order it declares it.
operations ==
    <<"message.get", "embedding.search", "entity_embedding.search", "report_embedding.search",
      "entity.list", "entity.get", "subject.register", "subject.get", "subject.list",
      "subject.update", "artifact.put", "artifact.get", "artifact.list", "artifact.delete",
      "observe", "freshness", "recall", "context.assemble", "erase", "export",
      "citation.resolve", "notification.register", "notification.list",
      "notification.disable", "notification.deliveries", "entity.purge", "record.list",
      "record.history", "record.assert", "record.correct", "record.retract",
      "feedback.record", "feedback.list", "feedback.promote">>

managementOperations ==
    <<"project.create", "project.list", "project.suspend", "project.resume",
      "project.retention", "credential.issue", "credential.list", "credential.revoke",
      "refusal.summary", "erasure.list", "formation.status", "formation.parked",
      "formation.unpark", "audit.seal", "audit.verify">>

portalActions ==
    <<"project.create", "project.suspend", "project.resume", "formation.unpark",
      "credential.issue", "credential.revoke", "audit.seal">>

\* A tool call is one of the memory operations, reached by another protocol.
mcpTools ==
    <<"recall", "observe", "freshness", "context.assemble", "citation.resolve",
      "feedback.record">>

\* The names a row of the ledger may carry; the last three groups are written by the command
\* line, the formation driver and the doors themselves.
RecordableOperation ==
    Range(operations) \cup Range(managementOperations)
    \cup {"embedding.start", "embedding.build", "embedding.activate", "embedding.cancel",
          "embedding.prune", "embedding.repair", "formation.recover", "formation.rebuild",
          "formation.rebuild.start", "formation.rebuild.cancel", "artifact.configure"}
    \cup {"retention.sweep", "audit.activity"}
    \cup {"authenticate"}

\* A surface the ledger could not account for stops the binary.
checkOperations(rs) ==
    /\ \A i \in DOMAIN rs : rs[i] \in RecordableOperation
    /\ \A i, j \in DOMAIN rs : rs[i] = rs[j] => i = j

\* What a read-only credential may ask for; a new operation is denied to it until it is listed.
Inspections ==
    {"entity.list", "entity.get", "embedding.search", "entity_embedding.search",
     "report_embedding.search", "message.get", "notification.list",
     "notification.deliveries", "feedback.list", "freshness", "recall", "context.assemble",
     "export", "citation.resolve", "record.list", "record.history", "artifact.get",
     "artifact.list", "subject.get", "subject.list"}

permitted(access, op) ==
    \/ access = "read_write"
    \/ access = "read_only" /\ op \in Inspections

-----------------------------------------------------------------------------
(* What a handler leaves in the ledger. `writer` writes the row of a       *)
(* change: the store, in the transaction that makes it, or the handler,    *)
(* once it has committed. `rows` are the operations that transaction       *)
(* names, and `magnitudes` what it may count: none for a replay. A request *)
(* that is declined, or that a store fails, has a refused row or not.      *)

Profile(writer, ops, declined, failed, rows, magnitudes) ==
    [op \in ops |-> [writer |-> writer, declined |-> declined, failed |-> failed,
                     rows |-> {Append(before, op) : before \in rows}, magnitudes |-> magnitudes]]

\* A read of what an identifier names: every way it can end is recorded.
Lookups(ops) == Profile("nobody", ops, {TRUE}, {TRUE}, {<< >>}, {1})
\* A read that declines nothing on record.
Reads(ops) == Profile("nobody", ops, {FALSE}, {FALSE}, {<< >>}, {1})
Stored(ops, rows, magnitudes) == Profile("store", ops, {TRUE}, {TRUE}, rows, magnitudes)
\* A change of an operator's: the management API records no failure of its stores.
Operated(ops, magnitudes) == Profile("handler", ops, {TRUE}, {FALSE}, {<< >>}, magnitudes)

artifactHandlers ==
    Stored({"artifact.put"}, {<< >>}, {0, 1}) @@ Stored({"artifact.delete"}, {<< >>}, {1})
    @@ Lookups({"artifact.get", "artifact.list"})
subjectHandlers ==
    Stored({"subject.register", "subject.update"}, {<< >>}, {0, 1})
    @@ Lookups({"subject.get", "subject.list"})
\* A promotion corrects or retracts the record, and each of these writes its own row.
feedbackHandlers ==
    Stored({"feedback.record"}, {<< >>}, {1})
    @@ Stored({"feedback.promote"},
              {<<"record.retract">>, <<"record.retract", "record.correct">>}, {1})
    @@ Lookups({"feedback.list"})
entityHandlers == Stored({"entity.purge"}, {<< >>}, {1}) @@ Lookups({"entity.list", "entity.get"})
notificationHandlers ==
    Profile("handler", {"notification.register", "notification.disable"},
            {TRUE}, {TRUE}, {<< >>}, {1})
    @@ Lookups({"notification.list", "notification.deliveries"})
assertRecords == Stored({"record.assert"}, {<< >>}, {0, 1})
correctRecords == Stored({"record.correct"}, {<<"record.retract">>}, {1})
retractRecords == Stored({"record.retract"}, {<< >>}, {1})
recordHandlers == Lookups({"record.list", "record.history"})
resolveCitation == Lookups({"citation.resolve"})
getMessage == Lookups({"message.get"})
searchPassages == Lookups({"embedding.search"})
searchEntityCandidates == Lookups({"entity_embedding.search"})
searchReportCandidates == Lookups({"report_embedding.search"})
\* A context refuses on record what it could not assemble, but not that it could not tell how
\* fresh it is.
assembleContext == Profile("nobody", {"context.assemble"}, {FALSE}, BOOLEAN, {<< >>}, {1})
observe == Profile("handler", {"observe"}, {FALSE}, {FALSE}, {<< >>}, {0, 1})
freshness == Reads({"freshness"})
\* Refused controls are recorded, a question too large is not.
recallHandler == Profile("nobody", {"recall"}, BOOLEAN, {FALSE}, {<< >>}, {1})
erase == Profile("handler", {"erase"}, {FALSE}, {FALSE}, {<< >>}, {0, 1})
export == Reads({"export"})

projectHandlers == Operated({"project.create"}, {1}) @@ Reads({"project.list"})
\* A retention policy is recorded as touching nothing.
setProjectRetention == Operated({"project.retention"}, {0})
setSuspended == Operated({"project.suspend", "project.resume"}, {1})
credentialHandlers ==
    Operated({"credential.issue", "credential.revoke"}, {1}) @@ Reads({"credential.list"})
summaries == Reads({"refusal.summary", "erasure.list"})
formationReads == Reads({"formation.status", "formation.parked"})
\* Its store records also that there is no such turn, and that it was not parked.
unpark == Profile("store", {"formation.unpark"}, {FALSE}, {FALSE}, {<< >>}, {0, 1})
sealAudit == Profile("handler", {"audit.seal"}, {FALSE}, {FALSE}, {<< >>}, {1})
verifyAudit == Reads({"audit.verify"})

memoryHandlers ==
    artifactHandlers @@ subjectHandlers @@ feedbackHandlers @@ entityHandlers
    @@ notificationHandlers @@ assertRecords @@ correctRecords @@ retractRecords
    @@ recordHandlers @@ resolveCitation @@ getMessage @@ searchPassages
    @@ searchEntityCandidates @@ searchReportCandidates @@ assembleContext @@ observe
    @@ freshness @@ recallHandler @@ erase @@ export
managementHandlers ==
    projectHandlers @@ setProjectRetention @@ setSuspended @@ credentialHandlers @@ summaries
    @@ formationReads @@ unpark @@ sealAudit @@ verifyAudit
Handlers == memoryHandlers @@ managementHandlers

StoreRecorded == {op \in DOMAIN Handlers : Handlers[op].writer = "store"}
HandlerRecorded == {op \in DOMAIN Handlers : Handlers[op].writer = "handler"}
Changes == StoreRecorded \cup HandlerRecorded
=============================================================================
