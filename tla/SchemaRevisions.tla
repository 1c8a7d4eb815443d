--------------------------- MODULE SchemaRevisions --------------------------
(* The migrations of services/api/alembic/versions, in the order of their
   down_revision: for each the tables it creates, and the statements of its
   upgrade() and of its downgrade() in their order.  Statements about plain
   indexes, defaults and the vector extension are left out, and of the check
   constraints all but the two that relate a new column to an older one. *)
EXTENDS Schema

(* _timestamps of the first migrations. *)
Stamps == {"created_at", "updated_at"}

(* 20260718_0001_core_schema.py *)

users ==
  Table(Stamps \cup {"id", "subject", "authentication_method"},
        {},
        Unique({{"id"}, {"authentication_method", "subject"}}),
        {})

courses ==
  Table(Stamps \cup {"id", "user_id", "title", "lifecycle", "row_version"},
        {"active_lexical_index_id", "deleted_at"},
        Unique({{"id"}}),
        {To("user_id", "users", Cascade)})

stored_objects ==
  Table({"id", "user_id", "object_key", "purpose", "sha256", "size_bytes", "media_type",
        "created_at"},
        {"course_id", "retention_until", "deleted_at"},
        Unique({{"id"}, {"object_key"}}),
        {To("course_id", "courses", Cascade), To("user_id", "users", Cascade)})

upload_sessions ==
  Table(Stamps \cup {"id", "user_id", "course_id", "object_key", "expected_sha256",
        "expected_size", "media_type", "status", "expires_at"},
        {"stored_object_id", "completed_at"},
        Unique({{"id"}}),
        {To("course_id", "courses", Cascade), To("stored_object_id", "stored_objects", SetNull),
         To("user_id", "users", Cascade)})

documents ==
  Table(Stamps \cup {"id", "course_id", "stored_object_id", "filename", "media_type",
        "corpus_role", "verified_sha256", "status", "deletion_epoch"},
        {"preview_revision_id", "active_revision_id", "deleted_at"},
        Unique({{"id"}}),
        {To("course_id", "courses", Cascade), To("stored_object_id", "stored_objects", Restricted)})

document_revisions ==
  Table({"id", "document_id", "ordinal", "manifest", "parser_profile", "parser_schema_version",
        "quality_status", "created_at"},
        {"parse_job_id"},
        Unique({{"id"}, {"document_id", "ordinal"}}),
        {To("document_id", "documents", Cascade)})

idempotency_records ==
  Table({"id", "actor_subject", "operation", "idempotency_key", "request_hash", "response_status",
        "response_body", "created_at", "expires_at"},
        {},
        Unique({{"id"}, {"actor_subject", "operation", "idempotency_key"}}),
        {})

deletion_jobs ==
  Table(Stamps \cup {"id", "user_id", "target_type", "target_id", "deletion_epoch", "status",
        "attempt_count", "available_at"},
        {"completed_at", "last_error_code"},
        Unique({{"id"}, {"target_type", "target_id", "deletion_epoch"}}),
        {To("user_id", "users", Cascade)})

outbox_events ==
  Table({"id", "aggregate_type", "aggregate_id", "event_type", "payload", "status",
        "attempt_count", "available_at", "created_at"},
        {"published_at", "last_error_code", "last_error_detail"},
        Unique({{"id"}}),
        {})

UpCoreSchema ==
  <<Create("users", users), Create("courses", courses),
    Create("stored_objects", stored_objects), Create("upload_sessions", upload_sessions),
    Create("documents", documents), Create("document_revisions", document_revisions),
    AddRef("documents", To("preview_revision_id", "document_revisions", SetNull)),
    AddRef("documents", To("active_revision_id", "document_revisions", SetNull)),
    Create("idempotency_records", idempotency_records),
    Create("deletion_jobs", deletion_jobs), Create("outbox_events", outbox_events)>>

DownCoreSchema ==
  <<Drop("outbox_events"), Drop("deletion_jobs"), Drop("idempotency_records"),
    DropRef("documents", To("active_revision_id", "document_revisions", SetNull)),
    DropRef("documents", To("preview_revision_id", "document_revisions", SetNull)),
    Drop("document_revisions"), Drop("documents"), Drop("upload_sessions"),
    Drop("stored_objects"), Drop("courses"), Drop("users")>>

(* 20260719_0002_p3_upload_workflow.py *)

UpUploadWorkflow ==
  <<AddColumn("documents", "user_id", Optional), Fill("documents", "user_id"),
    Require("documents", "user_id"), AddRef("documents", To("user_id", "users", Cascade)),
    AddColumn("upload_sessions", "document_id", Optional),
    AddRef("upload_sessions", To("document_id", "documents", Cascade)),
    AddColumn("idempotency_records", "actor_authentication_method", Defaulted),
    DropKey("idempotency_records", Key({"actor_subject", "operation", "idempotency_key"})),
    AddKey("idempotency_records", Key({"actor_subject", "actor_authentication_method", "operation",
        "idempotency_key"})),
    AddKey("courses", Key({"id", "user_id"})),
    AddKey("stored_objects", Key({"id", "course_id", "user_id"})),
    AddKey("documents", Key({"id", "course_id", "user_id"})),
    AddKey("document_revisions", Key({"document_id", "id"})),
    AddRef("stored_objects", OfCourse(NoAction)),
    AddRef("upload_sessions", OfCourse(NoAction)),
    AddRef("upload_sessions", Scoped(<<"stored_object_id">>, "stored_objects", <<"id">>, NoAction)),
    AddRef("documents", OfCourse(NoAction)),
    AddRef("documents", Scoped(<<"stored_object_id">>, "stored_objects", <<"id">>, NoAction)),
    DropRef("documents", To("preview_revision_id", "document_revisions", SetNull)),
    DropRef("documents", To("active_revision_id", "document_revisions", SetNull)),
    AddRef("documents", Ref(<<"id", "preview_revision_id">>, "document_revisions", <<"document_id",
        "id">>, NoAction)),
    AddRef("documents", Ref(<<"id", "active_revision_id">>, "document_revisions", <<"document_id",
        "id">>, NoAction)),
    AddKey("documents", Partial({"course_id", "verified_sha256", "corpus_role"}, "visible"))>>

DownUploadWorkflow ==
  <<DropKey("documents", Partial({"course_id", "verified_sha256", "corpus_role"}, "visible")),
    DropRef("documents", Ref(<<"id", "active_revision_id">>, "document_revisions", <<"document_id",
        "id">>, NoAction)),
    DropRef("documents", Ref(<<"id", "preview_revision_id">>, "document_revisions", <<"document_id",
        "id">>, NoAction)),
    AddRef("documents", To("preview_revision_id", "document_revisions", SetNull)),
    AddRef("documents", To("active_revision_id", "document_revisions", SetNull)),
    DropRef("documents", Scoped(<<"stored_object_id">>, "stored_objects", <<"id">>, NoAction)),
    DropRef("documents", OfCourse(NoAction)),
    DropRef("upload_sessions", Scoped(<<"stored_object_id">>, "stored_objects", <<"id">>, NoAction)),
    DropRef("upload_sessions", OfCourse(NoAction)),
    DropRef("stored_objects", OfCourse(NoAction)),
    DropKey("document_revisions", Key({"document_id", "id"})),
    DropKey("documents", Key({"id", "course_id", "user_id"})),
    DropKey("stored_objects", Key({"id", "course_id", "user_id"})),
    DropKey("courses", Key({"id", "user_id"})),
    DropKey("idempotency_records", Key({"actor_subject", "actor_authentication_method", "operation",
        "idempotency_key"})),
    AddKey("idempotency_records", Key({"actor_subject", "operation", "idempotency_key"})),
    DropColumn("idempotency_records", "actor_authentication_method"),
    DropRef("upload_sessions", To("document_id", "documents", Cascade)),
    DropColumn("upload_sessions", "document_id"),
    DropRef("documents", To("user_id", "users", Cascade)),
    DropColumn("documents", "user_id")>>

(* 20260719_0003_persistent_parse_jobs.py *)

parse_jobs ==
  Table(Stamps \cup {"id", "user_id", "course_id", "document_id", "stored_object_id", "job_type",
        "status", "state_version", "attempt", "max_attempts", "parser_profile",
        "parser_schema_version", "media_type", "document_sha256", "document_deletion_epoch",
        "input_size_bytes", "requires_ocr", "requires_rendering", "requested_pages",
        "available_at", "lease_version", "progress", "event_sequence", "failed_pages"},
        {"estimated_pages", "lease_owner_id", "lease_token_hash", "lease_expires_at", "heartbeat_at",
        "result_manifest_ref", "result_sha256", "result_page_count", "failure_code",
        "failure_summary", "retryable"},
        Unique({{"id"}, {"id", "document_id", "course_id", "user_id"}}),
        {To("user_id", "users", Cascade), To("course_id", "courses", Cascade), To("document_id",
         "documents", Cascade), To("stored_object_id", "stored_objects", Restricted),
         Scoped(<<"document_id">>, "documents", <<"id">>, Cascade),
         Scoped(<<"stored_object_id">>, "stored_objects", <<"id">>, NoAction)})

job_artifacts ==
  Table(Stamps \cup {"id", "job_id", "user_id", "course_id", "document_id", "stored_object_id",
        "attempt", "deletion_epoch", "artifact_name", "artifact_schema_version", "sha256",
        "size_bytes", "media_type", "status"},
        {},
        Unique({{"id"}, {"job_id", "attempt", "artifact_name"}}),
        {To("job_id", "parse_jobs", Cascade), To("stored_object_id", "stored_objects", Restricted),
         Scoped(<<"job_id", "document_id">>, "parse_jobs", <<"id", "document_id">>, Cascade),
         Scoped(<<"stored_object_id">>, "stored_objects", <<"id">>, NoAction)})

page_checkpoints ==
  Table(Stamps \cup {"id", "job_id", "user_id", "course_id", "document_id", "attempt",
        "page_ordinal", "lease_version", "status", "output_ref", "output_sha256",
        "output_size_bytes", "output_schema_version", "source_backend", "source_version"},
        {"error_code"},
        Unique({{"id"}, {"job_id", "attempt", "page_ordinal"}}),
        {To("job_id", "parse_jobs", Cascade), Scoped(<<"job_id", "document_id">>, "parse_jobs", <<"id",
         "document_id">>, Cascade)})

job_events ==
  Table({"id", "job_id", "user_id", "course_id", "document_id", "sequence", "event_type",
        "state_version", "payload", "trace_id", "occurred_at", "expires_at"},
        {},
        Unique({{"id"}, {"job_id", "sequence"}}),
        {To("job_id", "parse_jobs", Cascade), Scoped(<<"job_id", "document_id">>, "parse_jobs", <<"id",
         "document_id">>, Cascade)})

UpParseJobs ==
  <<Create("parse_jobs", parse_jobs),
    AddKey("parse_jobs", Partial({"document_id"}, "nonterminal")),
    Create("job_artifacts", job_artifacts), Create("page_checkpoints", page_checkpoints),
    Create("job_events", job_events),
    AddRef("document_revisions", To("parse_job_id", "parse_jobs", SetNull))>>

\* Mutant: the revisions go on naming the jobs that are dropped
DownParseJobsKeepingNames ==
  <<DropRef("document_revisions", To("parse_job_id", "parse_jobs", SetNull)),
    Drop("job_events"), Drop("page_checkpoints"), Drop("job_artifacts"),
    DropKey("parse_jobs", Partial({"document_id"}, "nonterminal")), Drop("parse_jobs")>>

DownParseJobs ==
  <<Clear("document_revisions", "parse_job_id"),
    DropRef("document_revisions", To("parse_job_id", "parse_jobs", SetNull)),
    Drop("job_events"), Drop("page_checkpoints"), Drop("job_artifacts"),
    DropKey("parse_jobs", Partial({"document_id"}, "nonterminal")), Drop("parse_jobs")>>

(* 20260719_0004_ingestion_revisions.py *)

parse_attempt_results ==
  Table({"id", "job_id", "user_id", "course_id", "document_id", "artifact_id", "attempt",
        "document_sha256", "schema_version", "parser_profile", "source_backend",
        "source_version", "total_page_count", "requested_page_ordinals",
        "covered_page_ordinals", "canonical_sha256", "payload", "created_at"},
        {},
        Unique({{"id"}, {"artifact_id"}, {"job_id", "attempt"}}),
        {To("artifact_id", "job_artifacts", Restricted), To("job_id", "parse_jobs", Cascade),
         Scoped(<<"job_id", "document_id">>, "parse_jobs", <<"id", "document_id">>, Cascade)})

revision_pages ==
  Table({"id", "revision_id", "page_ordinal", "source_kind", "width", "height", "bbox_norm",
        "source_backend", "source_version", "raw_result_ref", "quality"},
        {},
        Unique({{"id"}, {"revision_id", "page_ordinal"}}),
        {To("revision_id", "document_revisions", Cascade)})

revision_blocks ==
  Table({"id", "revision_id", "page_ordinal", "block_id", "block_type", "text", "bbox_norm",
        "reading_order", "confidence", "source_backend", "source_version", "raw_result_ref",
        "section_path", "metadata"},
        {"parent_block_id"},
        Unique({{"id"}, {"revision_id", "block_id"}, {"revision_id", "page_ordinal", "reading_order"}}),
        {To("revision_id", "document_revisions", Cascade), Ref(<<"revision_id", "page_ordinal">>,
         "revision_pages", <<"revision_id", "page_ordinal">>, Cascade)})

revision_assets ==
  Table({"id", "revision_id", "asset_id", "asset_type", "locator_kind", "page_ordinal",
        "bbox_norm", "object_ref", "media_type", "sha256", "source_backend", "source_version",
        "raw_result_ref", "metadata"},
        {"size_bytes"},
        Unique({{"id"}, {"revision_id", "asset_id"}}),
        {To("revision_id", "document_revisions", Cascade), Ref(<<"revision_id", "page_ordinal">>,
         "revision_pages", <<"revision_id", "page_ordinal">>, Cascade)})

revision_chunks ==
  Table({"id", "revision_id", "ordinal", "text", "locator_kind", "page_ordinal", "section_path",
        "source_block_ids", "token_count_estimate", "content_sha256", "chunker_version"},
        {},
        Unique({{"id"}, {"revision_id", "ordinal"}, {"revision_id", "content_sha256", "ordinal"}}),
        {To("revision_id", "document_revisions", Cascade), Ref(<<"revision_id", "page_ordinal">>,
         "revision_pages", <<"revision_id", "page_ordinal">>, Cascade)})

UpIngestion ==
  <<AddColumn("document_revisions", "canonical_sha256", Defaulted),
    AddColumn("document_revisions", "total_page_count", Defaulted),
    AddColumn("document_revisions", "chunker_version", Defaulted),
    AddKey("document_revisions", Partial({"parse_job_id"}, "present")),
    Create("parse_attempt_results", parse_attempt_results),
    Create("revision_pages", revision_pages), Create("revision_blocks", revision_blocks),
    Create("revision_assets", revision_assets), Create("revision_chunks", revision_chunks)>>

DownIngestion ==
  <<Drop("revision_chunks"), Drop("revision_assets"), Drop("revision_blocks"),
    Drop("revision_pages"), Drop("parse_attempt_results"),
    DropKey("document_revisions", Partial({"parse_job_id"}, "present")),
    DropColumn("document_revisions", "chunker_version"),
    DropColumn("document_revisions", "total_page_count"),
    DropColumn("document_revisions", "canonical_sha256")>>

(* 20260719_0005_hybrid_retrieval.py *)

embedding_models ==
  Table({"id", "provider_alias", "model_name", "dimensions", "distance_function",
        "contract_version", "status", "created_at"},
        {},
        Unique({{"id"}, {"id", "dimensions"}, {"provider_alias", "model_name", "dimensions",
        "distance_function", "contract_version"}}),
        {})

chunk_embeddings ==
  Table({"id", "user_id", "course_id", "document_id", "revision_id", "chunk_id",
        "embedding_model_id", "dimensions", "embedding", "created_at"},
        {},
        Unique({{"id"}, {"chunk_id", "embedding_model_id"}}),
        {OfCourse(Cascade), Scoped(<<"document_id">>, "documents", <<"id">>, Cascade),
         Ref(<<"document_id", "revision_id">>, "document_revisions", <<"document_id", "id">>,
         Cascade), Ref(<<"chunk_id", "revision_id">>, "revision_chunks", <<"id",
         "revision_id">>, Cascade), Ref(<<"embedding_model_id", "dimensions">>,
         "embedding_models", <<"id", "dimensions">>, Restricted)})

index_jobs ==
  Table(Stamps \cup {"id", "user_id", "course_id", "document_id", "revision_id",
        "requested_provider", "requested_model", "contract_version", "status", "attempt_count",
        "available_at"},
        {"embedding_model_id", "dimensions", "lease_expires_at", "runner_id", "failure_code",
        "completed_at"},
        Unique({{"id"}, {"revision_id", "requested_provider", "requested_model", "contract_version"}}),
        {OfCourse(Cascade), Scoped(<<"document_id">>, "documents", <<"id">>, Cascade),
         Ref(<<"document_id", "revision_id">>, "document_revisions", <<"document_id", "id">>,
         Cascade), Ref(<<"embedding_model_id", "dimensions">>, "embedding_models", <<"id",
         "dimensions">>, Restricted)})

lexical_manifests ==
  Table({"id", "user_id", "course_id", "version_id", "storage_path", "manifest_hash",
        "document_set_hash", "tokenizer_version", "dictionary_hash", "chunk_count",
        "document_ids", "revision_ids", "status", "created_at"},
        {"activated_at"},
        Unique({{"id"}, {"course_id", "id"}, {"course_id", "version_id"}, {"storage_path"}}),
        {OfCourse(Cascade)})

retrieval_traces ==
  Table({"id", "user_id", "course_id", "query_sha256", "mode", "scope_document_ids", "rrf_k",
        "dense_candidates", "lexical_candidates", "fused_candidates", "rerank_candidates",
        "timings_ms", "reranker_applied", "created_at"},
        {"embedding_model_id", "dimensions", "lexical_manifest_id", "reranker_fallback_code"},
        Unique({{"id"}}),
        {OfCourse(Cascade), Ref(<<"embedding_model_id", "dimensions">>, "embedding_models", <<"id",
         "dimensions">>, Restricted), Ref(<<"course_id", "lexical_manifest_id">>,
         "lexical_manifests", <<"course_id", "id">>, Deferred)})

UpRetrieval ==
  <<AddKey("revision_chunks", Key({"id", "revision_id"})),
    Create("embedding_models", embedding_models),
    Create("chunk_embeddings", chunk_embeddings), Create("index_jobs", index_jobs),
    Create("lexical_manifests", lexical_manifests),
    AddRef("courses", Ref(<<"id", "active_lexical_index_id">>, "lexical_manifests", <<"course_id",
        "id">>, Deferred)),
    Create("retrieval_traces", retrieval_traces)>>

DownRetrieval ==
  <<Drop("retrieval_traces"),
    DropRef("courses", Ref(<<"id", "active_lexical_index_id">>, "lexical_manifests", <<"course_id",
        "id">>, Deferred)),
    Drop("lexical_manifests"), Drop("index_jobs"), Drop("chunk_embeddings"),
    Drop("embedding_models"), DropKey("revision_chunks", Key({"id", "revision_id"}))>>

(* 20260719_0006_trusted_answers_notes.py *)

query_runs ==
  Table(Stamps \cup {"id", "user_id", "course_id", "question", "question_sha256",
        "requested_document_ids", "status", "answer_schema_version", "answer_markdown",
        "claims", "citations", "usage", "trace_id", "event_sequence"},
        {"refusal_code", "refusal_message", "failure_code", "provider_alias", "provider_model",
        "provider_response_id", "cost_microusd", "completed_at"},
        Unique({{"id"}, {"id", "course_id", "user_id"}}),
        {OfCourse(Cascade)})

query_events ==
  Table({"id", "query_id", "user_id", "course_id", "sequence", "event_type", "payload",
        "trace_id", "occurred_at", "expires_at"},
        {},
        Unique({{"id"}, {"query_id", "sequence"}}),
        {Scoped(<<"query_id">>, "query_runs", <<"id">>, Cascade)})

retrieval_snapshots ==
  Table({"id", "query_id", "user_id", "course_id", "active_revision_ids", "document_epochs",
        "evidence_payload", "candidate_count", "created_at"},
        {"retrieval_trace_id", "active_lexical_index_id"},
        Unique({{"id"}, {"query_id"}, {"id", "query_id"}}),
        {Scoped(<<"query_id">>, "query_runs", <<"id">>, Cascade), To("retrieval_trace_id",
         "retrieval_traces", SetNull)})

answer_dependencies ==
  Table({"id", "query_id", "retrieval_snapshot_id", "user_id", "course_id", "evidence_id",
        "document_id", "revision_id", "chunk_id", "document_name", "document_deletion_epoch",
        "content_sha256", "locator", "quote", "bounding_boxes", "provenance", "available",
        "created_at"},
        {"invalidated_reason", "invalidated_at"},
        Unique({{"id"}, {"query_id", "evidence_id"}}),
        {Scoped(<<"query_id">>, "query_runs", <<"id">>, Cascade), Ref(<<"retrieval_snapshot_id",
         "query_id">>, "retrieval_snapshots", <<"id", "query_id">>, Cascade)})

notes ==
  Table(Stamps \cup {"id", "user_id", "course_id", "section_path", "title", "body_markdown",
        "version", "generation", "generated_by_model", "status"},
        {"failure_code"},
        Unique({{"id"}, {"id", "course_id", "user_id"}}),
        {OfCourse(Cascade)})

\* Mutant: sources name their note by its id alone
NoteSourcesById ==
  Table({"id", "note_id", "user_id", "course_id", "evidence_id", "document_id", "revision_id",
        "chunk_id", "document_name", "document_deletion_epoch", "content_sha256", "locator",
        "quote", "bounding_boxes", "provenance", "available", "created_at"},
        {"unavailable_reason", "invalidated_at"},
        Unique({{"id"}, {"note_id", "evidence_id"}}),
        {To("note_id", "notes", Cascade)})

note_sources ==
  Table({"id", "note_id", "user_id", "course_id", "evidence_id", "document_id", "revision_id",
        "chunk_id", "document_name", "document_deletion_epoch", "content_sha256", "locator",
        "quote", "bounding_boxes", "provenance", "available", "created_at"},
        {"unavailable_reason", "invalidated_at"},
        Unique({{"id"}, {"note_id", "evidence_id"}}),
        {Scoped(<<"note_id">>, "notes", <<"id">>, Cascade)})

UpAnswersAndNotes ==
  <<Create("query_runs", query_runs), Create("query_events", query_events),
    Create("retrieval_snapshots", retrieval_snapshots),
    Create("answer_dependencies", answer_dependencies), Create("notes", notes),
    Create("note_sources", note_sources)>>

DownAnswersAndNotes ==
  <<Drop("note_sources"), Drop("notes"), Drop("answer_dependencies"),
    Drop("retrieval_snapshots"), Drop("query_events"), Drop("query_runs")>>

(* 20260721_0007_query_conversations.py *)

conversations ==
  Table(Stamps \cup {"id", "user_id", "course_id", "title", "auto_title_pending"},
        {},
        Unique({{"id"}, {"id", "course_id", "user_id"}}),
        {OfCourse(Cascade)})

UpConversations ==
  <<Create("conversations", conversations),
    AddColumn("query_runs", "conversation_id", Optional),
    Fill("query_runs", "conversation_id"), Require("query_runs", "conversation_id"),
    AddRef("query_runs", Scoped(<<"conversation_id">>, "conversations", <<"id">>, Cascade))>>

DownConversations ==
  <<DropRef("query_runs", Scoped(<<"conversation_id">>, "conversations", <<"id">>, Cascade)),
    DropColumn("query_runs", "conversation_id"), Drop("conversations")>>

(* 7102eb21ee91_note_workflow_expand.py *)

note_command_dedup ==
  Table({"id", "user_id", "course_id", "command_scope", "key_hash", "request_hash", "result_type",
        "result_id", "response_status", "expires_at", "created_at"},
        {},
        Unique({{"id"}, {"user_id", "course_id", "command_scope", "key_hash"}}),
        {OfCourse(Cascade)})

note_generation_batches ==
  Table(Stamps \cup {"id", "user_id", "course_id", "mode", "status", "state_version",
        "event_sequence", "cancel_epoch"},
        {"retry_of_batch_id", "cancel_requested_at", "started_at", "completed_at"},
        Unique({{"id"}, {"id", "course_id", "user_id"}}),
        {OfCourse(Cascade), Scoped(<<"retry_of_batch_id">>, "note_generation_batches", <<"id">>,
         Restricted)})

note_content_versions ==
  Table({"note_id", "version", "user_id", "course_id", "title", "section_path", "body_markdown",
        "content_ast", "ast_schema_version", "parser_version", "body_sha256",
        "source_set_sha256", "coverage_manifest_sha256", "note_version_sha256", "created_by",
        "created_at"},
        {},
        Unique({{"note_id", "version"}, {"note_id", "version", "course_id", "user_id"}}),
        {Scoped(<<"note_id">>, "notes", <<"id">>, Cascade)})

note_generation_events ==
  Table({"id", "batch_id", "user_id", "course_id", "sequence", "event_type", "state_version",
        "payload", "trace_id", "occurred_at", "expires_at"},
        {},
        Unique({{"id"}, {"batch_id", "course_id", "user_id", "sequence"}, {"id", "batch_id",
        "course_id", "user_id"}}),
        {Scoped(<<"batch_id">>, "note_generation_batches", <<"id">>, Cascade)})

note_generation_items ==
  Table(Stamps \cup {"id", "batch_id", "user_id", "course_id", "ordinal", "status",
        "state_version", "attempt", "max_attempts", "available_at", "lease_version",
        "cancel_epoch"},
        {"phase", "lease_owner_id", "lease_token_hash", "lease_expires_at", "heartbeat_at",
        "failure_code", "failure_summary", "retryable", "started_at", "completed_at"},
        Unique({{"id"}, {"batch_id", "course_id", "user_id", "ordinal"}, {"id", "batch_id", "course_id",
        "user_id"}}),
        {Scoped(<<"batch_id">>, "note_generation_batches", <<"id">>, Cascade)})

note_generation_attempts ==
  Table({"id", "item_id", "batch_id", "user_id", "course_id", "attempt", "runner_id",
        "contract_version", "usage", "started_at", "created_at"},
        {"provider_alias", "provider_model", "cost_microusd", "failure_code", "failure_summary",
        "completed_at"},
        Unique({{"id"}, {"id", "batch_id", "course_id", "user_id"}, {"item_id", "attempt", "batch_id",
        "course_id", "user_id"}}),
        {Scoped(<<"item_id", "batch_id">>, "note_generation_items", <<"id", "batch_id">>, Cascade)})

note_generation_inputs ==
  Table({"id", "batch_id", "user_id", "course_id", "ordinal", "document_id", "revision_id",
        "deletion_epoch", "document_name", "media_type", "content_sha256",
        "index_manifest_at_submit", "created_at"},
        {},
        Unique({{"id"}, {"batch_id", "course_id", "user_id", "document_id"}, {"batch_id", "course_id",
        "user_id", "ordinal"}, {"id", "batch_id", "course_id", "user_id"}}),
        {Scoped(<<"batch_id">>, "note_generation_batches", <<"id">>, Cascade), Scoped(<<"document_id">>,
         "documents", <<"id">>, Restricted)})

note_generation_outputs ==
  Table({"id", "batch_id", "item_id", "user_id", "course_id", "note_id", "created_at"},
        {},
        Unique({{"id"}, {"id", "batch_id", "course_id", "user_id"}, {"item_id", "batch_id", "course_id",
        "user_id"}, {"note_id", "course_id", "user_id"}}),
        {Scoped(<<"item_id", "batch_id">>, "note_generation_items", <<"id", "batch_id">>, Cascade),
         Scoped(<<"note_id">>, "notes", <<"id">>, Restricted)})

note_version_coverage ==
  Table({"note_id", "version", "user_id", "course_id", "policy_version", "status",
        "manifest_sha256", "basis", "created_at"},
        {"generated_from_version"},
        Unique({{"note_id", "version", "user_id", "course_id"}}),
        {Scoped(<<"note_id", "generated_from_version">>, "note_content_versions", <<"note_id",
         "version">>, Restricted), Scoped(<<"note_id", "version">>, "note_content_versions",
         <<"note_id", "version">>, Cascade)})

note_version_source_snapshots ==
  Table({"source_snapshot_id", "note_id", "version", "user_id", "course_id", "ordinal",
        "evidence_id", "document_id", "revision_id", "chunk_id", "document_name",
        "document_deletion_epoch", "content_sha256", "locator", "payload_sha256", "created_at"},
        {},
        Unique({{"source_snapshot_id"}, {"note_id", "version", "course_id", "user_id", "ordinal"},
        {"source_snapshot_id", "note_id", "version", "course_id", "user_id"}}),
        {Scoped(<<"note_id", "version">>, "note_content_versions", <<"note_id", "version">>, Cascade)})

note_coverage_units ==
  Table({"id", "input_id", "batch_id", "user_id", "course_id", "ordinal", "unit_type", "locator",
        "content_sha256", "is_substantive", "created_at"},
        {},
        Unique({{"id"}, {"id", "input_id", "batch_id", "course_id", "user_id"}, {"input_id", "batch_id",
        "course_id", "user_id", "ordinal"}}),
        {Scoped(<<"input_id", "batch_id">>, "note_generation_inputs", <<"id", "batch_id">>, Cascade)})

note_item_inputs ==
  Table({"id", "item_id", "input_id", "batch_id", "user_id", "course_id", "ordinal",
        "created_at"},
        {},
        Unique({{"id"}, {"id", "batch_id", "course_id", "user_id"}, {"item_id", "input_id", "batch_id",
        "course_id", "user_id"}}),
        {Scoped(<<"input_id", "batch_id">>, "note_generation_inputs", <<"id", "batch_id">>, Cascade),
         Scoped(<<"item_id", "batch_id">>, "note_generation_items", <<"id", "batch_id">>,
         Cascade)})

note_source_state_overlays ==
  Table({"id", "source_snapshot_id", "note_id", "version", "user_id", "course_id",
        "overlay_sequence", "display_epoch", "access_epoch", "display_state", "access_state",
        "reason", "cause_type", "cause_id", "cause_epoch", "created_at"},
        {},
        Unique({{"id"}, {"source_snapshot_id", "note_id", "version", "course_id", "user_id",
        "cause_type", "cause_id", "cause_epoch"}, {"source_snapshot_id", "note_id", "version",
        "course_id", "user_id", "overlay_sequence"}}),
        {Scoped(<<"source_snapshot_id", "note_id", "version">>, "note_version_source_snapshots",
         <<"source_snapshot_id", "note_id", "version">>, Cascade)})

note_version_coverage_units ==
  Table({"id", "note_id", "version", "user_id", "course_id", "input_id", "ordinal", "unit_type",
        "locator", "content_sha256", "is_substantive", "status", "ast_node_ids",
        "source_snapshot_ids", "created_at"},
        {"reason_code"},
        Unique({{"id"}, {"note_id", "version", "course_id", "user_id", "id"}, {"note_id", "version",
        "course_id", "user_id", "ordinal"}}),
        {Scoped(<<"note_id", "version">>, "note_version_coverage", <<"note_id", "version">>, Cascade)})

note_version_source_links ==
  Table({"id", "note_id", "version", "user_id", "course_id", "source_snapshot_id", "citation_id",
        "ordinal", "ast_node_ids", "created_at"},
        {},
        Unique({{"id"}, {"note_id", "version", "course_id", "user_id", "citation_id"}, {"note_id",
        "version", "course_id", "user_id", "ordinal"}}),
        {Scoped(<<"note_id", "version">>, "note_content_versions", <<"note_id", "version">>, Cascade),
         Scoped(<<"source_snapshot_id", "note_id", "version">>, "note_version_source_snapshots",
         <<"source_snapshot_id", "note_id", "version">>, Cascade)})

note_version_source_payloads ==
  Table({"source_snapshot_id", "note_id", "version", "user_id", "course_id", "created_at"},
        {"quote", "bounding_boxes", "provenance", "redacted_at", "redaction_reason"},
        Unique({{"source_snapshot_id", "note_id", "version", "user_id", "course_id"}}),
        {Scoped(<<"source_snapshot_id", "note_id", "version">>, "note_version_source_snapshots",
         <<"source_snapshot_id", "note_id", "version">>, Cascade)})

note_coverage_unit_results ==
  Table({"id", "item_id", "attempt", "input_id", "unit_id", "batch_id", "user_id", "course_id",
        "status", "ast_node_ids", "created_at"},
        {"reason_code", "evidence_set_sha256"},
        Unique({{"id"}, {"id", "batch_id", "course_id", "user_id"}, {"item_id", "attempt", "input_id",
        "unit_id", "batch_id", "course_id", "user_id"}}),
        {Scoped(<<"item_id", "batch_id">>, "note_generation_items", <<"id", "batch_id">>, Cascade),
         Scoped(<<"unit_id", "input_id", "batch_id">>, "note_coverage_units", <<"id",
         "input_id", "batch_id">>, Cascade), Scoped(<<"item_id", "input_id", "batch_id">>,
         "note_item_inputs", <<"item_id", "input_id", "batch_id">>, Cascade),
         Scoped(<<"item_id", "attempt", "batch_id">>, "note_generation_attempts", <<"item_id",
         "attempt", "batch_id">>, Cascade)})

UpNoteWorkflow ==
  <<Create("note_command_dedup", note_command_dedup),
    Create("note_generation_batches", note_generation_batches),
    Create("note_content_versions", note_content_versions),
    Create("note_generation_events", note_generation_events),
    Create("note_generation_items", note_generation_items),
    Create("note_generation_attempts", note_generation_attempts),
    Create("note_generation_inputs", note_generation_inputs),
    Create("note_generation_outputs", note_generation_outputs),
    Create("note_version_coverage", note_version_coverage),
    Create("note_version_source_snapshots", note_version_source_snapshots),
    Create("note_coverage_units", note_coverage_units),
    Create("note_item_inputs", note_item_inputs),
    Create("note_source_state_overlays", note_source_state_overlays),
    Create("note_version_coverage_units", note_version_coverage_units),
    Create("note_version_source_links", note_version_source_links),
    Create("note_version_source_payloads", note_version_source_payloads),
    Create("note_coverage_unit_results", note_coverage_unit_results)>>

DownNoteWorkflow ==
  <<Drop("note_coverage_unit_results"), Drop("note_version_source_payloads"),
    Drop("note_version_source_links"), Drop("note_version_coverage_units"),
    Drop("note_source_state_overlays"), Drop("note_item_inputs"),
    Drop("note_coverage_units"), Drop("note_version_source_snapshots"),
    Drop("note_version_coverage"), Drop("note_generation_outputs"),
    Drop("note_generation_inputs"), Drop("note_generation_attempts"),
    Drop("note_generation_items"), Drop("note_generation_events"),
    Drop("note_content_versions"), Drop("note_generation_batches"),
    Drop("note_command_dedup")>>

(* 20260722_0008_note_batch_commands.py *)

UpNoteCommands ==
  <<AddColumn("note_generation_batches", "command_kind", Defaulted),
    AddColumn("note_generation_batches", "title", Optional),
    AddColumn("note_generation_batches", "title_prefix", Optional),
    AddColumn("note_generation_batches", "section_path", Defaulted),
    AddColumn("note_generation_batches", "target_note_id", Optional),
    AddColumn("note_generation_batches", "target_note_version", Optional),
    AddColumn("note_generation_batches", "target_note_version_sha256", Optional),
    AddCheck("note_generation_batches", "retry_parent"),
    AddRef("note_generation_batches", Scoped(<<"target_note_id", "target_note_version">>,
        "note_content_versions", <<"note_id", "version">>, Restricted)),
    AddColumn("note_generation_outputs", "note_version", Optional),
    Fill("note_generation_outputs", "note_version"),
    Require("note_generation_outputs", "note_version"),
    DropKey("note_generation_outputs", Key({"note_id", "course_id", "user_id"})),
    AddRef("note_generation_outputs", Scoped(<<"note_id", "note_version">>, "note_content_versions",
        <<"note_id", "version">>, Restricted)),
    AddKey("note_generation_outputs", Key({"note_id", "note_version", "course_id", "user_id"}))>>

DownNoteCommands ==
  <<DropKey("note_generation_outputs", Key({"note_id", "note_version", "course_id", "user_id"})),
    DropRef("note_generation_outputs", Scoped(<<"note_id", "note_version">>,
        "note_content_versions", <<"note_id", "version">>, Restricted)),
    KeepNewest("note_generation_outputs"),
    AddKey("note_generation_outputs", Key({"note_id", "course_id", "user_id"})),
    DropColumn("note_generation_outputs", "note_version"),
    DropRef("note_generation_batches", Scoped(<<"target_note_id", "target_note_version">>,
        "note_content_versions", <<"note_id", "version">>, Restricted)),
    DropColumn("note_generation_batches", "target_note_version_sha256"),
    DropColumn("note_generation_batches", "target_note_version"),
    DropColumn("note_generation_batches", "target_note_id"),
    DropColumn("note_generation_batches", "section_path"),
    DropColumn("note_generation_batches", "title_prefix"),
    DropColumn("note_generation_batches", "title"),
    DropColumn("note_generation_batches", "command_kind")>>

(* 20260723_0009_accounts_sessions.py *)

accounts ==
  Table(Stamps \cup {"id", "user_id", "email", "display_name", "role", "password_hash"},
        {"disabled_at"},
        Unique({{"id"}, {"email"}, {"user_id"}}),
        {To("user_id", "users", Cascade)})

account_sessions ==
  Table({"id", "account_id", "token_hash", "expires_at", "created_at"},
        {"revoked_at"},
        Unique({{"id"}, {"token_hash"}}),
        {To("account_id", "accounts", Cascade)})

UpAccounts ==
  <<Create("accounts", accounts), Create("account_sessions", account_sessions)>>

DownAccounts ==
  <<Drop("account_sessions"), Drop("accounts")>>

(* 20260723_0010_note_batch_style.py *)

UpNoteStyle ==
  <<AddColumn("note_generation_batches", "style", Defaulted)>>

DownNoteStyle ==
  <<DropColumn("note_generation_batches", "style")>>

(* 20260724_0011_invitation_account_controls.py *)

registration_invitations ==
  Table({"id", "code_hash", "created_by_account_id", "expires_at", "created_at"},
        {"used_by_account_id", "used_at", "revoked_at"},
        Unique({{"id"}, {"code_hash"}, {"used_by_account_id"}}),
        {To("created_by_account_id", "accounts", Restricted), To("used_by_account_id", "accounts",
         Restricted)})

UpInvitations ==
  <<AddColumn("accounts", "status", Defaulted),
    AddColumn("accounts", "admin_note", Optional), Fill("accounts", "status"),
    AddCheck("accounts", "status_disabled"),
    Create("registration_invitations", registration_invitations)>>

DownInvitations ==
  <<Drop("registration_invitations"), DropColumn("accounts", "admin_note"),
    DropColumn("accounts", "status")>>

(* 20260724_0012_document_review.py *)

\* Mutant: the new column is never made NOT NULL
UpDocumentReviewOptional ==
  <<AddColumn("documents", "review_status", Optional),
    AddColumn("documents", "review_note", Optional),
    AddColumn("documents", "reviewed_by_account_id", Optional),
    AddColumn("documents", "reviewed_at", Optional), Fill("documents", "review_status"),
    AddRef("documents", To("reviewed_by_account_id", "accounts", Restricted))>>

UpDocumentReview ==
  <<AddColumn("documents", "review_status", Optional),
    AddColumn("documents", "review_note", Optional),
    AddColumn("documents", "reviewed_by_account_id", Optional),
    AddColumn("documents", "reviewed_at", Optional), Fill("documents", "review_status"),
    Require("documents", "review_status"),
    AddRef("documents", To("reviewed_by_account_id", "accounts", Restricted))>>

DownDocumentReview ==
  <<DropRef("documents", To("reviewed_by_account_id", "accounts", Restricted)),
    DropColumn("documents", "reviewed_at"),
    DropColumn("documents", "reviewed_by_account_id"),
    DropColumn("documents", "review_note"), DropColumn("documents", "review_status")>>

(* The chain of revisions: script r leads from revision r-1 to revision r. *)
Upgrades ==
  <<UpCoreSchema, UpUploadWorkflow, UpParseJobs, UpIngestion, UpRetrieval,
    UpAnswersAndNotes, UpConversations, UpNoteWorkflow, UpNoteCommands, UpAccounts,
    UpNoteStyle, UpInvitations, UpDocumentReview>>
Downgrades ==
  <<DownCoreSchema, DownUploadWorkflow, DownParseJobs, DownIngestion, DownRetrieval,
    DownAnswersAndNotes, DownConversations, DownNoteWorkflow, DownNoteCommands,
    DownAccounts, DownNoteStyle, DownInvitations, DownDocumentReview>>
HeadRevision == Len(Upgrades)
=============================================================================
