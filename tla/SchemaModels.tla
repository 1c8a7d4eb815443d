---------------------------- MODULE SchemaModels ----------------------------
(* What the ORM classes of study_agent/infrastructure/db/models declare, class
   by class: the schema the program expects to find at its head revision. *)
EXTENDS Schema

(* The columns of TimestampMixin. *)
Stamps == {"created_at", "updated_at"}

UserModel ==
  Table(Stamps \cup {"id", "subject", "authentication_method"},
        {},
        Unique({{"id"}, {"authentication_method", "subject"}}),
        {})

CourseModel ==
  Table(Stamps \cup {"id", "user_id", "title", "lifecycle", "row_version"},
        {"active_lexical_index_id", "deleted_at"},
        Unique({{"id"}, {"id", "user_id"}}),
        {To("user_id", "users", Cascade), Ref(<<"id", "active_lexical_index_id">>, "lexical_manifests",
         <<"course_id", "id">>, Deferred)})

StoredObjectModel ==
  Table({"id", "user_id", "object_key", "purpose", "sha256", "size_bytes", "media_type",
        "created_at"},
        {"course_id", "retention_until", "deleted_at"},
        Unique({{"id"}, {"object_key"}, {"id", "course_id", "user_id"}}),
        {To("user_id", "users", Cascade), To("course_id", "courses", Cascade), OfCourse(NoAction)})

UploadSessionModel ==
  Table(Stamps \cup {"id", "user_id", "course_id", "object_key", "expected_sha256",
        "expected_size", "media_type", "status", "expires_at"},
        {"stored_object_id", "document_id", "completed_at"},
        Unique({{"id"}}),
        {To("user_id", "users", Cascade), To("course_id", "courses", Cascade), To("stored_object_id",
         "stored_objects", SetNull), To("document_id", "documents", Cascade),
         OfCourse(NoAction), Scoped(<<"stored_object_id">>, "stored_objects", <<"id">>,
         NoAction)})

DocumentModel ==
  Table(Stamps \cup {"id", "user_id", "course_id", "stored_object_id", "filename", "media_type",
        "corpus_role", "verified_sha256", "status", "review_status", "deletion_epoch"},
        {"review_note", "reviewed_by_account_id", "reviewed_at", "preview_revision_id",
        "active_revision_id", "deleted_at"},
        Unique({{"id"}, {"id", "course_id", "user_id"}}) \cup {Partial({"course_id", "verified_sha256",
        "corpus_role"}, "visible")},
        {To("user_id", "users", Cascade), To("course_id", "courses", Cascade), To("stored_object_id",
         "stored_objects", Restricted), To("reviewed_by_account_id", "accounts", Restricted),
         Ref(<<"id", "preview_revision_id">>, "document_revisions", <<"document_id", "id">>,
         NoAction), Ref(<<"id", "active_revision_id">>, "document_revisions", <<"document_id",
         "id">>, NoAction), OfCourse(NoAction), Scoped(<<"stored_object_id">>, "stored_objects",
         <<"id">>, NoAction)})

DocumentRevisionModel ==
  Table({"id", "document_id", "ordinal", "manifest", "canonical_sha256", "total_page_count",
        "parser_profile", "parser_schema_version", "chunker_version", "quality_status",
        "created_at"},
        {"parse_job_id"},
        Unique({{"id"}, {"document_id", "ordinal"}, {"document_id", "id"}}) \cup
        {Partial({"parse_job_id"}, "present")},
        {To("document_id", "documents", Cascade), To("parse_job_id", "parse_jobs", SetNull)})

IdempotencyRecordModel ==
  Table({"id", "actor_subject", "actor_authentication_method", "operation", "idempotency_key",
        "request_hash", "response_status", "response_body", "created_at", "expires_at"},
        {},
        Unique({{"id"}, {"actor_subject", "actor_authentication_method", "operation",
        "idempotency_key"}}),
        {})

DeletionJobModel ==
  Table(Stamps \cup {"id", "user_id", "target_type", "target_id", "deletion_epoch", "status",
        "attempt_count", "available_at"},
        {"completed_at", "last_error_code"},
        Unique({{"id"}, {"target_type", "target_id", "deletion_epoch"}}),
        {To("user_id", "users", Cascade)})

OutboxEventModel ==
  Table({"id", "aggregate_type", "aggregate_id", "event_type", "payload", "status",
        "attempt_count", "available_at", "created_at"},
        {"published_at", "last_error_code", "last_error_detail"},
        Unique({{"id"}}),
        {})

ParseJobModel ==
  Table(Stamps \cup {"id", "user_id", "course_id", "document_id", "stored_object_id", "job_type",
        "status", "state_version", "attempt", "max_attempts", "parser_profile",
        "parser_schema_version", "media_type", "document_sha256", "document_deletion_epoch",
        "input_size_bytes", "requires_ocr", "requires_rendering", "requested_pages",
        "available_at", "lease_version", "progress", "event_sequence", "failed_pages"},
        {"estimated_pages", "lease_owner_id", "lease_token_hash", "lease_expires_at", "heartbeat_at",
        "result_manifest_ref", "result_sha256", "result_page_count", "failure_code",
        "failure_summary", "retryable"},
        Unique({{"id"}, {"id", "document_id", "course_id", "user_id"}}) \cup {Partial({"document_id"},
        "nonterminal")},
        {To("user_id", "users", Cascade), To("course_id", "courses", Cascade), To("document_id",
         "documents", Cascade), To("stored_object_id", "stored_objects", Restricted),
         Scoped(<<"document_id">>, "documents", <<"id">>, Cascade),
         Scoped(<<"stored_object_id">>, "stored_objects", <<"id">>, NoAction)})

JobArtifactModel ==
  Table(Stamps \cup {"id", "job_id", "user_id", "course_id", "document_id", "stored_object_id",
        "attempt", "deletion_epoch", "artifact_name", "artifact_schema_version", "sha256",
        "size_bytes", "media_type", "status"},
        {},
        Unique({{"id"}, {"job_id", "attempt", "artifact_name"}}),
        {To("job_id", "parse_jobs", Cascade), To("stored_object_id", "stored_objects", Restricted),
         Scoped(<<"job_id", "document_id">>, "parse_jobs", <<"id", "document_id">>, Cascade),
         Scoped(<<"stored_object_id">>, "stored_objects", <<"id">>, NoAction)})

PageCheckpointModel ==
  Table(Stamps \cup {"id", "job_id", "user_id", "course_id", "document_id", "attempt",
        "page_ordinal", "lease_version", "status", "output_ref", "output_sha256",
        "output_size_bytes", "output_schema_version", "source_backend", "source_version"},
        {"error_code"},
        Unique({{"id"}, {"job_id", "attempt", "page_ordinal"}}),
        {To("job_id", "parse_jobs", Cascade), Scoped(<<"job_id", "document_id">>, "parse_jobs", <<"id",
         "document_id">>, Cascade)})

JobEventModel ==
  Table({"id", "job_id", "user_id", "course_id", "document_id", "sequence", "event_type",
        "state_version", "payload", "trace_id", "occurred_at", "expires_at"},
        {},
        Unique({{"id"}, {"job_id", "sequence"}}),
        {To("job_id", "parse_jobs", Cascade), Scoped(<<"job_id", "document_id">>, "parse_jobs", <<"id",
         "document_id">>, Cascade)})

ParseAttemptResultModel ==
  Table({"id", "job_id", "user_id", "course_id", "document_id", "artifact_id", "attempt",
        "document_sha256", "schema_version", "parser_profile", "source_backend",
        "source_version", "total_page_count", "requested_page_ordinals",
        "covered_page_ordinals", "canonical_sha256", "payload", "created_at"},
        {},
        Unique({{"id"}, {"job_id", "attempt"}, {"artifact_id"}}),
        {To("job_id", "parse_jobs", Cascade), To("artifact_id", "job_artifacts", Restricted),
         Scoped(<<"job_id", "document_id">>, "parse_jobs", <<"id", "document_id">>, Cascade)})

RevisionPageModel ==
  Table({"id", "revision_id", "page_ordinal", "source_kind", "width", "height", "bbox_norm",
        "source_backend", "source_version", "raw_result_ref", "quality"},
        {},
        Unique({{"id"}, {"revision_id", "page_ordinal"}}),
        {To("revision_id", "document_revisions", Cascade)})

RevisionBlockModel ==
  Table({"id", "revision_id", "page_ordinal", "block_id", "block_type", "text", "bbox_norm",
        "reading_order", "confidence", "source_backend", "source_version", "raw_result_ref",
        "section_path", "metadata"},
        {"parent_block_id"},
        Unique({{"id"}, {"revision_id", "block_id"}, {"revision_id", "page_ordinal", "reading_order"}}),
        {To("revision_id", "document_revisions", Cascade), Ref(<<"revision_id", "page_ordinal">>,
         "revision_pages", <<"revision_id", "page_ordinal">>, Cascade)})

RevisionAssetModel ==
  Table({"id", "revision_id", "asset_id", "asset_type", "locator_kind", "page_ordinal",
        "bbox_norm", "object_ref", "media_type", "sha256", "source_backend", "source_version",
        "raw_result_ref", "metadata"},
        {"size_bytes"},
        Unique({{"id"}, {"revision_id", "asset_id"}}),
        {To("revision_id", "document_revisions", Cascade), Ref(<<"revision_id", "page_ordinal">>,
         "revision_pages", <<"revision_id", "page_ordinal">>, Cascade)})

RevisionChunkModel ==
  Table({"id", "revision_id", "ordinal", "text", "locator_kind", "page_ordinal", "section_path",
        "source_block_ids", "token_count_estimate", "content_sha256", "chunker_version"},
        {},
        Unique({{"id"}, {"revision_id", "ordinal"}, {"id", "revision_id"}, {"revision_id",
        "content_sha256", "ordinal"}}),
        {To("revision_id", "document_revisions", Cascade), Ref(<<"revision_id", "page_ordinal">>,
         "revision_pages", <<"revision_id", "page_ordinal">>, Cascade)})

EmbeddingModelModel ==
  Table({"id", "provider_alias", "model_name", "dimensions", "distance_function",
        "contract_version", "status", "created_at"},
        {},
        Unique({{"id"}, {"id", "dimensions"}, {"provider_alias", "model_name", "dimensions",
        "distance_function", "contract_version"}}),
        {})

ChunkEmbeddingModel ==
  Table({"id", "user_id", "course_id", "document_id", "revision_id", "chunk_id",
        "embedding_model_id", "dimensions", "embedding", "created_at"},
        {},
        Unique({{"id"}, {"chunk_id", "embedding_model_id"}}),
        {OfCourse(Cascade), Scoped(<<"document_id">>, "documents", <<"id">>, Cascade),
         Ref(<<"document_id", "revision_id">>, "document_revisions", <<"document_id", "id">>,
         Cascade), Ref(<<"chunk_id", "revision_id">>, "revision_chunks", <<"id",
         "revision_id">>, Cascade), Ref(<<"embedding_model_id", "dimensions">>,
         "embedding_models", <<"id", "dimensions">>, Restricted)})

IndexJobModel ==
  Table(Stamps \cup {"id", "user_id", "course_id", "document_id", "revision_id",
        "requested_provider", "requested_model", "contract_version", "status", "attempt_count",
        "available_at"},
        {"embedding_model_id", "dimensions", "lease_expires_at", "runner_id", "failure_code",
        "completed_at"},
        Unique({{"id"}, {"revision_id", "requested_provider", "requested_model", "contract_version"}}),
        {OfCourse(Cascade), Scoped(<<"document_id">>, "documents", <<"id">>, Cascade),
         Ref(<<"document_id", "revision_id">>, "document_revisions", <<"document_id", "id">>,
         Cascade), Ref(<<"embedding_model_id", "dimensions">>, "embedding_models", <<"id",
         "dimensions">>, Restricted)})

LexicalManifestModel ==
  Table({"id", "user_id", "course_id", "version_id", "storage_path", "manifest_hash",
        "document_set_hash", "tokenizer_version", "dictionary_hash", "chunk_count",
        "document_ids", "revision_ids", "status", "created_at"},
        {"activated_at"},
        Unique({{"id"}, {"course_id", "id"}, {"course_id", "version_id"}, {"storage_path"}}),
        {OfCourse(Cascade)})

RetrievalTraceModel ==
  Table({"id", "user_id", "course_id", "query_sha256", "mode", "scope_document_ids", "rrf_k",
        "dense_candidates", "lexical_candidates", "fused_candidates", "rerank_candidates",
        "timings_ms", "reranker_applied", "created_at"},
        {"embedding_model_id", "dimensions", "lexical_manifest_id", "reranker_fallback_code"},
        Unique({{"id"}}),
        {OfCourse(Cascade), Ref(<<"embedding_model_id", "dimensions">>, "embedding_models", <<"id",
         "dimensions">>, Restricted), Ref(<<"course_id", "lexical_manifest_id">>,
         "lexical_manifests", <<"course_id", "id">>, Deferred)})

ConversationModel ==
  Table(Stamps \cup {"id", "user_id", "course_id", "title", "auto_title_pending"},
        {},
        Unique({{"id"}, {"id", "course_id", "user_id"}}),
        {OfCourse(Cascade)})

QueryRunModel ==
  Table(Stamps \cup {"id", "user_id", "course_id", "conversation_id", "question",
        "question_sha256", "requested_document_ids", "status", "answer_schema_version",
        "answer_markdown", "claims", "citations", "usage", "trace_id", "event_sequence"},
        {"refusal_code", "refusal_message", "failure_code", "provider_alias", "provider_model",
        "provider_response_id", "cost_microusd", "completed_at"},
        Unique({{"id"}, {"id", "course_id", "user_id"}}),
        {OfCourse(Cascade), Scoped(<<"conversation_id">>, "conversations", <<"id">>, Cascade)})

QueryEventModel ==
  Table({"id", "query_id", "user_id", "course_id", "sequence", "event_type", "payload",
        "trace_id", "occurred_at", "expires_at"},
        {},
        Unique({{"id"}, {"query_id", "sequence"}}),
        {Scoped(<<"query_id">>, "query_runs", <<"id">>, Cascade)})

RetrievalSnapshotModel ==
  Table({"id", "query_id", "user_id", "course_id", "active_revision_ids", "document_epochs",
        "evidence_payload", "candidate_count", "created_at"},
        {"retrieval_trace_id", "active_lexical_index_id"},
        Unique({{"id"}, {"query_id"}, {"id", "query_id"}}),
        {To("retrieval_trace_id", "retrieval_traces", SetNull), Scoped(<<"query_id">>, "query_runs",
         <<"id">>, Cascade)})

AnswerDependencyModel ==
  Table({"id", "query_id", "retrieval_snapshot_id", "user_id", "course_id", "evidence_id",
        "document_id", "revision_id", "chunk_id", "document_name", "document_deletion_epoch",
        "content_sha256", "locator", "quote", "bounding_boxes", "provenance", "available",
        "created_at"},
        {"invalidated_reason", "invalidated_at"},
        Unique({{"id"}, {"query_id", "evidence_id"}}),
        {Scoped(<<"query_id">>, "query_runs", <<"id">>, Cascade), Ref(<<"retrieval_snapshot_id",
         "query_id">>, "retrieval_snapshots", <<"id", "query_id">>, Cascade)})

NoteModel ==
  Table(Stamps \cup {"id", "user_id", "course_id", "section_path", "title", "body_markdown",
        "version", "generation", "generated_by_model", "status"},
        {"failure_code"},
        Unique({{"id"}, {"id", "course_id", "user_id"}}),
        {OfCourse(Cascade)})

NoteSourceModel ==
  Table({"id", "note_id", "user_id", "course_id", "evidence_id", "document_id", "revision_id",
        "chunk_id", "document_name", "document_deletion_epoch", "content_sha256", "locator",
        "quote", "bounding_boxes", "provenance", "available", "created_at"},
        {"unavailable_reason", "invalidated_at"},
        Unique({{"id"}, {"note_id", "evidence_id"}}),
        {Scoped(<<"note_id">>, "notes", <<"id">>, Cascade)})

NoteContentVersionModel ==
  Table({"note_id", "version", "user_id", "course_id", "title", "section_path", "body_markdown",
        "content_ast", "ast_schema_version", "parser_version", "body_sha256",
        "source_set_sha256", "coverage_manifest_sha256", "note_version_sha256", "created_by",
        "created_at"},
        {},
        Unique({{"note_id", "version"}, {"note_id", "version", "course_id", "user_id"}}),
        {Scoped(<<"note_id">>, "notes", <<"id">>, Cascade)})

NoteVersionSourceSnapshotModel ==
  Table({"source_snapshot_id", "note_id", "version", "user_id", "course_id", "ordinal",
        "evidence_id", "document_id", "revision_id", "chunk_id", "document_name",
        "document_deletion_epoch", "content_sha256", "locator", "payload_sha256", "created_at"},
        {},
        Unique({{"source_snapshot_id"}, {"source_snapshot_id", "note_id", "version", "course_id",
        "user_id"}, {"note_id", "version", "course_id", "user_id", "ordinal"}}),
        {Scoped(<<"note_id", "version">>, "note_content_versions", <<"note_id", "version">>, Cascade)})

NoteVersionSourcePayloadModel ==
  Table({"source_snapshot_id", "note_id", "version", "user_id", "course_id", "created_at"},
        {"quote", "bounding_boxes", "provenance", "redacted_at", "redaction_reason"},
        Unique({{"source_snapshot_id", "note_id", "version", "user_id", "course_id"}}),
        {Scoped(<<"source_snapshot_id", "note_id", "version">>, "note_version_source_snapshots",
         <<"source_snapshot_id", "note_id", "version">>, Cascade)})

NoteVersionSourceLinkModel ==
  Table({"id", "note_id", "version", "user_id", "course_id", "source_snapshot_id", "citation_id",
        "ordinal", "ast_node_ids", "created_at"},
        {},
        Unique({{"id"}, {"note_id", "version", "course_id", "user_id", "citation_id"}, {"note_id",
        "version", "course_id", "user_id", "ordinal"}}),
        {Scoped(<<"note_id", "version">>, "note_content_versions", <<"note_id", "version">>, Cascade),
         Scoped(<<"source_snapshot_id", "note_id", "version">>, "note_version_source_snapshots",
         <<"source_snapshot_id", "note_id", "version">>, Cascade)})

NoteVersionCoverageModel ==
  Table({"note_id", "version", "user_id", "course_id", "policy_version", "status",
        "manifest_sha256", "basis", "created_at"},
        {"generated_from_version"},
        Unique({{"note_id", "version", "user_id", "course_id"}}),
        {Scoped(<<"note_id", "version">>, "note_content_versions", <<"note_id", "version">>, Cascade),
         Scoped(<<"note_id", "generated_from_version">>, "note_content_versions", <<"note_id",
         "version">>, Restricted)})

NoteVersionCoverageUnitModel ==
  Table({"id", "note_id", "version", "user_id", "course_id", "input_id", "ordinal", "unit_type",
        "locator", "content_sha256", "is_substantive", "status", "ast_node_ids",
        "source_snapshot_ids", "created_at"},
        {"reason_code"},
        Unique({{"id"}, {"note_id", "version", "course_id", "user_id", "id"}, {"note_id", "version",
        "course_id", "user_id", "ordinal"}}),
        {Scoped(<<"note_id", "version">>, "note_version_coverage", <<"note_id", "version">>, Cascade)})

NoteSourceStateOverlayModel ==
  Table({"id", "source_snapshot_id", "note_id", "version", "user_id", "course_id",
        "overlay_sequence", "display_epoch", "access_epoch", "display_state", "access_state",
        "reason", "cause_type", "cause_id", "cause_epoch", "created_at"},
        {},
        Unique({{"id"}, {"source_snapshot_id", "note_id", "version", "course_id", "user_id",
        "overlay_sequence"}, {"source_snapshot_id", "note_id", "version", "course_id",
        "user_id", "cause_type", "cause_id", "cause_epoch"}}),
        {Scoped(<<"source_snapshot_id", "note_id", "version">>, "note_version_source_snapshots",
         <<"source_snapshot_id", "note_id", "version">>, Cascade)})

NoteGenerationBatchModel ==
  Table(Stamps \cup {"id", "user_id", "course_id", "command_kind", "mode", "style",
        "section_path", "status", "state_version", "event_sequence", "cancel_epoch"},
        {"retry_of_batch_id", "title", "title_prefix", "target_note_id", "target_note_version",
        "target_note_version_sha256", "cancel_requested_at", "started_at", "completed_at"},
        Unique({{"id"}, {"id", "course_id", "user_id"}}),
        {OfCourse(Cascade), Scoped(<<"retry_of_batch_id">>, "note_generation_batches", <<"id">>,
         Restricted), Scoped(<<"target_note_id", "target_note_version">>, "note_content_versions",
         <<"note_id", "version">>, Restricted)})

NoteGenerationInputModel ==
  Table({"id", "batch_id", "user_id", "course_id", "ordinal", "document_id", "revision_id",
        "deletion_epoch", "document_name", "media_type", "content_sha256",
        "index_manifest_at_submit", "created_at"},
        {},
        Unique({{"id"}, {"id", "batch_id", "course_id", "user_id"}, {"batch_id", "course_id", "user_id",
        "ordinal"}, {"batch_id", "course_id", "user_id", "document_id"}}),
        {Scoped(<<"batch_id">>, "note_generation_batches", <<"id">>, Cascade), Scoped(<<"document_id">>,
         "documents", <<"id">>, Restricted)})

NoteCoverageUnitModel ==
  Table({"id", "input_id", "batch_id", "user_id", "course_id", "ordinal", "unit_type", "locator",
        "content_sha256", "is_substantive", "created_at"},
        {},
        Unique({{"id"}, {"id", "input_id", "batch_id", "course_id", "user_id"}, {"input_id", "batch_id",
        "course_id", "user_id", "ordinal"}}),
        {Scoped(<<"input_id", "batch_id">>, "note_generation_inputs", <<"id", "batch_id">>, Cascade)})

NoteGenerationItemModel ==
  Table(Stamps \cup {"id", "batch_id", "user_id", "course_id", "ordinal", "status",
        "state_version", "attempt", "max_attempts", "available_at", "lease_version",
        "cancel_epoch"},
        {"phase", "lease_owner_id", "lease_token_hash", "lease_expires_at", "heartbeat_at",
        "failure_code", "failure_summary", "retryable", "started_at", "completed_at"},
        Unique({{"id"}, {"id", "batch_id", "course_id", "user_id"}, {"batch_id", "course_id", "user_id",
        "ordinal"}}),
        {Scoped(<<"batch_id">>, "note_generation_batches", <<"id">>, Cascade)})

NoteItemInputModel ==
  Table({"id", "item_id", "input_id", "batch_id", "user_id", "course_id", "ordinal",
        "created_at"},
        {},
        Unique({{"id"}, {"id", "batch_id", "course_id", "user_id"}, {"item_id", "input_id", "batch_id",
        "course_id", "user_id"}}),
        {Scoped(<<"item_id", "batch_id">>, "note_generation_items", <<"id", "batch_id">>, Cascade),
         Scoped(<<"input_id", "batch_id">>, "note_generation_inputs", <<"id", "batch_id">>,
         Cascade)})

NoteCoverageUnitResultModel ==
  Table({"id", "item_id", "attempt", "input_id", "unit_id", "batch_id", "user_id", "course_id",
        "status", "ast_node_ids", "created_at"},
        {"reason_code", "evidence_set_sha256"},
        Unique({{"id"}, {"id", "batch_id", "course_id", "user_id"}, {"item_id", "attempt", "input_id",
        "unit_id", "batch_id", "course_id", "user_id"}}),
        {Scoped(<<"item_id", "batch_id">>, "note_generation_items", <<"id", "batch_id">>, Cascade),
         Scoped(<<"unit_id", "input_id", "batch_id">>, "note_coverage_units", <<"id",
         "input_id", "batch_id">>, Cascade), Scoped(<<"item_id", "input_id", "batch_id">>,
         "note_item_inputs", <<"item_id", "input_id", "batch_id">>, Cascade),
         Scoped(<<"item_id", "attempt", "batch_id">>, "note_generation_attempts", <<"item_id",
         "attempt", "batch_id">>, Cascade)})

NoteGenerationOutputModel ==
  Table({"id", "batch_id", "item_id", "user_id", "course_id", "note_id", "note_version",
        "created_at"},
        {},
        Unique({{"id"}, {"id", "batch_id", "course_id", "user_id"}, {"item_id", "batch_id", "course_id",
        "user_id"}, {"note_id", "note_version", "course_id", "user_id"}}),
        {Scoped(<<"item_id", "batch_id">>, "note_generation_items", <<"id", "batch_id">>, Cascade),
         Scoped(<<"note_id">>, "notes", <<"id">>, Restricted), Scoped(<<"note_id",
         "note_version">>, "note_content_versions", <<"note_id", "version">>, Restricted)})

NoteGenerationAttemptModel ==
  Table({"id", "item_id", "batch_id", "user_id", "course_id", "attempt", "runner_id",
        "contract_version", "usage", "started_at", "created_at"},
        {"provider_alias", "provider_model", "cost_microusd", "failure_code", "failure_summary",
        "completed_at"},
        Unique({{"id"}, {"id", "batch_id", "course_id", "user_id"}, {"item_id", "attempt", "batch_id",
        "course_id", "user_id"}}),
        {Scoped(<<"item_id", "batch_id">>, "note_generation_items", <<"id", "batch_id">>, Cascade)})

NoteGenerationEventModel ==
  Table({"id", "batch_id", "user_id", "course_id", "sequence", "event_type", "state_version",
        "payload", "trace_id", "occurred_at", "expires_at"},
        {},
        Unique({{"id"}, {"id", "batch_id", "course_id", "user_id"}, {"batch_id", "course_id", "user_id",
        "sequence"}}),
        {Scoped(<<"batch_id">>, "note_generation_batches", <<"id">>, Cascade)})

NoteCommandDedupModel ==
  Table({"id", "user_id", "course_id", "command_scope", "key_hash", "request_hash", "result_type",
        "result_id", "response_status", "expires_at", "created_at"},
        {},
        Unique({{"id"}, {"user_id", "course_id", "command_scope", "key_hash"}}),
        {OfCourse(Cascade)})

AccountModel ==
  Table(Stamps \cup {"id", "user_id", "email", "display_name", "role", "status", "password_hash"},
        {"admin_note", "disabled_at"},
        Unique({{"id"}, {"email"}, {"user_id"}}),
        {To("user_id", "users", Cascade)})

AccountSessionModel ==
  Table({"id", "account_id", "token_hash", "expires_at", "created_at"},
        {"revoked_at"},
        Unique({{"id"}, {"token_hash"}}),
        {To("account_id", "accounts", Cascade)})

RegistrationInvitationModel ==
  Table({"id", "code_hash", "created_by_account_id", "expires_at", "created_at"},
        {"used_by_account_id", "used_at", "revoked_at"},
        Unique({{"id"}, {"code_hash"}, {"used_by_account_id"}}),
        {To("created_by_account_id", "accounts", Restricted), To("used_by_account_id", "accounts",
         Restricted)})

Models ==
  [users |-> UserModel,
   courses |-> CourseModel,
   stored_objects |-> StoredObjectModel,
   upload_sessions |-> UploadSessionModel,
   documents |-> DocumentModel,
   document_revisions |-> DocumentRevisionModel,
   idempotency_records |-> IdempotencyRecordModel,
   deletion_jobs |-> DeletionJobModel,
   outbox_events |-> OutboxEventModel,
   parse_jobs |-> ParseJobModel,
   job_artifacts |-> JobArtifactModel,
   page_checkpoints |-> PageCheckpointModel,
   job_events |-> JobEventModel,
   parse_attempt_results |-> ParseAttemptResultModel,
   revision_pages |-> RevisionPageModel,
   revision_blocks |-> RevisionBlockModel,
   revision_assets |-> RevisionAssetModel,
   revision_chunks |-> RevisionChunkModel,
   embedding_models |-> EmbeddingModelModel,
   chunk_embeddings |-> ChunkEmbeddingModel,
   index_jobs |-> IndexJobModel,
   lexical_manifests |-> LexicalManifestModel,
   retrieval_traces |-> RetrievalTraceModel,
   conversations |-> ConversationModel,
   query_runs |-> QueryRunModel,
   query_events |-> QueryEventModel,
   retrieval_snapshots |-> RetrievalSnapshotModel,
   answer_dependencies |-> AnswerDependencyModel,
   notes |-> NoteModel,
   note_sources |-> NoteSourceModel,
   note_content_versions |-> NoteContentVersionModel,
   note_version_source_snapshots |-> NoteVersionSourceSnapshotModel,
   note_version_source_payloads |-> NoteVersionSourcePayloadModel,
   note_version_source_links |-> NoteVersionSourceLinkModel,
   note_version_coverage |-> NoteVersionCoverageModel,
   note_version_coverage_units |-> NoteVersionCoverageUnitModel,
   note_source_state_overlays |-> NoteSourceStateOverlayModel,
   note_generation_batches |-> NoteGenerationBatchModel,
   note_generation_inputs |-> NoteGenerationInputModel,
   note_coverage_units |-> NoteCoverageUnitModel,
   note_generation_items |-> NoteGenerationItemModel,
   note_item_inputs |-> NoteItemInputModel,
   note_coverage_unit_results |-> NoteCoverageUnitResultModel,
   note_generation_outputs |-> NoteGenerationOutputModel,
   note_generation_attempts |-> NoteGenerationAttemptModel,
   note_generation_events |-> NoteGenerationEventModel,
   note_command_dedup |-> NoteCommandDedupModel,
   accounts |-> AccountModel,
   account_sessions |-> AccountSessionModel,
   registration_invitations |-> RegistrationInvitationModel]
=============================================================================
