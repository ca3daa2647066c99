-------------------------------- MODULE Tables --------------------------------
(***************************************************************************)
(* The database as its statements see it: the columns of every table, the  *)
(* columns an insert must fill because they are NOT NULL and no default    *)
(* fills them, and the keys an upsert can name; and the statements of the  *)
(* repositories, by the columns they name.  The schema and the             *)
(* repositories are written apart and disagree: PostgreSQL refuses a       *)
(* statement that names a column its table does not have, and a field that *)
(* is none reads as undefined.  A statement that is put together from what *)
(* it is given stands here with all its parts.  Types, foreign keys and    *)
(* the values bound to a statement are left out.                           *)
(***************************************************************************)

Table(columns, required, keys) == [columns |-> columns, required |-> required, keys |-> keys]

Select(table, names)      == [table |-> table, names |-> names, inserts |-> FALSE, conflicts |-> {}]
Update(table, names)      == Select(table, names)
Insert(table, names)      == [Select(table, names) EXCEPT !.inserts = TRUE]
Upsert(table, names, key) == [Insert(table, names) EXCEPT !.conflicts = {key}]

Accepts(statement) ==
  /\ statement.names \subseteq statement.table.columns
  /\ statement.inserts => statement.table.required \subseteq statement.names
  /\ statement.conflicts \subseteq statement.table.keys

Stamps == {"created_at", "updated_at"}

\* Enumerations.

ExecutionStatus ==
  {"quote_created", "route_locked", "local_leg_pending", "local_leg_complete", "external_leg_pending",
   "external_leg_complete", "awaiting_delivery", "completed", "partially_filled", "failed", "refunded", "expired"}
MarketStatus        == {"active", "quote_only", "paused", "disabled"}
MarketMode          == {"native", "synthetic", "teleport", "redeemable"}
VenueHealthStatus   == {"healthy", "degraded", "down"}
RelayerStatus       == {"active", "degraded", "paused", "offline"}
AlertSeverity       == {"info", "warning", "critical"}
CircuitBreakerLevel == {"none", "soft_pause", "hard_pause"}
RelayerJobStatus ==
  {"received", "validated", "inventory_reserved", "quote_refreshed", "ready_to_execute", "submitting", "submitted",
   "awaiting_confirmation", "partially_filled", "filled", "delivery_pending", "completed", "failed", "timed_out",
   "inventory_released", "reconciled", "rejected"}
ReservationStatus    == {"active", "released", "consumed", "expired"}
ReconciliationStatus == {"pending", "matched", "mismatched", "resolved", "unresolved"}
EscrowExecutionStatus ==
  {"created", "funds_locked", "route_locked", "local_leg_executed", "external_leg_pending", "external_leg_confirmed",
   "delivery_pending", "completed", "partially_completed", "failed", "refunded", "expired"}
EscrowExecutionMode  == {"LOCAL", "TELEPORT", "SYNTHETIC", "REDEEMABLE"}

\* Markets.

MarketsTable ==
  LET needed == {"pair_id", "base_asset_id", "quote_asset_id", "base_symbol", "quote_symbol"}
  IN  Table(needed \cup Stamps \cup
              {"primary_mode", "supported_modes", "status", "risk_tier", "circuit_breaker", "max_trade_size",
               "max_daily_volume", "local_pool_id", "local_book_id", "synthetic_asset_id", "external_sources", "metadata"},
            needed, {{"pair_id"}})

MarketRow ==
  {"pair_id", "base_asset", "quote_asset", "base_chain", "quote_chain", "mode", "status", "risk_tier", "circuit_breaker",
   "daily_volume_cap", "per_trade_cap", "min_trade_size", "external_sources", "metadata"} \cup Stamps

MarketRepo ==
  [findAll              |-> Select(MarketsTable, {"status", "risk_tier", "pair_id"}),
   findAllOfMode        |-> Select(MarketsTable, {"mode", "pair_id"}),
   findById             |-> Select(MarketsTable, {"pair_id"}),
   upsert               |-> Upsert(MarketsTable, MarketRow \ {"created_at"}, {"pair_id"}),
   updateStatus         |-> Update(MarketsTable, {"status", "updated_at", "pair_id"}),
   updateCircuitBreaker |-> Update(MarketsTable, {"circuit_breaker", "updated_at", "pair_id"}),
   count                |-> Select(MarketsTable, {"status"})]

\* Executions, their legs and their history.

ExecutionsTable ==
  LET needed == {"execution_id", "route_id", "quote_id", "pair_id", "mode", "user_address", "input_asset", "output_asset",
                 "amount_in", "expected_amount_out"}
  IN  Table(needed \cup Stamps \cup
              {"actual_amount_out", "status", "relayer_id", "settlement_mode", "failure_reason", "refund_eligible",
               "refunded_at", "escrow_address", "escrow_expires_at", "delivery_tx_hash", "metadata", "completed_at"},
            needed, {{"execution_id"}})

ExecutionLegsTable ==
  LET needed == {"execution_id", "leg_index", "venue_id", "venue_name", "chain", "token_in", "token_out", "amount_in",
                 "expected_amount_out"}
  IN  Table(needed \cup Stamps \cup
              {"id", "settlement_mode", "actual_amount_out", "fee_estimate", "status", "tx_hash", "submitted_at",
               "confirmed_at", "failure_reason", "metadata"},
            needed, {{"id"}, {"execution_id", "leg_index"}})

\* executions, relayer_jobs and escrow_intents have a history each.
History(of, byWhom) ==
  Table({"id", of, "from_status", "to_status", "reason", "metadata", "created_at"} \cup byWhom,
        {of, "to_status"} \cup byWhom, {{"id"}})

ExecutionTransitionsTable == History("execution_id", {})

RoutePlansTable ==
  LET needed == {"route_id", "quote_id", "pair_id", "mode", "input_asset", "output_asset", "input_amount",
                 "expected_output", "min_output", "expires_at"}
  IN  Table(needed \cup {"legs", "score", "requires_escrow", "estimated_settlement_ms", "created_at"}, needed, {{"route_id"}})

\* The rows of these two are their tables' columns.
ExecutionRow    == ExecutionsTable.columns
ExecutionLegRow == ExecutionLegsTable.columns

ExecutionRepo ==
  [create        |-> Insert(ExecutionsTable, ExecutionRow \ (Stamps \cup {"refunded_at", "completed_at"})),
   findById      |-> Select(ExecutionsTable, {"execution_id"}),
   findMany      |-> Select(ExecutionsTable, {"status", "pair_id", "relayer_id", "created_at"}),
   updateStatus  |-> Update(ExecutionsTable,
                       {"status", "updated_at", "actual_amount_out", "failure_reason", "delivery_tx_hash", "completed_at",
                        "refunded_at", "refund_eligible", "execution_id"}),
   recordTransition |-> Insert(ExecutionTransitionsTable,
                          {"execution_id", "from_status", "to_status", "reason", "metadata"})]

ExecutionLegRepo ==
  [getLegs       |-> Select(ExecutionLegsTable, {"execution_id", "leg_index"}),
   upsertLeg     |-> Upsert(ExecutionLegsTable, ExecutionLegRow \ {"id", "created_at"}, {"execution_id", "leg_index"}),
   countByStatus |-> Select(ExecutionsTable, {"status"}),
   getMetrics24h |-> Select(ExecutionsTable, {"status", "created_at", "pair_id"})]

\* Metrics by the bucket of time.

ExecutionMetricsTable ==
  Table({"id", "pair_id", "bucket", "total_executions", "successful", "failed", "avg_latency_ms", "p95_latency_ms",
         "total_volume_in", "total_volume_out"},
        {"pair_id", "bucket"}, {{"id"}, {"pair_id", "bucket"}})

RouteMetricsTable ==
  Table({"id", "pair_id", "mode", "bucket", "routes_planned", "routes_executed", "routes_failed", "avg_legs", "avg_score"},
        {"pair_id", "mode", "bucket"}, {{"id"}, {"pair_id", "mode", "bucket"}})

ExecutionMetricRow ==
  {"id", "pair_id", "bucket", "total_executions", "successful", "failed", "avg_latency_ms", "p95_latency_ms",
   "total_volume_usd", "total_fees_usd"}

RouteMetricRow ==
  {"id", "pair_id", "settlement_mode", "bucket", "total_routes", "successful", "failed", "avg_execution_time_ms",
   "avg_slippage_bps"}

MetricsRepo ==
  [recordExecutionMetric     |-> Upsert(ExecutionMetricsTable, ExecutionMetricRow \ {"id"}, {"pair_id", "bucket"}),
   recordRouteMetric         |-> Upsert(RouteMetricsTable, RouteMetricRow \ {"id"}, {"pair_id", "settlement_mode", "bucket"}),
   getExecutionMetrics       |-> Select(ExecutionMetricsTable, {"pair_id", "bucket"}),
   getRouteMetrics           |-> Select(RouteMetricsTable, {"pair_id", "bucket"}),
   getGlobalExecutionSummary |-> Select(ExecutionMetricsTable,
                                   {"total_executions", "successful", "failed", "avg_latency_ms", "total_volume_usd", "bucket"})]

\* Health of relayers, venues, markets and synthetics.

RelayersTable ==
  Table({"relayer_id", "status", "supported_chains", "total_inventory_usd", "total_exposure_usd", "active_executions",
         "completed_24h", "failed_24h", "avg_latency_ms", "last_heartbeat", "metadata"} \cup Stamps,
        {"relayer_id"}, {{"relayer_id"}})

RelayerInventoryTable ==
  LET place == {"relayer_id", "asset", "chain"}
  IN  Table(place \cup {"id", "amount", "reserved_amount", "available_amount", "amount_usd", "last_updated"},
            place, {{"id"}, place})

RelayerRow ==
  {"relayer_id", "name", "status", "supported_chains", "total_inventory_usd", "total_exposure_usd", "active_jobs",
   "success_rate_24h", "avg_latency_ms", "error_rate_1h", "last_heartbeat", "metadata"} \cup Stamps

RelayerInventoryRow ==
  {"id", "relayer_id", "asset", "chain", "balance", "reserved", "available", "last_rebalanced_at", "updated_at"}

RelayerRepo ==
  [findAll         |-> Select(RelayersTable, {"relayer_id"}),
   findById        |-> Select(RelayersTable, {"relayer_id"}),
   upsert          |-> Upsert(RelayersTable, RelayerRow \ {"created_at"}, {"relayer_id"}),
   updateHeartbeat |-> Update(RelayersTable, {"last_heartbeat", "updated_at", "relayer_id"}),
   updateStatus    |-> Update(RelayersTable, {"status", "updated_at", "relayer_id"}),
   getInventory    |-> Select(RelayerInventoryTable, {"relayer_id", "asset", "chain"}),
   upsertInventory |-> Upsert(RelayerInventoryTable, RelayerInventoryRow \ {"id"}, {"relayer_id", "asset", "chain"})]

VenueHealthTable ==
  Table({"venue_id", "venue_type", "venue_name", "health", "latency_ms", "last_quote_at", "error_count_24h",
         "quotes_served_24h", "success_rate_24h", "uptime_24h", "supported_pairs", "connection_healthy", "metadata"} \cup Stamps,
        {"venue_id", "venue_type", "venue_name"}, {{"venue_id"}})

ConnectorHealthTable ==
  Table({"id", "venue_id", "pair_id", "latency_ms", "last_quote_at", "quote_freshness", "error_rate", "is_stale", "metadata",
         "updated_at"},
        {"venue_id", "pair_id"}, {{"id"}, {"venue_id", "pair_id"}})

VenueHealthRow ==
  {"venue_id", "venue_name", "venue_type", "health_status", "latency_ms", "error_count_1h", "quote_count_1h", "uptime_24h",
   "last_successful_quote", "last_error", "metadata"} \cup Stamps

ConnectorHealthRow ==
  {"id", "venue_id", "pair_id", "latency_ms", "quote_count", "error_count", "last_quote_at", "last_error_at", "metadata",
   "updated_at"}

VenueHealthRepo ==
  [findAll               |-> Select(VenueHealthTable, {"venue_id"}),
   findById              |-> Select(VenueHealthTable, {"venue_id"}),
   upsert                |-> Upsert(VenueHealthTable, VenueHealthRow \ {"created_at"}, {"venue_id"}),
   getConnectorHealth    |-> Select(ConnectorHealthTable, {"venue_id", "pair_id"}),
   upsertConnectorHealth |-> Upsert(ConnectorHealthTable, ConnectorHealthRow \ {"id"}, {"venue_id", "pair_id"})]

MarketHealthTable ==
  Table({"pair_id", "health_score", "local_liquidity_usd", "external_liquidity_usd", "route_success_rate", "venue_health_avg",
         "relayer_coverage", "synthetic_exposure_pct", "stale_sources", "total_sources", "volume_24h", "executions_24h",
         "failed_24h", "factors", "updated_at"},
        {"pair_id"}, {{"pair_id"}})

MarketHealthRow ==
  {"pair_id", "health_score", "local_liquidity_usd", "external_liquidity_usd", "route_success_rate_24h",
   "avg_execution_time_ms", "active_venues", "relayer_coverage", "synthetic_utilization", "factors", "updated_at"}

MarketHealthRepo ==
  [findAll  |-> Select(MarketHealthTable, {"health_score"}),
   findById |-> Select(MarketHealthTable, {"pair_id"}),
   upsert   |-> Upsert(MarketHealthTable, MarketHealthRow, {"pair_id"})]

SyntheticExposureTable ==
  LET needed == {"synthetic_asset_id", "symbol", "underlying_asset_id", "underlying_symbol"}
  IN  Table(needed \cup
              {"total_supply", "supply_cap", "mark_price", "liability_value_usd", "backing_allocated_usd", "backing_ratio",
               "is_redeemable", "redemption_queue_size", "status", "metadata", "updated_at"},
            needed, {{"synthetic_asset_id"}})

SyntheticExposureRow ==
  {"synthetic_asset_id", "asset_name", "current_supply", "max_supply_cap", "collateral_ratio", "mark_price", "backing_ratio",
   "redeemable_value", "net_exposure_usd", "redemption_queue_size", "metadata", "updated_at"}

SyntheticExposureRepo ==
  [findAll  |-> Select(SyntheticExposureTable, {"synthetic_asset_id"}),
   findById |-> Select(SyntheticExposureTable, {"synthetic_asset_id"}),
   upsert   |-> Upsert(SyntheticExposureTable, SyntheticExposureRow, {"synthetic_asset_id"})]

\* Alerts and switches.

RiskAlertRow ==
  {"id", "severity", "category", "title", "message", "source_service", "pair_id", "venue_id", "relayer_id",
   "threshold_value", "actual_value", "acknowledged", "acknowledged_by", "acknowledged_at", "resolved", "resolved_at",
   "metadata", "created_at"}

RiskAlertsTable ==
  LET needed == {"id", "category", "source_service", "message"}
  IN  Table(needed \cup Stamps \cup
              {"severity", "details", "pair_id", "venue_id", "relayer_id", "acknowledged", "acknowledged_by",
               "acknowledged_at", "resolved", "resolved_at", "metadata"},
            needed, {{"id"}})

ProtocolControlsTable == Table({"key", "value", "updated_by", "reason", "updated_at"}, {"key", "value"}, {{"key"}})

ProtocolControlRow == {"key", "value", "description", "updated_by", "updated_at"}

RiskAlertRepo ==
  [create      |-> Insert(RiskAlertsTable,
                     {"severity", "category", "title", "message", "source_service", "pair_id", "venue_id", "relayer_id",
                      "threshold_value", "actual_value", "metadata"}),
   findMany    |-> Select(RiskAlertsTable, {"severity", "category", "acknowledged", "resolved", "id", "created_at"}),
   acknowledge |-> Update(RiskAlertsTable, {"acknowledged", "acknowledged_by", "acknowledged_at", "id"}),
   resolve     |-> Update(RiskAlertsTable, {"resolved", "resolved_at", "id"}),
   countActive |-> Select(RiskAlertsTable, {"severity", "resolved"})]

ProtocolControlRepo ==
  [findAll |-> Select(ProtocolControlsTable, {"key"}),
   get     |-> Select(ProtocolControlsTable, {"key"}),
   set     |-> Upsert(ProtocolControlsTable, {"key", "value", "updated_by", "updated_at"}, {"key"})]

\* The relayer's jobs.

RelayerJobsTable ==
  LET needed == {"job_id", "execution_id", "route_id", "quote_id", "pair_id", "mode", "input_asset", "output_asset",
                 "amount_in", "expected_amount_out", "min_amount_out", "max_slippage_bps", "expires_at", "delivery_mode",
                 "risk_tier", "user_address", "destination_address", "destination_chain", "nonce", "signature"}
  IN  Table(needed \cup Stamps \cup
              {"legs", "status", "attempts", "max_attempts", "last_error", "result", "reservation_id", "metadata",
               "completed_at"},
            needed, {{"job_id"}, {"execution_id"}})

RelayerAttemptsTable ==
  Table({"id", "job_id", "attempt_number", "status", "venue_id", "chain", "token_in", "token_out", "amount_in", "amount_out",
         "tx_hash", "quote_price", "executed_price", "slippage_bps", "fees_paid", "gas_used", "error_message", "started_at",
         "completed_at", "duration_ms", "metadata"},
        {"job_id", "attempt_number", "status"}, {{"id"}, {"job_id", "attempt_number"}})

RelayerJobTransitionsTable == History("job_id", {})

RelayerJobRow     == RelayerJobsTable.columns
RelayerAttemptRow == RelayerAttemptsTable.columns

RelayerJobRepo ==
  [create            |-> Upsert(RelayerJobsTable, RelayerJobsTable.required \cup {"legs"}, {"execution_id"}),
   findById          |-> Select(RelayerJobsTable, {"job_id"}),
   findByExecutionId |-> Select(RelayerJobsTable, {"execution_id"}),
   findMany          |-> Select(RelayerJobsTable, {"status", "pair_id", "execution_id", "created_at"}),
   updateStatus      |-> Update(RelayerJobsTable,
                           {"status", "updated_at", "attempts", "last_error", "result", "reservation_id", "completed_at",
                            "job_id"}),
   incrementAttempts |-> Update(RelayerJobsTable, {"attempts", "updated_at", "job_id"})]

RelayerAttemptRepo ==
  [recordTransition |-> Insert(RelayerJobTransitionsTable, {"job_id", "from_status", "to_status", "reason", "metadata"}),
   createAttempt    |-> Insert(RelayerAttemptsTable,
                          {"job_id", "attempt_number", "status", "venue_id", "chain", "token_in", "token_out", "amount_in"}),
   updateAttempt    |-> Update(RelayerAttemptsTable,
                          {"status", "amount_out", "tx_hash", "executed_price", "slippage_bps", "fees_paid", "gas_used",
                           "error_message", "completed_at", "duration_ms", "id"}),
   getAttempts      |-> Select(RelayerAttemptsTable, {"job_id", "attempt_number"}),
   countByStatus    |-> Select(RelayerJobsTable, {"status"}),
   getStaleJobs     |-> Select(RelayerJobsTable, {"status", "updated_at"}),
   getExpiredJobs   |-> Select(RelayerJobsTable, {"status", "expires_at"})]

InventoryReservationsTable ==
  LET needed == {"reservation_id", "job_id", "execution_id", "asset", "chain", "amount", "expires_at"}
  IN  Table(needed \cup {"status", "reserved_at", "released_at", "consumed_at", "release_reason", "metadata"},
            needed, {{"reservation_id"}})

InventoryReservationRow == InventoryReservationsTable.columns

InventoryReservationRepo ==
  [create                |-> Insert(InventoryReservationsTable, InventoryReservationsTable.required),
   findById              |-> Select(InventoryReservationsTable, {"reservation_id"}),
   findByJobId           |-> Select(InventoryReservationsTable, {"job_id", "reserved_at"}),
   release               |-> Update(InventoryReservationsTable, {"status", "released_at", "release_reason", "reservation_id"}),
   consume               |-> Update(InventoryReservationsTable, {"status", "consumed_at", "reservation_id"}),
   expireStale           |-> Update(InventoryReservationsTable, {"status", "released_at", "release_reason", "expires_at"}),
   getActiveReservations |-> Select(InventoryReservationsTable, {"asset", "chain", "status", "reserved_at"}),
   getTotalReserved      |-> Select(InventoryReservationsTable, {"amount", "asset", "chain", "status"})]

ExternalExecutionsTable ==
  LET needed == {"job_id", "execution_id", "leg_index", "venue_id", "chain", "token_in", "token_out", "amount_in",
                 "expected_amount_out"}
  IN  Table(needed \cup
              {"id", "attempt_id", "actual_amount_out", "quote_price", "executed_price", "slippage_bps", "fees_paid",
               "gas_used", "tx_hash", "block_number", "status", "error_message", "submitted_at", "confirmed_at", "metadata",
               "created_at"},
            needed, {{"id"}})

ExternalExecutionRow == ExternalExecutionsTable.columns

ExternalExecutionRepo ==
  [create                   |-> Insert(ExternalExecutionsTable, ExternalExecutionsTable.required \cup {"attempt_id"}),
   updateResult             |-> Update(ExternalExecutionsTable,
                                  {"status", "actual_amount_out", "executed_price", "slippage_bps", "fees_paid", "gas_used",
                                   "tx_hash", "block_number", "error_message", "submitted_at", "confirmed_at", "id"}),
   findByJobId              |-> Select(ExternalExecutionsTable, {"job_id", "leg_index"}),
   findByExecutionId        |-> Select(ExternalExecutionsTable, {"execution_id", "leg_index"}),
   findByTxHash             |-> Select(ExternalExecutionsTable, {"tx_hash"}),
   findPendingConfirmations |-> Select(ExternalExecutionsTable, {"status", "submitted_at"})]

HedgeRecordsTable ==
  LET needed == {"job_id", "execution_id", "asset", "chain", "exposure_amount"}
  IN  Table(needed \cup Stamps \cup
              {"id", "hedged_amount", "residual_amount", "hedge_type", "hedge_tx_hash", "hedge_venue_id", "is_fully_hedged",
               "requires_rebalance", "notes"},
            needed, {{"id"}})

HedgeRecordRow == HedgeRecordsTable.columns

HedgeRepo ==
  [create                  |-> Insert(HedgeRecordsTable, HedgeRecordRow \ (Stamps \cup {"id"})),
   findByJobId             |-> Select(HedgeRecordsTable, {"job_id", "created_at"}),
   findByExecutionId       |-> Select(HedgeRecordsTable, {"execution_id", "created_at"}),
   getUnhedgedResiduals    |-> Select(HedgeRecordsTable, {"requires_rebalance", "is_fully_hedged", "residual_amount"}),
   updateHedge             |-> Update(HedgeRecordsTable,
                                 {"hedged_amount", "residual_amount", "hedge_tx_hash", "is_fully_hedged",
                                  "requires_rebalance", "updated_at", "id"}),
   getTotalResidualByAsset |-> Select(HedgeRecordsTable, {"asset", "chain", "residual_amount", "requires_rebalance"})]

ReconciliationRecordsTable ==
  LET needed == {"job_id", "execution_id", "venue_id", "chain", "expected_amount_out", "our_status"}
  IN  Table(needed \cup Stamps \cup
              {"id", "tx_hash", "actual_amount_out", "chain_status", "status", "mismatch_reason", "resolved_by",
               "resolved_at", "metadata"},
            needed, {{"id"}})

ReconciliationRecordRow == ReconciliationRecordsTable.columns

ReconciliationRepo ==
  [create                    |-> Insert(ReconciliationRecordsTable,
                                   ReconciliationRecordRow \ (Stamps \cup {"id", "resolved_by", "resolved_at", "metadata"})),
   findByJobId               |-> Select(ReconciliationRecordsTable, {"job_id", "created_at"}),
   findMismatches            |-> Select(ReconciliationRecordsTable, {"status", "created_at"}),
   resolve                   |-> Update(ReconciliationRecordsTable, {"status", "resolved_by", "resolved_at", "updated_at", "id"}),
   updateChainStatus         |-> Update(ReconciliationRecordsTable,
                                   {"chain_status", "actual_amount_out", "status", "mismatch_reason", "updated_at", "id"}),
   getPendingReconciliations |-> Select(ReconciliationRecordsTable, {"status", "created_at"}),
   countByStatus             |-> Select(ReconciliationRecordsTable, {"status"})]

\* Tables that the services query on their own.

VenueStatusCacheTable ==
  Table({"venue_id", "chain", "is_available", "is_degraded", "avg_latency_ms", "error_rate_1h", "last_successful_at",
         "supported_pairs", "metadata", "updated_at"},
        {"venue_id", "chain"}, {{"venue_id"}})

RelayerRiskLimitsTable ==
  Table({"id", "limit_type", "scope_key", "max_notional", "current_notional", "daily_budget", "daily_used", "daily_reset_at",
         "is_enabled", "metadata", "updated_at"},
        {"id", "limit_type", "scope_key", "max_notional"}, {{"id"}, {"limit_type", "scope_key"}})

\* The inventory manager's reading routes.
InventoryReads ==
  [byAsset      |-> Select(RelayerInventoryTable, {"relayer_id", "asset"}),
   byChain      |-> Select(RelayerInventoryTable, {"relayer_id", "asset", "chain"}),
   reservations |-> Select(InventoryReservationsTable, {"status", "reserved_at"}),
   summary      |-> Select(RelayerInventoryTable,
                      {"asset", "chain", "amount", "reserved_amount", "available_amount", "relayer_id"})]

\* relayer-api: what it shows, and its switches and limits.
RelayerApiReads ==
  [inventory |-> Select(RelayerInventoryTable, {"relayer_id", "chain", "asset"}),
   summary   |-> Select(RelayerInventoryTable,
                   {"asset", "chain", "available_amount", "reserved_amount", "total_amount", "relayer_id"}),
   venues    |-> Select(VenueStatusCacheTable, {"venue_id"}),
   limits    |-> Select(RelayerRiskLimitsTable, {"is_active", "limit_type", "scope_key"})]

RelayerApiWrites ==
  [pause    |-> Update(ProtocolControlsTable, {"is_active", "updated_at", "control_type"}),
   resume   |-> Update(ProtocolControlsTable, {"is_active", "updated_at", "control_type"}),
   setLimit |-> Upsert(RelayerRiskLimitsTable,
                  {"limit_type", "scope_key", "max_notional_usd", "daily_budget_usd", "max_single_trade_usd", "is_active",
                   "updated_at"},
                  {"limit_type", "scope_key"})]

\* The escrow.

EscrowIntentsTable ==
  LET needed == {"execution_id", "user_address", "pair_id", "input_asset", "output_asset", "amount_in",
                 "expected_amount_out", "min_amount_out", "route_plan_hash", "execution_mode", "nonce", "expires_at"}
  IN  Table(needed \cup Stamps \cup
              {"actual_amount_out", "status", "relayer_id", "escrow_tx_id", "refund_tx_id", "completion_tx_id",
               "refund_amount", "proof_data", "failure_reason", "settled_at", "metadata"},
            needed, {{"execution_id"}})

EscrowTransitionsTable == History("execution_id", {"triggered_by"})

EscrowEventsTable ==
  LET needed == {"event_type", "execution_id", "user_address", "pair_id", "amount_in"}
  IN  Table(needed \cup {"id", "amount_out", "refund_amount", "relayer_id", "proof_data", "reason", "created_at"},
            needed, {{"id"}})

RelayerConfirmationsTable ==
  LET needed == {"execution_id", "relayer_id", "actual_amount_out", "tx_hash", "chain", "proof_data", "signature"}
  IN  Table(needed \cup {"id", "verified", "verified_at", "created_at"}, needed, {{"id"}})

EscrowMetricsTable ==
  Table({"id", "bucket", "total_created", "total_completed", "total_failed", "total_refunded", "total_expired",
         "total_partial", "total_volume_in", "total_volume_out", "total_refund_volume", "avg_settlement_ms"},
        {"bucket"}, {{"id"}, {"bucket"}})

EscrowIntentRow        == EscrowIntentsTable.columns
EscrowTransitionRow    == EscrowTransitionsTable.columns
EscrowEventRow         == EscrowEventsTable.columns
RelayerConfirmationRow == RelayerConfirmationsTable.columns

EscrowIntentRepo ==
  [create             |-> Insert(EscrowIntentsTable, EscrowIntentRow \ (Stamps \cup {"settled_at"})),
   findById           |-> Select(EscrowIntentsTable, {"execution_id"}),
   findMany           |-> Select(EscrowIntentsTable,
                            {"status", "user_address", "pair_id", "relayer_id", "execution_mode", "expires_at", "created_at"}),
   findExpired        |-> Select(EscrowIntentsTable, {"status", "expires_at"}),
   findPendingRefunds |-> Select(EscrowIntentsTable, {"status", "refund_tx_id", "created_at"}),
   updateStatus       |-> Update(EscrowIntentsTable,
                            {"status", "updated_at", "actual_amount_out", "refund_amount", "proof_data", "failure_reason",
                             "escrow_tx_id", "refund_tx_id", "completion_tx_id", "settled_at", "execution_id"})]

EscrowIntentCounts ==
  [getUserNonce   |-> Select(EscrowIntentsTable, {"nonce", "user_address"}),
   countByStatus  |-> Select(EscrowIntentsTable, {"status"}),
   getActiveCount |-> Select(EscrowIntentsTable, {"status"})]

EscrowTransitionRepo ==
  [record          |-> Insert(EscrowTransitionsTable,
                         {"execution_id", "from_status", "to_status", "triggered_by", "reason", "metadata"}),
   findByExecution |-> Select(EscrowTransitionsTable, {"execution_id", "created_at"})]

EscrowEventRepo ==
  [emit            |-> Insert(EscrowEventsTable, EscrowEventRow \ {"id", "created_at"}),
   findByExecution |-> Select(EscrowEventsTable, {"execution_id", "created_at"}),
   findByType      |-> Select(EscrowEventsTable, {"event_type", "created_at"})]

RelayerConfirmationRepo ==
  [create          |-> Insert(RelayerConfirmationsTable, RelayerConfirmationsTable.required),
   findByExecution |-> Select(RelayerConfirmationsTable, {"execution_id", "created_at"}),
   markVerified    |-> Update(RelayerConfirmationsTable, {"verified", "verified_at", "id"}),
   findByTxHash    |-> Select(RelayerConfirmationsTable, {"tx_hash"})]

\* The rows that come with the schema, put in once.
Seed ==
  [markets   |-> Upsert(MarketsTable,
                   {"pair_id", "base_asset_id", "quote_asset_id", "base_symbol", "quote_symbol", "primary_mode",
                    "supported_modes", "status", "risk_tier", "max_trade_size", "max_daily_volume", "local_pool_id",
                    "external_sources"}, {"pair_id"}),
   relayers  |-> Upsert(RelayersTable, {"relayer_id", "status", "supported_chains", "total_inventory_usd"}, {"relayer_id"}),
   inventory |-> Upsert(RelayerInventoryTable,
                   {"relayer_id", "asset", "chain", "amount", "reserved_amount", "available_amount", "amount_usd"},
                   {"relayer_id", "asset", "chain"}),
   venues    |-> Upsert(VenueHealthTable,
                   {"venue_id", "venue_type", "venue_name", "health", "latency_ms", "last_quote_at", "quotes_served_24h",
                    "success_rate_24h", "supported_pairs", "connection_healthy"}, {"venue_id"}),
   health    |-> Upsert(MarketHealthTable,
                   {"pair_id", "health_score", "local_liquidity_usd", "external_liquidity_usd", "route_success_rate",
                    "venue_health_avg", "relayer_coverage", "total_sources"}, {"pair_id"})]

\* What the database refuses, and what the code reads of rows that have no such column.

Repositories ==
  [seed |-> Seed, market |-> MarketRepo, execution |-> ExecutionRepo, leg |-> ExecutionLegRepo, metrics |-> MetricsRepo,
   relayer |-> RelayerRepo, venueHealth |-> VenueHealthRepo, marketHealth |-> MarketHealthRepo,
   exposure |-> SyntheticExposureRepo, alert |-> RiskAlertRepo, control |-> ProtocolControlRepo,
   job |-> RelayerJobRepo, attempt |-> RelayerAttemptRepo, reservation |-> InventoryReservationRepo,
   external |-> ExternalExecutionRepo, hedge |-> HedgeRepo, reconciliation |-> ReconciliationRepo,
   inventoryReads |-> InventoryReads, relayerApiReads |-> RelayerApiReads, relayerApiWrites |-> RelayerApiWrites,
   escrow |-> EscrowIntentRepo, escrowCounts |-> EscrowIntentCounts, escrowTransition |-> EscrowTransitionRepo,
   escrowEvent |-> EscrowEventRepo, confirmation |-> RelayerConfirmationRepo]

Refused ==
  {p \in UNION {{r} \X DOMAIN Repositories[r] : r \in DOMAIN Repositories} : ~Accepts(Repositories[p[1]][p[2]])}

Undefined(row, table) == row \ table.columns
===============================================================================
