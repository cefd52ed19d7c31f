-------------------------------- MODULE Services --------------------------------
(* The services and request handlers that share the processes and the database *)
(* but no state with one another: a behaviour runs one of them, chosen at the  *)
(* start, in an instance of its own; the others stay in an initial state.      *)
EXTENDS NonceManager, Idempotency, SummaryCache, AuditLog, CrossChain, WalletVerification,
        KeyRotation, Archive, Migrations, ReportScheduler, TreasuryMonitor, Notices, Payslips

VARIABLE part    \* the one that runs

Parts == {"nonce", "idempotency", "cache", "audit", "cct", "wallet", "key", "archive",
          "migrations", "report", "monitor", "notices", "payslips"}

\* The other parts than p stand still.
Others(p) ==
  /\ part = p /\ part' = part
  /\ IF p = "nonce" THEN TRUE ELSE UNCHANGED nonceVars
  /\ IF p = "idempotency" THEN TRUE ELSE UNCHANGED idemVars
  /\ IF p = "cache" THEN TRUE ELSE UNCHANGED cacheVars
  /\ IF p = "audit" THEN TRUE ELSE UNCHANGED auditVars
  /\ IF p = "cct" THEN TRUE ELSE UNCHANGED cctVars
  /\ IF p = "wallet" THEN TRUE ELSE UNCHANGED walletVars
  /\ IF p = "key" THEN TRUE ELSE UNCHANGED keyVars
  /\ IF p = "archive" THEN TRUE ELSE UNCHANGED archVars
  /\ IF p = "migrations" THEN TRUE ELSE UNCHANGED migVars
  /\ IF p = "report" THEN TRUE ELSE UNCHANGED repVars
  /\ IF p = "monitor" THEN TRUE ELSE UNCHANGED monVars
  /\ IF p = "notices" THEN TRUE ELSE UNCHANGED noticeVars
  /\ IF p = "payslips" THEN TRUE ELSE UNCHANGED payVars

ServicesInit ==
  /\ part \in Parts
  /\ NonceInit /\ IdemInit /\ CacheInit /\ AuditInit /\ CctInit /\ WalletInit /\ KeyInit
  /\ ArchInit /\ MigInit /\ ReportInit /\ MonInit /\ NoticeInit /\ PayInit
  /\ part # "cache" => cacheKey = "summary"
  /\ part # "cct" => cctColumn = "text"
  /\ part # "migrations" => migApplied = {} /\ ~migProduction

ServicesNext ==
  \/ Others("nonce") /\ NonceNext
  \/ Others("idempotency") /\ IdemNext
  \/ Others("cache") /\ CacheNext
  \/ Others("audit") /\ AuditNext
  \/ Others("cct") /\ CctNext
  \/ Others("wallet") /\ WalletNext
  \/ Others("key") /\ KeyNext
  \/ Others("archive") /\ ArchNext
  \/ Others("migrations") /\ MigNext
  \/ Others("report") /\ ReportNext
  \/ Others("monitor") /\ MonNext
  \/ Others("notices") /\ NoticeNext
  \/ Others("payslips") /\ PayNext

servicesVars ==
  <<part, nonceVars, idemVars, cacheVars, auditVars, cctVars, walletVars, keyVars, archVars,
    migVars, repVars, monVars, noticeVars, payVars>>
ServicesSpec == ServicesInit /\ [][ServicesNext]_servicesVars

\* Every variable of every service has its type.
ServicesTypeOK ==
  /\ part \in Parts
  /\ NonceTypeOK /\ IdemTypeOK /\ CacheTypeOK /\ AuditTypeOK /\ CctTypeOK /\ WalletTypeOK
  /\ KeyTypeOK /\ ArchTypeOK /\ MigTypeOK /\ ReportTypeOK /\ MonTypeOK /\ NoticeTypeOK
  /\ PayTypeOK
===============================================================================
