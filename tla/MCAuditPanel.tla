----------------------------- MODULE MCAuditPanel -----------------------------
(* Small instances of AuditPanel for TLC.                                   *)
EXTENDS AuditPanel, TLC

Shape(action, resource, type, id) ==
  [action |-> action, resource |-> resource, resource_type |-> type, resource_id |-> id]

\* What is written now: a decision, which another service could send too, and a login of record_audit.
NewShapes ==
  {Shape("REPORT_REVIEWED", <<"report", "x">>, "report", "x"),
   Shape("login", <<"users", "x">>, NULL, NULL)}

Old(id, shape) ==
  [id |-> id, fecha |-> 0, of |-> NULL, action |-> shape.action, resource |-> shape.resource,
   resource_type |-> shape.resource_type, resource_id |-> shape.resource_id]

\* What was written before the catalogue: two reviews, of one report or of two.
OldReports ==
  {{Old(2, Shape("report_revisado", <<"reports", "x">>, NULL, NULL)),
    Old(4, Shape("report_descartado", <<"reports", id>>, NULL, NULL))} : id \in {"x", "y"}}

Query(desde, accion, tipo, id) ==
  [desde |-> desde, hasta |-> NULL, accion |-> accion, recurso_tipo |-> tipo, recurso_id |-> id]

SomeQueries ==
  {Query(NULL, "REPORT_REVIEWED", NULL, NULL), Query(NULL, NULL, "report", "x")}
=============================================================================
