------------------------------- MODULE PortModel -------------------------------
(* What the exporter makes of Port: the integration and the default blueprints at *)
(* the start, the kinds, blueprints and actions of custom resources at a resync,  *)
(* and for the objects the images' operating systems, the mapping, the requests   *)
(* that write the entities and those that delete them. Each is a procedure of its *)
(* own, which calls none of the others: one behaviour is about one of them.       *)
EXTENDS Provisioning, CrdDiscovery, CrdSchema, Images, EntityMapping, BulkUpsert,
        OwnedDeletion

VARIABLE procedure       \* the one that this behaviour is about

portModelVars ==
  <<procedure, provisioningVars, crdVars, schemaVars, imagesVars, mappingVars,
    upsertVars, deletionVars>>

Procedure == {"provisioning", "crds", "schema", "images", "mapping", "upsert",
              "deletion"}

PortModelTypeOK ==
  /\ procedure \in Procedure
  /\ ProvisioningTypeOK /\ CrdTypeOK /\ SchemaTypeOK /\ ImagesTypeOK
  /\ MappingTypeOK /\ UpsertTypeOK /\ DeletionTypeOK

\* The inputs of a procedure that the behaviour is not about are set to any one.
PortModelInit ==
  /\ procedure \in Procedure
  /\ procedure # "provisioning" =>
       /\ options = [byPort |-> FALSE, overwrite |-> FALSE, kafka |-> FALSE]
       /\ config = NotThere
  /\ procedure # "crds" =>
       named \in {[c \in Crd |-> CHOOSE s \in Singular : TRUE]}
  /\ procedure # "schema" => leaves = {}
  /\ procedure # "images" => digestOf = [r \in ImageRef |-> CHOOSE d \in Digest : TRUE]
  /\ procedure # "mapping" => jqQueries = {} /\ starResult = {}
  /\ procedure # "upsert" =>
       /\ entities = <<CHOOSE n \in Size : TRUE>>
       /\ entityIds = <<CHOOSE e \in EntityID : TRUE>>
       /\ maxEntitiesPerBatch = 0
  /\ procedure # "deletion" =>
       /\ live = FALSE
       /\ owner = [e \in Identifier |-> Gone]
       /\ identifiers = <<CHOOSE e \in Identifier : TRUE>>
  /\ ProvisioningInit /\ CrdInit /\ SchemaInit /\ ImagesInit /\ MappingInit
  /\ UpsertInit /\ DeletionInit

InProvisioning ==
  /\ procedure = "provisioning" /\ ProvisioningNext
  /\ UNCHANGED <<procedure, crdVars, schemaVars, imagesVars, mappingVars, upsertVars,
                 deletionVars>>

InCrds ==
  /\ procedure = "crds" /\ CrdNext
  /\ UNCHANGED <<procedure, provisioningVars, schemaVars, imagesVars, mappingVars,
                 upsertVars, deletionVars>>

InSchema ==
  /\ procedure = "schema" /\ SchemaNext
  /\ UNCHANGED <<procedure, provisioningVars, crdVars, imagesVars, mappingVars,
                 upsertVars, deletionVars>>

InImages(move) ==
  /\ procedure = "images" /\ move
  /\ UNCHANGED <<procedure, provisioningVars, crdVars, schemaVars, mappingVars,
                 upsertVars, deletionVars>>

InMapping ==
  /\ procedure = "mapping" /\ MappingNext
  /\ UNCHANGED <<procedure, provisioningVars, crdVars, schemaVars, imagesVars,
                 upsertVars, deletionVars>>

InUpsert ==
  /\ procedure = "upsert" /\ SendChunk
  /\ UNCHANGED <<procedure, provisioningVars, crdVars, schemaVars, imagesVars,
                 mappingVars, deletionVars>>

InDeletion ==
  /\ procedure = "deletion" /\ DeletionNext
  /\ UNCHANGED <<procedure, provisioningVars, crdVars, schemaVars, imagesVars,
                 mappingVars, upsertVars>>

PortModelNext ==
  \/ InProvisioning \/ InCrds \/ InSchema \/ InImages(ImagesNext) \/ InMapping
  \/ InUpsert \/ InDeletion

\* The goroutines of a batch of detections are scheduled, and the registry answers
\* or the request fails.
PortModelSpec ==
  /\ PortModelInit /\ [][PortModelNext]_portModelVars
  /\ \A w \in Worker : WF_portModelVars(InImages(DetectorStep(w)))
=============================================================================
