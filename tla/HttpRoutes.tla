------------------------------ MODULE HttpRoutes ------------------------------
(***************************************************************************)
(* The tables of the HTTP layer: which guards stand before the handlers of *)
(* each controller and what a handler answers, which exceptions it throws, *)
(* and what status the exception maps of the bounded contexts give them.   *)
(*                                                                         *)
(* Contexts declare exceptions of the same name: a class is named with its *)
(* context, as instanceof tells them apart.                                *)
(***************************************************************************)
EXTENDS Integers

Roles == {"MECHANIC", "ATTENDANT"}

Contexts == {"access", "customers", "materials", "orders", "app"}

-----------------------------------------------------------------------------
(***************************************************************************)
(* Controllers: the context whose map their filter uses, their guards, the *)
(* roles they ask for ({}: any), and the success status of each handler.   *)
(***************************************************************************)
Auth == [context |-> "access", guard |-> "none", roles |-> {},
         answers |-> [login |-> 201, loginAdmin |-> 201]]

Me == [context |-> "access", guard |-> "jwt", roles |-> {}, answers |-> [me |-> 200]]

CustomerController ==
    [context |-> "customers", guard |-> "jwt", roles |-> {"ATTENDANT"},
     answers |-> [listCustomers |-> 200, createCustomer |-> 201, findCustomer |-> 200,
                  updateCustomer |-> 200, archiveCustomer |-> 204]]

VehicleController ==
    [context |-> "customers", guard |-> "jwt", roles |-> {"ATTENDANT"},
     answers |-> [listVehicles |-> 200, createVehicle |-> 201, findVehicle |-> 200,
                  updateVehicle |-> 200, archiveVehicle |-> 204]]

MaterialsController ==
    [context |-> "materials", guard |-> "jwt", roles |-> {},
     answers |-> [createMaterial |-> 201, listMaterials |-> 200, findMaterial |-> 200,
                  addMaterialStock |-> 200, updateMaterial |-> 200, deleteMaterial |-> 200]]

ServiceCatalogController ==
    [context |-> "orders", guard |-> "jwt", roles |-> {"ATTENDANT"},
     answers |-> [createService |-> 201, listServices |-> 200, findService |-> 200,
                  updateService |-> 200, deleteService |-> 204]]

ServiceOrderController ==
    [context |-> "orders", guard |-> "jwt", roles |-> {},
     answers |-> [createServiceOrder |-> 201, findAll |-> 200, findOne |-> 200,
                  getStatus |-> 200, updateStatus |-> 200, startService |-> 200,
                  finishService |-> 200, deliverVehicle |-> 200, close |-> 200]]

EstimateController ==
    [context |-> "orders", guard |-> "jwt", roles |-> {},
     answers |-> [createEstimate |-> 201, addEstimateItem |-> 201,
                  updateEstimateStatus |-> 200, rejectEstimate |-> 200]]

MechanicController ==
    [context |-> "orders", guard |-> "jwt", roles |-> {},
     answers |-> [assignMechanic |-> 200, updateMechanicAvailability |-> 200]]

DiagnosisController ==
    [context |-> "orders", guard |-> "jwt", roles |-> {}, answers |-> [startDiagnosis |-> 200]]

MetricsController ==
    [context |-> "orders", guard |-> "jwt", roles |-> {},
     answers |-> [getAverageExecutionTime |-> 200]]

EstimateNotificationController ==
    [context |-> "orders", guard |-> "webhook", roles |-> {},
     answers |-> [updateEstimateStatusExternal |-> 200]]

\* The probes of Kubernetes, with the global filter only.
AppController ==
    [context |-> "app", guard |-> "none", roles |-> {},
     answers |-> [health |-> 200, readiness |-> 200]]

Controllers ==
    {Auth, Me, CustomerController, VehicleController, MaterialsController,
     ServiceCatalogController, ServiceOrderController, EstimateController,
     MechanicController, DiagnosisController, MetricsController,
     EstimateNotificationController, AppController}

Operations == UNION {DOMAIN controller.answers : controller \in Controllers}

ControllerOf(operation) ==
    CHOOSE controller \in Controllers : operation \in DOMAIN controller.answers

ContextOf(operation) == ControllerOf(operation).context

GuardOf(operation) == ControllerOf(operation).guard

RolesOf(operation) == ControllerOf(operation).roles

Success(operation) == ControllerOf(operation).answers[operation]

-----------------------------------------------------------------------------
(***************************************************************************)
(* Exceptions.                                                             *)
(***************************************************************************)

\* What Nest and its guards and pipes throw carries its status.
HttpStatusOf == [BadRequest |-> 400, Unauthorized |-> 401, Forbidden |-> 403,
                 ServiceUnavailable |-> 503]

HttpExceptions == DOMAIN HttpStatusOf

\* Everything that is in no map: the errors of Prisma, and those of JavaScript.
Unmapped == "Error"

Entry(class, status) == [class |-> class, status |-> status]

Entries(classes, status) == {Entry(class, status) : class \in classes}

AccessIdentityStatusMap ==
    {Entry("access.InvalidCredentials", 401), Entry("access.ForbiddenRole", 403)}

\* Mutant: what extends no base exception of the context is taken to be covered by it.
CustomerManagementStatusMapShort ==
         Entries({"customers.Domain"}, 400)
    \cup Entries({"customers.CustomerNotFound", "customers.VehicleNotFound"}, 404)
    \cup Entries({"customers.CustomerAlreadyExists", "customers.CustomerIsArchived"}, 409)

CustomerManagementStatusMap ==
         Entries({"customers.Domain"}, 400)
    \cup Entries({"customers.CustomerNotFound", "customers.VehicleNotFound"}, 404)
    \cup Entries({"customers.CustomerAlreadyExists", "customers.CustomerIsArchived",
                  "customers.VehicleAlreadyExists"}, 409)

MaterialsStatusMap ==
    {Entry("materials.Domain", 400), Entry("materials.NotFound", 404),
     Entry("materials.InsufficientStock", 409)}

ServiceOrdersStatusMap ==
         Entries({"orders.ServiceOrderNotFound", "orders.EstimateNotFound",
                  "orders.CustomerNotFound", "orders.VehicleNotFound",
                  "orders.domain.VehicleNotFound", "orders.PartNotFound",
                  "orders.ServiceCatalogNotFound", "orders.UserNotMechanic",
                  "catalog.ServiceNotFound"}, 404)
    \cup Entries({"orders.InsufficientStock", "orders.DuplicateEstimateItem"}, 409)
    \cup Entries({"orders.UnauthorizedMechanic"}, 403)
    \cup Entries({"orders.InvalidStatusTransition", "orders.InvalidMaterialData",
                  "catalog.Domain", "orders.VehicleOwnerMismatch",
                  "orders.domain.VehicleOwnerMismatch"}, 400)

\* What the handlers of a context throw of their own.
Thrown(context) ==
    CASE context = "access" -> {"access.InvalidCredentials", "access.ForbiddenRole"}
      [] context = "customers" ->
            {"customers.Domain", "customers.InvalidDocument", "customers.InvalidLicensePlate",
             "customers.CustomerNotFound", "customers.VehicleNotFound",
             "customers.CustomerAlreadyExists", "customers.CustomerIsArchived",
             "customers.VehicleAlreadyExists"}
      [] context = "materials" ->
            {"materials.Domain", "materials.NotFound", "materials.InsufficientStock"}
      [] context = "orders" ->
            {"orders.ServiceOrderNotFound", "orders.EstimateNotFound",
             "orders.CustomerNotFound", "orders.VehicleNotFound",
             "orders.VehicleOwnerMismatch", "orders.PartNotFound",
             "orders.ServiceCatalogNotFound", "orders.UserNotMechanic",
             "orders.InsufficientStock", "orders.InvalidStatusTransition",
             "orders.InvalidMaterialData", "catalog.ServiceNotFound", "catalog.Domain"}
      [] OTHER -> {}

\* A handler of service-orders loads a material or a customer through the entity of
\* the other context, whose constructor may throw.
Foreign(context) ==
    IF context = "orders" THEN {"materials.Domain", "customers.Domain"} ELSE {}

Exceptions ==
    (UNION {Thrown(context) : context \in Contexts}) \cup HttpExceptions \cup {Unmapped}

\* The map of the route's filter, and of the global filter where a route has none.
StatusMap(context) ==
    CASE context = "access" -> AccessIdentityStatusMap
      [] context = "customers" -> CustomerManagementStatusMap
      [] context = "materials" -> MaterialsStatusMap
      [] context = "orders" -> ServiceOrdersStatusMap
      [] context = "app" -> AccessIdentityStatusMap \cup CustomerManagementStatusMap
                                \cup MaterialsStatusMap \cup ServiceOrdersStatusMap

\* The classes that extend the base exception of their context.
DomainExceptions ==
    {"customers.InvalidDocument", "customers.InvalidLicensePlate",
     "customers.CustomerIsArchived", "customers.CustomerAlreadyExists"}

\* class.prototype instanceof base: base is a class above it.
Inherits(class, base) == class \in DomainExceptions /\ base = "customers.Domain"

InstanceOf(exception, class) == exception = class \/ Inherits(exception, class)
=============================================================================
