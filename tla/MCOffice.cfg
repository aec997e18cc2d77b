SPECIFICATION OfficeSpec
CONSTANTS
  Types <- MCTypes
  Docs = {"invoice", "certificate"}
  TypeOf <- MCTypeOf
  Editors = {e1}
  Readers = {1, 2}
  Boot = Boot
  MaxTemplates = 3
  MaxVersions = 3
  MaxCrashes = 2
  MaxFailures = 1
  None = None
  Campaigns = {1, 2}
  Addresses = {"a", "b"}
  Runs = {1, 2, 3}
  Workflows = {"reminder", "announcement"}
  Announcements = {"announcement"}
  WorkflowOf <- MCWorkflowOf
  AddressOf <- MCAddressOf
  Batch = 2
  MaxFaults = 1
  Null = Null
INVARIANTS DefaultIsPrintable IssuedWithOwnType MailedOnce
PROPERTIES InvoiceKeepsText ServesAgain QuietKept OutreachEnds
CHECK_DEADLOCK FALSE
