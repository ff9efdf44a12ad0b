CONSTANTS
  Tenants <- TenantIds
  NoTenant <- Nobody
  Hash <- Hashes
  TextLists <- NoneOrTwo
  Registry <- Three
  Kind <- KindOf
SPECIFICATION Spec
INVARIANTS TypeOK FailsOnlyWithoutProvider FallbackOnlyPastFailed BilledAsAnswered
PROPERTIES ImplementsContract EmbedReturns
