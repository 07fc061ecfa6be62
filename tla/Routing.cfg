SPECIFICATION Spec
CONSTANTS
  Candidates <- MCCandidates
  Events <- MCEvents
  MaxOptions = 3
  MaxCommands = 2
INVARIANTS
  RegistrationAccepted
  RegisteredInvocationsRouted
  NeverAnotherHandler
  CompletionsRegistered
